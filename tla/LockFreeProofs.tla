--------------------------- MODULE LockFreeProofs ---------------------------
(***************************************************************************)
(* Proofs about the two objects of LockFree.  The ring implements          *)
(* a bounded FIFO for every capacity and every range of its counters; the  *)
(* pool's free list holds what nobody has, for every number of threads and *)
(* blocks.                                                                 *)
(***************************************************************************)
EXTENDS LockFree, Sequences, FiniteSetTheorems, TLAPS

-----------------------------------------------------------------------------
(* Arithmetic of the ring *)

SlotOf(n) == n % Size

LEMMA RestUnique ==
    ASSUME NEW n \in Int, NEW d \in Nat \ {0}, NEW q \in Int, NEW r \in 0 .. d - 1, n = d * q + r
    PROVE  n % d = r
OBVIOUS

LEMMA SlotRest ==
    ASSUME NEW n \in Nat
    PROVE  SlotOf(n) \in 0 .. Size - 1 /\ \E q \in Int : n = Size * q + SlotOf(n)
<1>0. Size \in Nat \ {0}
  BY LockFreeAssumption DEF LockFreeAssumption
<1> DEFINE q == n \div Size
<1>1. q \in Int /\ SlotOf(n) \in 0 .. Size - 1
  BY <1>0 DEF SlotOf
<1>2. SlotOf(n) = n - Size * q
  BY <1>0, SMTT(20) DEF SlotOf
<1> HIDE DEF q
<1>3. n = Size * q + SlotOf(n)
  BY <1>0, <1>1, <1>2
<1> QED BY <1>1, <1>3

LEMMA RingConstants ==
    /\ Size \in Nat \ {0} /\ Wrap \in Nat \ {0} /\ Wrap > 2 * Size
    /\ \E k \in Int : Wrap = Size * k
<1>1. Size \in Nat \ {0} /\ Wrap \in Nat /\ SlotOf(Wrap) = 0
  BY LockFreeAssumption DEF LockFreeAssumption, SlotOf
<1>2. Wrap \div 2 > Size
  BY LockFreeAssumption DEF LockFreeAssumption
<1>3. Wrap > 2 * Size
  BY <1>1, <1>2
<1>4. Wrap \in Nat \ {0}
  BY <1>1, <1>3
<1>5. PICK k \in Int : Wrap = Size * k + SlotOf(Wrap)
  BY <1>1, SlotRest
<1>6. Wrap = Size * k
  BY <1>1, <1>5
<1> QED BY <1>1, <1>3, <1>4, <1>6

(* The distance of two counters. *)
LEMMA DistanceIs ==
    ASSUME NEW a \in 0 .. Wrap, NEW b \in 0 .. Wrap - 1
    PROVE  LfQueue!Distance(a, b) = IF b >= a THEN b - a ELSE b - a + Wrap
<1>1. Wrap \in Nat \ {0}
  BY RingConstants
<1>2. CASE b >= a
  <2>1. b - a = Wrap * 0 + (b - a) /\ b - a \in 0 .. Wrap - 1
    BY <1>1, <1>2
  <2>2. (b - a) % Wrap = b - a
    BY <1>1, <2>1, RestUnique
  <2> QED BY <1>2, <2>2 DEF LfQueue!Distance
<1>3. CASE b < a
  <2>1. b - a = Wrap * (-1) + (b - a + Wrap) /\ b - a + Wrap \in 0 .. Wrap - 1
    BY <1>1, <1>3
  <2>2. (b - a) % Wrap = b - a + Wrap
    BY <1>1, <2>1, RestUnique
  <2> QED BY <1>1, <1>3, <2>2 DEF LfQueue!Distance
<1> QED BY <1>1, <1>2, <1>3

(* A counter that goes round is on the same slot. *)
LEMMA SlotFacts ==
    /\ \A n \in Nat : SlotOf(n) \in 0 .. Size - 1
    /\ \A n \in Nat : SlotOf(n + Wrap) = SlotOf(n)
    /\ \A m, n \in Nat : m <= n /\ n < m + Size /\ SlotOf(m) = SlotOf(n) => m = n
<1>0. Size \in Nat \ {0} /\ Wrap \in Nat
  BY RingConstants
<1>1. ASSUME NEW n \in Nat PROVE SlotOf(n) \in 0 .. Size - 1
  BY SlotRest
<1>2. ASSUME NEW n \in Nat PROVE SlotOf(n + Wrap) = SlotOf(n)
  <2>1. PICK k \in Int : Wrap = Size * k
    BY RingConstants
  <2>2. PICK q \in Int : n = Size * q + SlotOf(n)
    BY SlotRest
  <2>3. Size * (q + k) = Size * q + Size * k
    BY <1>0
  <2>4. n + Wrap = Size * (q + k) + SlotOf(n)
    BY <1>0, <1>1, <2>1, <2>2, <2>3
  <2>5. n + Wrap \in Int /\ q + k \in Int
    BY <1>0
  <2> QED BY <1>0, <1>1, <2>4, <2>5, RestUnique DEF SlotOf
<1>3. ASSUME NEW m \in Nat, NEW n \in Nat, m <= n, n < m + Size, SlotOf(m) = SlotOf(n)
      PROVE  m = n
  <2>1. PICK p \in Int : m = Size * p + SlotOf(m)
    BY SlotRest
  <2>2. PICK q \in Int : n = Size * q + SlotOf(n)
    BY SlotRest
  <2>3. SlotOf(m) \in Int /\ n = Size * q + SlotOf(m)
    BY <1>1, <1>3, <2>2
  <2> QED BY <1>0, <1>3, <2>1, <2>3
<1> QED BY <1>1, <1>2, <1>3

(* A counter is incremented. *)
Succ(n) == (n + 1) % Wrap

LEMMA SuccIs ==
    ASSUME NEW b \in 0 .. Wrap - 1
    PROVE  /\ Succ(b) = IF b + 1 = Wrap THEN 0 ELSE b + 1
           /\ Succ(b) \in 0 .. Wrap - 1
<1>1. Wrap \in Nat \ {0}
  BY RingConstants
<1>2. CASE b + 1 = Wrap
  <2>1. b + 1 = Wrap * 1 + 0 /\ 0 \in 0 .. Wrap - 1
    BY <1>1, <1>2
  <2>2. Succ(b) = 0
    BY <1>1, <2>1, RestUnique DEF Succ
  <2> QED BY <1>1, <1>2, <2>2
<1>3. CASE b + 1 # Wrap
  <2>1. b + 1 = Wrap * 0 + (b + 1) /\ b + 1 \in 0 .. Wrap - 1
    BY <1>1, <1>3
  <2>2. Succ(b) = b + 1
    BY <1>1, <2>1, RestUnique DEF Succ
  <2> QED BY <1>1, <1>3, <2>1, <2>2
<1> QED BY <1>2, <1>3

LEMMA DistanceFacts ==
    ASSUME NEW a \in 0 .. Wrap - 1, NEW b \in 0 .. Wrap - 1
    PROVE  /\ LfQueue!Distance(a, b) \in 0 .. Wrap - 1
           /\ LfQueue!Distance(a, a) = 0
           /\ LfQueue!Distance(a, b) # Wrap - 1
                  => LfQueue!Distance(a, Succ(b)) = LfQueue!Distance(a, b) + 1
           /\ LfQueue!Distance(a, b) # 0
                  => /\ LfQueue!Distance(Succ(a), b) = LfQueue!Distance(a, b) - 1
                     /\ LfQueue!Distance(a + 1, b) = LfQueue!Distance(a, b) - 1
<1>1. Wrap \in Nat \ {0}
  BY RingConstants
<1>2. /\ Succ(a) = (IF a + 1 = Wrap THEN 0 ELSE a + 1) /\ Succ(a) \in 0 .. Wrap - 1
      /\ Succ(b) = (IF b + 1 = Wrap THEN 0 ELSE b + 1) /\ Succ(b) \in 0 .. Wrap - 1
  BY SuccIs
<1>3. /\ a \in 0 .. Wrap /\ a + 1 \in 0 .. Wrap /\ Succ(a) \in 0 .. Wrap
  BY <1>1, <1>2
<1>4. /\ LfQueue!Distance(a, b) = IF b >= a THEN b - a ELSE b - a + Wrap
      /\ LfQueue!Distance(a, a) = IF a >= a THEN a - a ELSE a - a + Wrap
  BY <1>3, DistanceIs
<1>5. LfQueue!Distance(a, Succ(b)) = IF Succ(b) >= a THEN Succ(b) - a ELSE Succ(b) - a + Wrap
  BY <1>2, <1>3, DistanceIs
<1>6. LfQueue!Distance(Succ(a), b) = IF b >= Succ(a) THEN b - Succ(a) ELSE b - Succ(a) + Wrap
  BY <1>2, <1>3, DistanceIs
<1>7. LfQueue!Distance(a + 1, b) = IF b >= a + 1 THEN b - (a + 1) ELSE b - (a + 1) + Wrap
  BY <1>3, DistanceIs
<1>8. LfQueue!Distance(a, b) \in 0 .. Wrap - 1 /\ LfQueue!Distance(a, a) = 0
  BY <1>1, <1>4
<1>9. ASSUME LfQueue!Distance(a, b) # Wrap - 1
      PROVE  LfQueue!Distance(a, Succ(b)) = LfQueue!Distance(a, b) + 1
  BY <1>1, <1>2, <1>4, <1>5, <1>9
<1>10. ASSUME LfQueue!Distance(a, b) # 0
       PROVE  LfQueue!Distance(Succ(a), b) = LfQueue!Distance(a, b) - 1
  BY <1>1, <1>2, <1>4, <1>6, <1>10
<1>11. ASSUME LfQueue!Distance(a, b) # 0
       PROVE  LfQueue!Distance(a + 1, b) = LfQueue!Distance(a, b) - 1
  BY <1>1, <1>4, <1>7, <1>11
<1> QED BY <1>8, <1>9, <1>10, <1>11

(* The slot at the distance of b from a is that of b. *)
LEMMA SlotAhead ==
    ASSUME NEW a \in 0 .. Wrap, NEW b \in 0 .. Wrap - 1
    PROVE  SlotOf(a + LfQueue!Distance(a, b)) = SlotOf(b)
<1>1. Wrap \in Nat \ {0}
  BY RingConstants
<1>2. LfQueue!Distance(a, b) = IF b >= a THEN b - a ELSE b - a + Wrap
  BY DistanceIs
<1>3. CASE b >= a
  <2>1. a + LfQueue!Distance(a, b) = b
    BY <1>1, <1>2, <1>3
  <2> QED BY <2>1
<1>4. CASE b < a
  <2>1. a + LfQueue!Distance(a, b) = b + Wrap /\ b \in Nat
    BY <1>1, <1>2, <1>4
  <2> QED BY <2>1, SlotFacts
<1> QED BY <1>1, <1>3, <1>4

-----------------------------------------------------------------------------
(* The lock-free queue *)

Pointers == LfItem \cup {NULL}
Depth == LfQueue!Distance(lfq_head, tail)
Half == Wrap \div 2

LfqTypeOK ==
    /\ tail \in 0 .. Wrap - 1 /\ lfq_head \in 0 .. Wrap - 1 /\ ohead \in 0 .. Wrap - 1
    /\ items_sem \in Nat
    /\ ppc \in {"idle", "try", "wait", "publish", "post"}
    /\ cpc \in {"idle", "wait", "take", "release"}
    /\ opc \in {"idle", "tail"}
    /\ arg \in Pointers /\ entry \in Pointers
    /\ ring \in [0 .. Size - 1 -> Pointers]

(* Every published item has a token, or a thread that will post it or has    *)
(* taken it; the producer writes a slot the consumer cannot reach; and the   *)
(* observer's head lies behind head by less than half the counter.           *)
LfqInv ==
    /\ LfqTypeOK
    /\ Depth <= Size
    /\ Depth = items_sem + (IF cpc \in {"take", "release"} THEN 1 ELSE 0)
                         + (IF ppc = "post" THEN 1 ELSE 0)
    /\ ppc = "publish" => Depth < Size /\ ring[SlotOf(tail)] = arg
    /\ opc = "tail" => /\ LfQueue!Distance(ohead, tail) = LfQueue!Distance(ohead, lfq_head) + Depth
                       /\ LfQueue!Distance(ohead, tail) < Half

LEMMA HalfFacts == Half \in Nat /\ Half > Size /\ Half <= Wrap - 2
<1>1. Size \in Nat \ {0} /\ Wrap \in Nat /\ Wrap \div 2 > Size
  BY LockFreeAssumption DEF LockFreeAssumption
<1>2. 2 * (Wrap \div 2) <= Wrap
  BY <1>1
<1> QED BY <1>1, <1>2 DEF Half

LEMMA LfqInit == LfQueue!lf_queue_init => LfqInv
<1> SUFFICES ASSUME LfQueue!lf_queue_init PROVE LfqInv
  OBVIOUS
<1>1. Size \in Nat \ {0} /\ Wrap \in Nat \ {0} /\ 0 \in 0 .. Wrap - 1
  BY RingConstants
<1>2. LfqTypeOK
  BY <1>1 DEF LfqTypeOK, LfQueue!lf_queue_init, LfQueue!Slot, Pointers
<1>3. Depth = 0
  BY <1>1, DistanceFacts DEF Depth, LfQueue!lf_queue_init
<1> QED BY <1>1, <1>2, <1>3 DEF LfqInv, LfQueue!lf_queue_init

LEMMA DepthType == LfqTypeOK => Depth \in 0 .. Wrap - 1
BY DistanceFacts DEF LfqTypeOK, Depth

LEMMA LfqNext == LfqInv /\ [LfQueue!Next]_lfqVars => LfqInv'
<1> SUFFICES ASSUME LfqInv, [LfQueue!Next]_lfqVars PROVE LfqInv'
  OBVIOUS
<1>0. /\ LfqTypeOK /\ Depth \in Nat /\ Depth <= Size
      /\ Size \in Nat \ {0} /\ Wrap \in Nat \ {0} /\ Half \in Nat /\ Half > Size /\ Half <= Wrap - 2
  BY RingConstants, HalfFacts, DepthType DEF LfqInv
<1> USE DEF LfQueue!producerVars, LfQueue!consumerVars, LfQueue!observerVars
<1>1. ASSUME NEW x \in LfItem, LfQueue!lf_queue_try_push(x) \/ LfQueue!lf_queue_wait_push(x)
      PROVE  LfqInv'
  <2>1. /\ ppc = "idle" /\ ppc' \in {"try", "wait"} /\ arg' = x
        /\ UNCHANGED <<ring, tail, lfq_head, items_sem, cpc, entry, opc, ohead>>
    BY <1>1 DEF LfQueue!lf_queue_try_push, LfQueue!lf_queue_wait_push
  <2>2. Depth' = Depth
    BY <2>1 DEF Depth
  <2>3. LfqTypeOK'
    BY <1>0, <2>1 DEF LfqTypeOK, Pointers
  <2> QED BY <2>1, <2>2, <2>3 DEF LfqInv
<1>2. CASE LfQueue!PushFull \/ LfQueue!PushPost
  <2>1. /\ ppc' = "idle" /\ arg' = NULL
        /\ UNCHANGED <<ring, tail, lfq_head, cpc, entry, opc, ohead>>
        /\ (ppc = "try" /\ items_sem' = items_sem) \/ (ppc = "post" /\ items_sem' = items_sem + 1)
    BY <1>2 DEF LfQueue!PushFull, LfQueue!PushPost
  <2>2. Depth' = Depth
    BY <2>1 DEF Depth
  <2>3. LfqTypeOK'
    BY <1>0, <2>1 DEF LfqTypeOK, Pointers
  <2>4. Depth' = items_sem' + (IF cpc' \in {"take", "release"} THEN 1 ELSE 0)
                            + (IF ppc' = "post" THEN 1 ELSE 0)
    BY <1>0, <2>1, <2>2 DEF LfqInv, LfqTypeOK
  <2> QED BY <2>1, <2>2, <2>3, <2>4 DEF LfqInv
<1>3. CASE LfQueue!lf_queue_wait_pop \/ LfQueue!PopToken \/ LfQueue!lf_queue_try_pop
  <2>1. /\ UNCHANGED <<ring, tail, lfq_head, ppc, arg, entry, opc, ohead>>
        /\ cpc \in {"idle", "wait"}
        /\ \/ cpc' = "wait" /\ items_sem' = items_sem
           \/ cpc' = "take" /\ items_sem > 0 /\ items_sem' = items_sem - 1
    BY <1>3 DEF LfQueue!lf_queue_wait_pop, LfQueue!PopToken, LfQueue!lf_queue_try_pop
  <2>2. Depth' = Depth
    BY <2>1 DEF Depth
  <2>3. LfqTypeOK'
    BY <1>0, <2>1 DEF LfqTypeOK
  <2>4. Depth' = items_sem' + (IF cpc' \in {"take", "release"} THEN 1 ELSE 0)
                            + (IF ppc' = "post" THEN 1 ELSE 0)
    BY <1>0, <2>1, <2>2 DEF LfqInv, LfqTypeOK
  <2> QED BY <2>1, <2>2, <2>3, <2>4 DEF LfqInv
<1>4. CASE LfQueue!lf_queue_get_pending
  <2>1. /\ opc' = "tail" /\ ohead' = lfq_head
        /\ UNCHANGED <<ring, tail, lfq_head, items_sem, ppc, arg, cpc, entry>>
    BY <1>4 DEF LfQueue!lf_queue_get_pending
  <2>2. Depth' = Depth
    BY <2>1 DEF Depth
  <2>3. LfqTypeOK'
    BY <1>0, <2>1 DEF LfqTypeOK
  <2>4. LfQueue!Distance(lfq_head, lfq_head) = 0
    BY <1>0, DistanceFacts DEF LfqTypeOK
  <2>5. /\ LfQueue!Distance(ohead', tail') = LfQueue!Distance(ohead', lfq_head') + Depth'
        /\ LfQueue!Distance(ohead', tail') < Half
    BY <1>0, <2>1, <2>2, <2>4 DEF Depth
  <2> QED BY <2>1, <2>2, <2>3, <2>5 DEF LfqInv
<1>5. CASE LfQueue!PendingTail
  <2>1. /\ opc' = "idle" /\ ohead' = 0
        /\ UNCHANGED <<ring, tail, lfq_head, items_sem, ppc, arg, cpc, entry>>
    BY <1>5 DEF LfQueue!PendingTail
  <2>2. Depth' = Depth
    BY <2>1 DEF Depth
  <2>3. LfqTypeOK'
    BY <1>0, <2>1 DEF LfqTypeOK
  <2> QED BY <2>1, <2>2, <2>3 DEF LfqInv
<1>6. CASE LfQueue!PushStore
  <2>1. /\ ppc \in {"try", "wait"} /\ ppc' = "publish" /\ ~LfQueue!IsFull
        /\ ring' = [ring EXCEPT ![SlotOf(tail)] = arg]
        /\ UNCHANGED <<tail, lfq_head, items_sem, arg, cpc, entry, opc, ohead>>
    BY <1>6 DEF LfQueue!PushStore, SlotOf
  <2>2. Depth' = Depth /\ Depth < Size
    BY <1>0, <2>1 DEF Depth, LfQueue!IsFull
  <2>a. tail \in Nat
    BY <1>0 DEF LfqTypeOK
  <2>3. SlotOf(tail) \in 0 .. Size - 1
    BY <2>a, SlotFacts
  <2>4. LfqTypeOK' /\ ring'[SlotOf(tail)] = arg
    BY <1>0, <2>1, <2>3 DEF LfqTypeOK
  <2> QED BY <2>1, <2>2, <2>4 DEF LfqInv
<1>7. CASE LfQueue!PushPublish
  <2>1. /\ ppc = "publish" /\ ppc' = "post" /\ tail' = Succ(tail)
        /\ (opc = "tail" => LfQueue!Distance(ohead, tail) < Half - 1)
        /\ UNCHANGED <<ring, lfq_head, items_sem, arg, cpc, entry, opc, ohead>>
    BY <1>7 DEF LfQueue!PushPublish, Succ, Half
  <2>2. Depth < Size /\ tail \in 0 .. Wrap - 1 /\ lfq_head \in 0 .. Wrap - 1 /\ ohead \in 0 .. Wrap - 1
    BY <1>0, <2>1 DEF LfqInv, LfqTypeOK
  <2>3. tail' \in 0 .. Wrap - 1
    BY <2>1, <2>2, SuccIs
  <2>4. Depth' = Depth + 1
    BY <1>0, <2>1, <2>2, DistanceFacts DEF Depth
  <2>5. opc = "tail" => LfQueue!Distance(ohead, tail') = LfQueue!Distance(ohead, tail) + 1
    <3>1. opc = "tail" => LfQueue!Distance(ohead, tail) # Wrap - 1
      BY <1>0, <2>1
    <3> QED BY <2>1, <2>2, <3>1, DistanceFacts
  <2>6. LfqTypeOK'
    BY <1>0, <2>1, <2>3 DEF LfqTypeOK
  <2>7. Depth' = items_sem' + (IF cpc' \in {"take", "release"} THEN 1 ELSE 0)
                            + (IF ppc' = "post" THEN 1 ELSE 0)
    BY <1>0, <2>1, <2>4 DEF LfqInv, LfqTypeOK
  <2>8. opc' = "tail" => /\ LfQueue!Distance(ohead', tail') = LfQueue!Distance(ohead', lfq_head') + Depth'
                         /\ LfQueue!Distance(ohead', tail') < Half
    <3>1. /\ LfQueue!Distance(ohead, tail) \in 0 .. Wrap - 1
          /\ LfQueue!Distance(ohead, lfq_head) \in 0 .. Wrap - 1
      BY <2>2, DistanceFacts
    <3> QED BY <1>0, <2>1, <2>4, <2>5, <3>1 DEF LfqInv
  <2> QED BY <1>0, <2>1, <2>2, <2>4, <2>6, <2>7, <2>8 DEF LfqInv
<1>8. CASE LfQueue!PopTake
  <2>1. /\ cpc = "take" /\ cpc' = "release" /\ entry' = ring[SlotOf(lfq_head)]
        /\ ring' = [ring EXCEPT ![SlotOf(lfq_head)] = NULL]
        /\ UNCHANGED <<tail, lfq_head, items_sem, ppc, arg, opc, ohead>>
    BY <1>8 DEF LfQueue!PopTake, SlotOf
  <2>2. Depth' = Depth
    BY <2>1 DEF Depth
  <2>a. lfq_head \in Nat
    BY <1>0 DEF LfqTypeOK
  <2>3. SlotOf(lfq_head) \in 0 .. Size - 1 /\ lfq_head \in Nat
    BY <2>a, SlotFacts
  <2>4. LfqTypeOK'
    BY <1>0, <2>1, <2>3 DEF LfqTypeOK, Pointers
  <2>5. Depth >= 1
    BY <1>0, <2>1 DEF LfqInv, LfqTypeOK
  <2>6. ASSUME Depth < Size PROVE SlotOf(tail) # SlotOf(lfq_head)
    <3>1. SlotOf(tail) = SlotOf(lfq_head + Depth)
      BY <1>0, SlotAhead DEF LfqTypeOK, Depth
    <3>2. lfq_head + Depth \in Nat /\ lfq_head <= lfq_head + Depth /\ lfq_head + Depth < lfq_head + Size
          /\ lfq_head # lfq_head + Depth
      BY <1>0, <2>3, <2>5, <2>6
    <3> QED BY <2>3, <3>1, <3>2, SlotFacts
  <2>7. ppc' = "publish" => Depth' < Size /\ ring'[SlotOf(tail')] = arg'
    <3>1. SUFFICES ASSUME ppc = "publish" PROVE Depth < Size /\ ring'[SlotOf(tail)] = arg
      BY <2>1, <2>2
    <3>2. Depth < Size /\ ring[SlotOf(tail)] = arg
      BY <3>1 DEF LfqInv
    <3> QED BY <1>0, <2>1, <2>6, <3>2 DEF LfqTypeOK
  <2> QED BY <2>1, <2>2, <2>4, <2>7 DEF LfqInv
<1>9. CASE LfQueue!PopRelease
  <2>1. /\ cpc = "release" /\ cpc' = "idle" /\ lfq_head' = Succ(lfq_head)
        /\ UNCHANGED <<ring, tail, items_sem, ppc, arg, entry, opc, ohead>>
    BY <1>9 DEF LfQueue!PopRelease, Succ
  <2>2. Depth >= 1 /\ tail \in 0 .. Wrap - 1 /\ lfq_head \in 0 .. Wrap - 1 /\ ohead \in 0 .. Wrap - 1
    BY <1>0, <2>1 DEF LfqInv, LfqTypeOK
  <2>3. lfq_head' \in 0 .. Wrap - 1
    BY <2>1, <2>2, SuccIs
  <2>4. Depth' = Depth - 1
    BY <1>0, <2>1, <2>2, DistanceFacts DEF Depth
  <2>5. LfqTypeOK'
    BY <1>0, <2>1, <2>3 DEF LfqTypeOK
  <2>6. Depth' = items_sem' + (IF cpc' \in {"take", "release"} THEN 1 ELSE 0)
                            + (IF ppc' = "post" THEN 1 ELSE 0)
    BY <1>0, <2>1, <2>4 DEF LfqInv, LfqTypeOK
  <2>7. ASSUME opc = "tail"
        PROVE  /\ LfQueue!Distance(ohead', tail') = LfQueue!Distance(ohead', lfq_head') + Depth'
               /\ LfQueue!Distance(ohead', tail') < Half
    <3>1. /\ LfQueue!Distance(ohead, tail) \in 0 .. Wrap - 1
          /\ LfQueue!Distance(ohead, lfq_head) \in 0 .. Wrap - 1
      BY <2>2, DistanceFacts
    <3>2. /\ LfQueue!Distance(ohead, tail) = LfQueue!Distance(ohead, lfq_head) + Depth
          /\ LfQueue!Distance(ohead, tail) < Half
      BY <2>7 DEF LfqInv
    <3>3. LfQueue!Distance(ohead, lfq_head) # Wrap - 1
      BY <1>0, <2>2, <3>1, <3>2
    <3>4. LfQueue!Distance(ohead, lfq_head') = LfQueue!Distance(ohead, lfq_head) + 1
      BY <2>1, <2>2, <3>3, DistanceFacts
    <3> QED BY <1>0, <2>1, <2>4, <3>1, <3>2, <3>4
  <2> QED BY <1>0, <2>1, <2>2, <2>4, <2>5, <2>6, <2>7 DEF LfqInv
<1>10. CASE UNCHANGED lfqVars
  <2>1. UNCHANGED <<ring, tail, lfq_head, items_sem, ppc, arg, cpc, entry, opc, ohead>>
    BY <1>10 DEF lfqVars
  <2>2. Depth' = Depth
    BY <2>1 DEF Depth
  <2>3. LfqTypeOK'
    BY <1>0, <2>1 DEF LfqTypeOK
  <2> QED BY <2>1, <2>2, <2>3 DEF LfqInv
<1> QED BY <1>1, <1>2, <1>3, <1>4, <1>5, <1>6, <1>7, <1>8, <1>9, <1>10 DEF LfQueue!Next, LfQueue!Step

(* Where the items nobody has taken begin, and how many there are. *)
First == IF cpc = "release" THEN lfq_head + 1 ELSE lfq_head
Count == IF cpc = "release" THEN Depth - 1 ELSE Depth

LEMMA CountFacts ==
    LfqInv => /\ First \in 0 .. Wrap /\ First \in Nat
              /\ Count \in Nat /\ Count <= Depth
              /\ LfQueue!Distance(First, tail) = Count
              /\ SlotOf(First + Count) = SlotOf(tail)
              /\ cpc = "take" => Depth >= 1
<1> SUFFICES ASSUME LfqInv
             PROVE  /\ First \in 0 .. Wrap /\ First \in Nat
                    /\ Count \in Nat /\ Count <= Depth
                    /\ LfQueue!Distance(First, tail) = Count
                    /\ SlotOf(First + Count) = SlotOf(tail)
                    /\ cpc = "take" => Depth >= 1
  OBVIOUS
<1>1. /\ LfqTypeOK /\ Depth \in Nat /\ Wrap \in Nat \ {0}
      /\ lfq_head \in 0 .. Wrap - 1 /\ tail \in 0 .. Wrap - 1
  BY RingConstants, DepthType DEF LfqInv, LfqTypeOK
<1>2. cpc \in {"take", "release"} => Depth >= 1
  BY <1>1 DEF LfqInv, LfqTypeOK
<1>3. First \in 0 .. Wrap /\ First \in Nat /\ Count \in Nat /\ Count <= Depth
  BY <1>1, <1>2 DEF First, Count
<1>4. LfQueue!Distance(First, tail) = Count
  <2>1. CASE cpc = "release"
    <3>1. LfQueue!Distance(lfq_head, tail) # 0
      BY <1>1, <1>2, <2>1 DEF Depth
    <3> QED BY <1>1, <2>1, <3>1, DistanceFacts DEF First, Count, Depth
  <2>2. CASE cpc # "release"
    BY <2>2 DEF First, Count, Depth
  <2> QED BY <2>1, <2>2
<1>5. SlotOf(First + Count) = SlotOf(tail)
  BY <1>1, <1>3, <1>4, SlotAhead
<1> QED BY <1>2, <1>3, <1>4, <1>5

LEMMA ContentsIs ==
    LfqInv => LfQueue!Contents = [i \in 1 .. Count |-> ring[SlotOf(First + i - 1)]]
BY CountFacts DEF LfQueue!Contents, First, SlotOf

(* Different items are in different slots. *)
LEMMA SlotsApart ==
    ASSUME LfqInv, NEW i \in 0 .. Size - 1, NEW j \in 0 .. Size - 1, SlotOf(First + i) = SlotOf(First + j)
    PROVE  i = j
<1>1. First \in Nat /\ Size \in Nat \ {0}
  BY CountFacts, RingConstants
<1>2. First + i \in Nat /\ First + j \in Nat
  BY <1>1
<1>3. CASE i <= j
  <2>1. First + i <= First + j /\ First + j < (First + i) + Size
    BY <1>1, <1>3
  <2>2. First + i = First + j
    BY <1>2, <2>1, SlotFacts
  <2> QED BY <1>1, <2>2
<1>4. CASE j <= i
  <2>1. First + j <= First + i /\ First + i < (First + j) + Size
    BY <1>1, <1>4
  <2>2. First + i = First + j
    BY <1>2, <2>1, SlotFacts
  <2> QED BY <1>1, <2>2
<1> QED BY <1>1, <1>3, <1>4

LEMMA AppendIs ==
    ASSUME NEW S, NEW s \in Seq(S), NEW x \in S, NEW t,
           t = [i \in 1 .. Len(s) + 1 |-> IF i = Len(s) + 1 THEN x ELSE s[i]]
    PROVE  t = Append(s, x)
<1>1. /\ Append(s, x) \in Seq(S)
      /\ Len(Append(s, x)) = Len(s) + 1
      /\ \A i \in 1 .. Len(s) : Append(s, x)[i] = s[i]
      /\ Append(s, x)[Len(s) + 1] = x
  OBVIOUS
<1>2. Len(s) \in Nat /\ DOMAIN Append(s, x) = 1 .. Len(s) + 1
  BY <1>1
<1>3. \A q \in Seq(S) : q = [i \in DOMAIN q |-> q[i]]
  OBVIOUS
<1>4. Append(s, x) = [i \in DOMAIN Append(s, x) |-> Append(s, x)[i]]
  BY <1>1, <1>3, Zenon
<1>5. \A i \in 1 .. Len(s) + 1 : Append(s, x)[i] = IF i = Len(s) + 1 THEN x ELSE s[i]
  BY <1>1, <1>2
<1> QED BY <1>2, <1>4, <1>5

LEMMA TailIs ==
    ASSUME NEW S, NEW s \in Seq(S), Len(s) > 0, NEW t,
           t = [i \in 1 .. Len(s) - 1 |-> s[i + 1]]
    PROVE  s # <<>> /\ Head(s) = s[1] /\ t = Tail(s)
<1>1. s # <<>>
  OBVIOUS
<1>2. /\ Tail(s) \in Seq(S)
      /\ Len(Tail(s)) = Len(s) - 1
      /\ \A i \in 1 .. Len(s) - 1 : Tail(s)[i] = s[i + 1]
  BY <1>1
<1>3. DOMAIN Tail(s) = 1 .. Len(s) - 1
  BY <1>2
<1>4. \A q \in Seq(S) : q = [i \in DOMAIN q |-> q[i]]
  OBVIOUS
<1>5. Tail(s) = [i \in DOMAIN Tail(s) |-> Tail(s)[i]]
  BY <1>2, <1>4, Zenon
<1>6. Head(s) = s[1]
  BY <1>1
<1> QED BY <1>1, <1>2, <1>3, <1>5, <1>6

LEMMA ContentsSeq ==
    ASSUME LfqInv
    PROVE  /\ LfQueue!Contents \in Seq(Pointers)
           /\ Len(LfQueue!Contents) = Count
           /\ \A i \in 1 .. Count : LfQueue!Contents[i] = ring[SlotOf(First + i - 1)]
<1>1. LfQueue!Contents = [i \in 1 .. Count |-> ring[SlotOf(First + i - 1)]]
  BY ContentsIs
<1>2. Count \in Nat /\ First \in Nat /\ ring \in [0 .. Size - 1 -> Pointers]
  BY CountFacts DEF LfqInv, LfqTypeOK
<1>3. ASSUME NEW i \in 1 .. Count PROVE ring[SlotOf(First + i - 1)] \in Pointers
  <2>1. First + i - 1 \in Nat
    BY <1>2
  <2>2. SlotOf(First + i - 1) \in 0 .. Size - 1
    BY <2>1, SlotFacts
  <2> QED BY <1>2, <2>2
<1> QED BY <1>1, <1>2, <1>3

(* The contents after a step. *)
LEMMA ContentsNext ==
    ASSUME LfqInv'
    PROVE  LfQueue!Contents' = [i \in 1 .. Count' |-> ring'[SlotOf(First' + i - 1)]]
<1>1. (LfqInv => LfQueue!Contents = [i \in 1 .. Count |-> ring[SlotOf(First + i - 1)]])'
  BY ContentsIs, PTL
<1> QED BY <1>1

LEMMA PublishAppends ==
    ASSUME LfqInv, LfqInv', LfQueue!PushPublish
    PROVE  LfQueue!Contents' = Append(LfQueue!Contents, arg) /\ Len(LfQueue!Contents) < Size
<1>1. /\ ppc = "publish" /\ tail' = Succ(tail)
      /\ UNCHANGED <<ring, lfq_head, cpc>>
  BY DEF LfQueue!PushPublish, Succ, LfQueue!consumerVars
<1>2. /\ Depth < Size /\ ring[SlotOf(tail)] = arg /\ arg \in Pointers
      /\ tail \in 0 .. Wrap - 1 /\ lfq_head \in 0 .. Wrap - 1
  BY <1>1 DEF LfqInv, LfqTypeOK
<1>3. /\ Count \in Nat /\ Count <= Depth /\ First \in Nat /\ SlotOf(First + Count) = SlotOf(tail)
      /\ Depth \in Nat /\ Size \in Nat /\ Wrap \in Nat /\ Wrap > 2 * Size
  BY CountFacts, DepthType, RingConstants DEF LfqInv
<1>4. Depth' = Depth + 1
  BY <1>1, <1>2, <1>3, DistanceFacts DEF Depth
<1>5. Count' = Count + 1 /\ First' = First
  BY <1>1, <1>3, <1>4 DEF Count, First
<1>6. LfQueue!Contents' = [i \in 1 .. Count + 1 |-> ring[SlotOf(First + i - 1)]]
  BY <1>1, <1>5, ContentsNext
<1>7. /\ LfQueue!Contents \in Seq(Pointers) /\ Len(LfQueue!Contents) = Count
      /\ \A i \in 1 .. Count : LfQueue!Contents[i] = ring[SlotOf(First + i - 1)]
  BY ContentsSeq
<1>8. First + (Count + 1) - 1 = First + Count
  BY <1>3
<1>9. LfQueue!Contents' = [i \in 1 .. Count + 1 |-> IF i = Count + 1 THEN arg ELSE LfQueue!Contents[i]]
  <2>1. ASSUME NEW i \in 1 .. Count + 1
        PROVE  ring[SlotOf(First + i - 1)] = IF i = Count + 1 THEN arg ELSE LfQueue!Contents[i]
    <3>1. CASE i = Count + 1
      BY <1>2, <1>3, <1>8, <3>1
    <3>2. CASE i # Count + 1
      BY <1>3, <1>7, <3>2
    <3> QED BY <3>1, <3>2
  <2> QED BY <1>6, <2>1
<1>10. LfQueue!Contents' = Append(LfQueue!Contents, arg)
  BY <1>2, <1>7, <1>9, AppendIs
<1>11. Len(LfQueue!Contents) < Size
  BY <1>2, <1>3, <1>7
<1> QED BY <1>10, <1>11

LEMMA TakeRemoves ==
    ASSUME LfqInv, LfqInv', LfQueue!PopTake
    PROVE  /\ LfQueue!Contents # <<>>
           /\ entry' = Head(LfQueue!Contents)
           /\ LfQueue!Contents' = Tail(LfQueue!Contents)
<1>1. /\ cpc = "take" /\ cpc' = "release" /\ entry' = ring[SlotOf(lfq_head)]
      /\ ring' = [ring EXCEPT ![SlotOf(lfq_head)] = NULL]
      /\ UNCHANGED <<tail, lfq_head>>
  BY DEF LfQueue!PopTake, SlotOf
<1>2. /\ Depth \in Nat /\ Depth >= 1 /\ Depth <= Size /\ lfq_head \in Nat /\ Size \in Nat
      /\ ring \in [0 .. Size - 1 -> Pointers]
  BY <1>1, CountFacts, DepthType, RingConstants DEF LfqInv, LfqTypeOK
<1>3. First = lfq_head /\ Count = Depth /\ First' = lfq_head + 1 /\ Count' = Depth - 1
  BY <1>1 DEF First, Count, Depth
<1>4. /\ LfQueue!Contents \in Seq(Pointers) /\ Len(LfQueue!Contents) = Depth
      /\ \A i \in 1 .. Depth : LfQueue!Contents[i] = ring[SlotOf(lfq_head + i - 1)]
  BY <1>3, ContentsSeq
<1>5. LfQueue!Contents' = [i \in 1 .. Depth - 1 |-> ring'[SlotOf(lfq_head + 1 + i - 1)]]
  BY <1>3, ContentsNext
<1>6. ASSUME NEW i \in 1 .. Depth - 1
      PROVE  ring'[SlotOf(lfq_head + 1 + i - 1)] = LfQueue!Contents[i + 1]
  <2>1. lfq_head + 1 + i - 1 = lfq_head + i /\ lfq_head + (i + 1) - 1 = lfq_head + i /\ lfq_head + 0 = lfq_head
    BY <1>2
  <2>2. i + 1 \in 1 .. Depth /\ i \in 0 .. Size - 1 /\ 0 \in 0 .. Size - 1 /\ i # 0
    BY <1>2
  <2>3. SlotOf(lfq_head + i) # SlotOf(lfq_head)
    BY <1>3, <2>1, <2>2, SlotsApart
  <2>4. lfq_head + i \in Nat
    BY <1>2
  <2>5. SlotOf(lfq_head + i) \in 0 .. Size - 1
    BY <2>4, SlotFacts
  <2>6. ring'[SlotOf(lfq_head + i)] = ring[SlotOf(lfq_head + i)]
    BY <1>1, <1>2, <2>3, <2>5
  <2> QED BY <1>4, <2>1, <2>2, <2>6
<1>7. LfQueue!Contents' = [i \in 1 .. Depth - 1 |-> LfQueue!Contents[i + 1]]
  BY <1>5, <1>6
<1>8. Len(LfQueue!Contents) > 0 /\ LfQueue!Contents' = [i \in 1 .. Len(LfQueue!Contents) - 1 |-> LfQueue!Contents[i + 1]]
  BY <1>2, <1>4, <1>7
<1>9. /\ LfQueue!Contents # <<>> /\ Head(LfQueue!Contents) = LfQueue!Contents[1]
      /\ LfQueue!Contents' = Tail(LfQueue!Contents)
  BY <1>4, <1>8, TailIs
<1>10. LfQueue!Contents[1] = ring[SlotOf(lfq_head)]
  <2>1. lfq_head + 1 - 1 = lfq_head /\ 1 \in 1 .. Depth
    BY <1>2
  <2> QED BY <1>4, <2>1
<1> QED BY <1>1, <1>9, <1>10

(* The producer's slot is not one of the items', and the release of head     *)
(* only renames the first of them.                                           *)
LEMMA ContentsStay ==
    ASSUME LfqInv, LfqInv', LfQueue!PushStore \/ LfQueue!PopRelease
    PROVE  LfQueue!Contents' = LfQueue!Contents
<1>0. /\ LfQueue!Contents' = [i \in 1 .. Count' |-> ring'[SlotOf(First' + i - 1)]]
      /\ LfQueue!Contents = [i \in 1 .. Count |-> ring[SlotOf(First + i - 1)]]
  BY ContentsIs, ContentsNext
<1>1. /\ Depth \in Nat /\ Depth <= Size /\ Size \in Nat \ {0} /\ Wrap \in Nat \ {0}
      /\ ring \in [0 .. Size - 1 -> Pointers] /\ tail \in 0 .. Wrap - 1 /\ lfq_head \in 0 .. Wrap - 1
      /\ Count \in Nat /\ Count <= Depth /\ First \in Nat /\ SlotOf(First + Count) = SlotOf(tail)
  BY CountFacts, DepthType, RingConstants DEF LfqInv, LfqTypeOK
<1>2. CASE LfQueue!PushStore
  <2>1. /\ ~LfQueue!IsFull /\ ring' = [ring EXCEPT ![SlotOf(tail)] = arg] /\ UNCHANGED <<tail, lfq_head, cpc>>
    BY <1>2 DEF LfQueue!PushStore, SlotOf, LfQueue!consumerVars
  <2>2. Depth < Size
    BY <1>1, <2>1 DEF LfQueue!IsFull, Depth
  <2>3. First' = First /\ Count' = Count
    BY <2>1 DEF First, Count, Depth
  <2>4. ASSUME NEW i \in 1 .. Count PROVE ring'[SlotOf(First + i - 1)] = ring[SlotOf(First + i - 1)]
    <3>1. /\ i - 1 \in 0 .. Size - 1 /\ Count \in 0 .. Size - 1 /\ i - 1 # Count
          /\ First + (i - 1) = First + i - 1 /\ First + i - 1 \in Nat
      BY <1>1, <2>2
    <3>2. SlotOf(First + (i - 1)) # SlotOf(First + Count)
      BY <3>1, SlotsApart
    <3>3. SlotOf(First + i - 1) # SlotOf(tail)
      BY <1>1, <3>1, <3>2
    <3>4. SlotOf(First + i - 1) \in 0 .. Size - 1
      BY <3>1, SlotFacts
    <3> QED BY <1>1, <2>1, <3>3, <3>4
  <2> QED BY <1>0, <2>3, <2>4
<1>3. CASE LfQueue!PopRelease
  <2>1. cpc = "release" /\ cpc' = "idle" /\ lfq_head' = Succ(lfq_head) /\ UNCHANGED <<ring, tail>>
    BY <1>3 DEF LfQueue!PopRelease, Succ
  <2>2. First = lfq_head + 1 /\ Count = Depth - 1 /\ First' = Succ(lfq_head) /\ Count' = Depth'
    BY <2>1 DEF First, Count
  <2>3. Depth' = Depth - 1
    <3>1. LfQueue!Distance(lfq_head, tail) # 0
      BY <1>1, <2>2 DEF Depth
    <3> QED BY <1>1, <2>1, <3>1, DistanceFacts DEF Depth
  <2>4. Succ(lfq_head) = IF lfq_head + 1 = Wrap THEN 0 ELSE lfq_head + 1
    BY <1>1, SuccIs
  <2>5. ASSUME NEW i \in 1 .. Count PROVE SlotOf(First' + i - 1) = SlotOf(First + i - 1)
    <3>1. CASE lfq_head + 1 = Wrap
      <4>1. First' + i - 1 = i - 1 /\ First + i - 1 = (i - 1) + Wrap /\ i - 1 \in Nat
        BY <1>1, <2>2, <2>4, <3>1
      <4> QED BY <4>1, SlotFacts
    <3>2. CASE lfq_head + 1 # Wrap
      BY <2>2, <2>4, <3>2
    <3> QED BY <3>1, <3>2
  <2> QED BY <1>0, <2>1, <2>2, <2>3, <2>5
<1> QED BY <1>2, <1>3

(* Every step of the ring is a step of the FIFO, or leaves it unchanged. *)
LEMMA LfFifoNext ==
    ASSUME LfqInv, LfqInv', [LfQueue!Next]_lfqVars
    PROVE  [LfQueue!Fifo!Next]_(LfQueue!Fifo!vars)
<1>1. ASSUME UNCHANGED <<LfQueue!Contents, arg, entry>> PROVE UNCHANGED LfQueue!Fifo!vars
  BY <1>1 DEF LfQueue!Fifo!vars
<1>2. ASSUME UNCHANGED <<ring, tail, lfq_head>>, cpc' = cpc \/ {cpc, cpc'} \subseteq {"idle", "wait", "take"}
      PROVE  UNCHANGED LfQueue!Contents
  BY <1>2 DEF LfQueue!Contents, LfQueue!Distance
<1>3. ASSUME NEW x \in Pointers, arg' = x, UNCHANGED <<LfQueue!Contents, entry>>
      PROVE  LfQueue!Fifo!Next
  <2>1. LfQueue!Fifo!Offer("producer", x)
    BY <1>3 DEF LfQueue!Fifo!Offer
  <2> QED BY <2>1 DEF LfQueue!Fifo!Next, Pointers
<1>4. ASSUME LfQueue!PushPublish PROVE LfQueue!Fifo!Next
  <2>1. UNCHANGED <<arg, entry>>
    BY <1>4 DEF LfQueue!PushPublish, LfQueue!consumerVars
  <2>2. LfQueue!Fifo!Put("producer")
    BY <1>4, <2>1, PublishAppends DEF LfQueue!Fifo!Put
  <2> QED BY <2>2 DEF LfQueue!Fifo!Next
<1>5. ASSUME LfQueue!PopTake PROVE LfQueue!Fifo!Next
  <2>1. UNCHANGED arg
    BY <1>5 DEF LfQueue!PopTake, LfQueue!producerVars
  <2>2. LfQueue!Fifo!Take("consumer")
    BY <1>5, <2>1, TakeRemoves DEF LfQueue!Fifo!Take
  <2> QED BY <2>2 DEF LfQueue!Fifo!Next
<1>6. ASSUME LfQueue!PushStore \/ LfQueue!PopRelease PROVE UNCHANGED LfQueue!Fifo!vars
  BY <1>1, <1>6, ContentsStay DEF LfQueue!PushStore, LfQueue!PopRelease, LfQueue!consumerVars, LfQueue!producerVars
<1>7. ASSUME NEW x \in LfItem, LfQueue!lf_queue_try_push(x) \/ LfQueue!lf_queue_wait_push(x)
      PROVE  LfQueue!Fifo!Next
  BY <1>2, <1>3, <1>7
     DEF LfQueue!lf_queue_try_push, LfQueue!lf_queue_wait_push, LfQueue!consumerVars, Pointers
<1>8. ASSUME LfQueue!PushFull \/ LfQueue!PushPost PROVE LfQueue!Fifo!Next
  BY <1>2, <1>3, <1>8 DEF LfQueue!PushFull, LfQueue!PushPost, LfQueue!consumerVars, Pointers
<1>9. ASSUME \/ LfQueue!lf_queue_try_pop \/ LfQueue!lf_queue_wait_pop \/ LfQueue!PopToken
             \/ LfQueue!lf_queue_get_pending \/ LfQueue!PendingTail
      PROVE  UNCHANGED LfQueue!Fifo!vars
  BY <1>1, <1>2, <1>9
     DEF LfQueue!lf_queue_try_pop, LfQueue!lf_queue_wait_pop, LfQueue!PopToken,
         LfQueue!lf_queue_get_pending, LfQueue!PendingTail, LfQueue!consumerVars, LfQueue!producerVars
<1>10. CASE UNCHANGED lfqVars
  BY <1>1, <1>2, <1>10 DEF lfqVars
<1> QED BY <1>4, <1>5, <1>6, <1>7, <1>8, <1>9, <1>10 DEF LfQueue!Next, LfQueue!Step

(* The observer's two loads, for every counter width. *)
LEMMA ObserverDepth == LfqInv => LfQueue!DepthNotBelow
<1> SUFFICES ASSUME LfqInv, opc = "tail" PROVE LfQueue!Pending >= LfQueue!Distance(lfq_head, tail)
  BY DEF LfQueue!DepthNotBelow
<1>1. /\ LfQueue!Distance(ohead, tail) = LfQueue!Distance(ohead, lfq_head) + Depth
      /\ LfQueue!Distance(ohead, tail) < Half
  BY DEF LfqInv
<1>2. LfQueue!Distance(ohead, lfq_head) \in Nat /\ Depth \in Nat
  <2>1. ohead \in 0 .. Wrap - 1 /\ lfq_head \in 0 .. Wrap - 1 /\ tail \in 0 .. Wrap - 1
    BY DEF LfqInv, LfqTypeOK
  <2>2. LfQueue!Distance(ohead, lfq_head) \in 0 .. Wrap - 1 /\ Depth \in 0 .. Wrap - 1
    BY <2>1, DistanceFacts DEF Depth
  <2> QED BY <2>2
<1>3. LfQueue!Pending = LfQueue!Distance(ohead, tail)
  BY <1>1 DEF LfQueue!Pending, Half
<1> QED BY <1>1, <1>2, <1>3 DEF Depth

(* lf_queue.h's ring without a lock is a bounded FIFO for every size, every   *)
(* counter width its size divides and every set of pointers: what             *)
(* lf_queue_wait_pop and lf_queue_try_pop return is what was pushed, once and *)
(* in order, across the wrap of both counters; and lf_queue_get_pending never *)
(* reports less than the ring holds.                                          *)
THEOREM LockFreeQueueIsFifo == LockFreeSpec => LfImplementsFifo
<1>1. LockFreeInit => LfqInv /\ LfQueue!Fifo!Init
  <2> SUFFICES ASSUME LfQueue!lf_queue_init PROVE LfqInv /\ LfQueue!Fifo!Init
    BY DEF LockFreeInit
  <2>1. LfqInv
    BY LfqInit
  <2>2. Count = 0
    BY <2>1, CountFacts, RingConstants, DistanceFacts DEF LfQueue!lf_queue_init, Count, Depth
  <2>3. LfQueue!Contents = <<>>
    BY <2>1, <2>2, ContentsIs
  <2> QED BY <2>1, <2>3 DEF LfQueue!lf_queue_init, LfQueue!Fifo!Init
<1>2. LfqInv /\ [LfQueue!Next]_lfqVars => LfqInv'
  BY LfqNext
<1>3. LfqInv /\ LfqInv' /\ [LfQueue!Next]_lfqVars => [LfQueue!Fifo!Next]_(LfQueue!Fifo!vars)
  BY LfFifoNext
<1> QED BY <1>1, <1>2, <1>3, ObserverDepth, PTL
        DEF LockFreeSpec, LfImplementsFifo, LfQueue!LfImplementsFifo, LfQueue!Fifo!Spec

-----------------------------------------------------------------------------
(* The lock-free pool *)

Blocks == 0 .. Capacity - 1
Links == 0 .. Capacity
Takers == {"put_post", "load", "next", "cas"}

(* c is the free list, n blocks long: it begins at the head, follows the     *)
(* headers to the end mark, and visits the blocks that no thread holds, each *)
(* once.                                                                     *)
Chain(c, n) ==
    /\ c \in [1 .. n + 1 -> Links]
    /\ c[1] = lfp_head /\ c[n + 1] = Capacity
    /\ \A i \in 1 .. n : c[i] \in Blocks /\ next_idx[c[i]] = c[i + 1]
    /\ \A i, j \in 1 .. n : c[i] = c[j] => i = j
    /\ \A i \in 1 .. n, t \in LfThread : ptr[t] # c[i]
    /\ \A b \in Blocks : (\E t \in LfThread : ptr[t] = b) \/ (\E i \in 1 .. n : c[i] = b)

LfpTypeOK ==
    /\ next_idx \in [Blocks -> Links] /\ lfp_head \in Links
    /\ lfp_in_use \in Int /\ blocks_sem \in Nat
    /\ lfp_pc \in [LfThread -> {"idle", "put_link", "put_cas"} \cup Takers]
    /\ old_head \in [LfThread -> Links \cup {NULL}]
    /\ current \in [LfThread -> BOOLEAN]
    /\ new_idx \in [LfThread -> Links \cup {NULL}]
    /\ ptr \in [LfThread -> Blocks \cup {NULL}]

(* What thread t has read, and of that what is still so while no exchange    *)
(* has taken place since its load.                                           *)
Loaded(t) ==
    /\ lfp_pc[t] \in Takers => ptr[t] = NULL
    /\ lfp_pc[t] \in {"put_link", "put_cas"} => ptr[t] \in Blocks /\ old_head[t] \in Links
    /\ lfp_pc[t] \in {"next", "cas"} => old_head[t] \in Blocks
    /\ lfp_pc[t] = "cas" => new_idx[t] \in Links
    /\ lfp_pc[t] = "put_cas" => next_idx[ptr[t]] = old_head[t]
    /\ current[t] => old_head[t] = lfp_head
    /\ current[t] /\ lfp_pc[t] = "cas" => new_idx[t] = next_idx[old_head[t]]

LfpInv ==
    /\ LfpTypeOK
    /\ \A t \in LfThread : Loaded(t)
    /\ \A t, u \in LfThread : ptr[t] = ptr[u] /\ ptr[t] # NULL => t = u
    /\ lfp_in_use = Capacity - LfPool!Tokens
    /\ \E c \in [1 .. LfPool!Tokens + 1 -> Links] : Chain(c, LfPool!Tokens)

LEMMA PoolConstants == IsFiniteSet(LfThread) /\ Capacity \in Nat \ {0} /\ NULL \notin Links
BY LockFreeAssumption DEF LockFreeAssumption, Links

LEMMA LfCount == ASSUME NEW S PROVE LfPool!Cardinality(S) = Cardinality(S)
BY DEF LfPool!Cardinality, Cardinality, LfPool!IsFiniteSet, IsFiniteSet

AtTakers == Cardinality({t \in LfThread : lfp_pc[t] \in Takers})

LEMMA TokensIs == LfPool!Tokens = blocks_sem + AtTakers
BY LfCount DEF LfPool!Tokens, LfPool!At, AtTakers, Takers

LEMMA AtType == AtTakers \in Nat
<1>1. IsFiniteSet({t \in LfThread : lfp_pc[t] \in Takers})
  BY PoolConstants, FS_Subset
<1> QED BY <1>1, FS_CardinalityType DEF AtTakers

(* A step of thread t moves t alone. *)
LEMMA TakersMove ==
    ASSUME LfpTypeOK, NEW t \in LfThread, NEW p, lfp_pc' = [lfp_pc EXCEPT ![t] = p]
    PROVE  /\ lfp_pc[t] \in Takers /\ p \in Takers => AtTakers' = AtTakers
           /\ lfp_pc[t] \notin Takers /\ p \notin Takers => AtTakers' = AtTakers
           /\ lfp_pc[t] \notin Takers /\ p \in Takers => AtTakers' = AtTakers + 1
           /\ lfp_pc[t] \in Takers /\ p \notin Takers => AtTakers' = AtTakers - 1
<1> DEFINE A == {u \in LfThread : lfp_pc[u] \in Takers}
           B == {u \in LfThread : lfp_pc'[u] \in Takers}
<1>1. IsFiniteSet(A)
  BY PoolConstants, FS_Subset
<1>2. \A u \in LfThread : lfp_pc'[u] = IF u = t THEN p ELSE lfp_pc[u]
  BY DEF LfpTypeOK
<1>3. AtTakers = Cardinality(A) /\ AtTakers' = Cardinality(B)
  BY DEF AtTakers
<1>4. CASE lfp_pc[t] \in Takers /\ p \in Takers
  <2>1. A = B
    BY <1>2, <1>4
  <2> QED BY <1>3, <1>4, <2>1
<1>5. CASE lfp_pc[t] \notin Takers /\ p \notin Takers
  <2>1. A = B
    BY <1>2, <1>5
  <2> QED BY <1>3, <1>5, <2>1
<1>6. CASE lfp_pc[t] \notin Takers /\ p \in Takers
  <2>1. B = A \cup {t} /\ t \notin A
    BY <1>2, <1>6
  <2>2. Cardinality(B) = Cardinality(A) + 1
    BY <1>1, <2>1, FS_AddElement
  <2> QED BY <1>3, <1>6, <2>2
<1>7. CASE lfp_pc[t] \in Takers /\ p \notin Takers
  <2>1. B = A \ {t} /\ t \in A
    BY <1>2, <1>7
  <2>2. Cardinality(B) = Cardinality(A) - 1
    BY <1>1, <2>1, FS_RemoveElement
  <2> QED BY <1>3, <1>7, <2>2
<1> QED BY <1>4, <1>5, <1>6, <1>7

LEMMA LfpInit == LfPool!lf_pool_init => LfpInv
<1> SUFFICES ASSUME LfPool!lf_pool_init PROVE LfpInv
  OBVIOUS
<1>0. Capacity \in Nat \ {0} /\ NULL \notin Links
  BY PoolConstants
<1>1. /\ next_idx = [i \in Blocks |-> i + 1] /\ lfp_head = 0 /\ lfp_in_use = 0 /\ blocks_sem = Capacity
      /\ lfp_pc = [t \in LfThread |-> "idle"]
      /\ old_head = [t \in LfThread |-> NULL] /\ current = [t \in LfThread |-> FALSE]
      /\ new_idx = [t \in LfThread |-> NULL] /\ ptr = [t \in LfThread |-> NULL]
  BY DEF LfPool!lf_pool_init, LfPool!Index, Blocks
<1>2. LfpTypeOK
  BY <1>0, <1>1 DEF LfpTypeOK, Links, Blocks
<1>3. LfPool!Tokens = Capacity
  <2>1. {t \in LfThread : lfp_pc[t] \in Takers} = {}
    BY <1>1 DEF Takers
  <2>2. AtTakers = 0
    BY <2>1, FS_EmptySet DEF AtTakers
  <2> QED BY <1>0, <1>1, <2>2, TokensIs
<1>4. \A t \in LfThread : Loaded(t)
  BY <1>1 DEF Loaded, Takers
<1>5. \E c \in [1 .. Capacity + 1 -> Links] : Chain(c, Capacity)
  <2> DEFINE c == [i \in 1 .. Capacity + 1 |-> i - 1]
  <2>1. c \in [1 .. Capacity + 1 -> Links]
    BY <1>0 DEF Links
  <2>2. c[1] = 0 /\ c[Capacity + 1] = Capacity /\ \A i \in 1 .. Capacity + 1 : c[i] = i - 1
    BY <1>0
  <2> HIDE DEF c
  <2>3. \A i \in 1 .. Capacity : c[i] \in Blocks /\ next_idx[c[i]] = c[i + 1]
    BY <1>0, <1>1, <2>2 DEF Blocks
  <2>4. \A i, j \in 1 .. Capacity : c[i] = c[j] => i = j
    BY <1>0, <2>2
  <2>5. \A i \in 1 .. Capacity, t \in LfThread : ptr[t] # c[i]
    BY <1>0, <1>1, <2>3 DEF Blocks, Links
  <2>6. ASSUME NEW b \in Blocks PROVE \E i \in 1 .. Capacity : c[i] = b
    <3>1. b + 1 \in 1 .. Capacity /\ c[b + 1] = b
      BY <1>0, <2>2 DEF Blocks
    <3> QED BY <3>1
  <2>7. Chain(c, Capacity)
    BY <1>1, <2>1, <2>2, <2>3, <2>4, <2>5, <2>6 DEF Chain
  <2> QED BY <2>1, <2>7
<1>6. lfp_in_use = Capacity - Capacity
  BY <1>0, <1>1
<1> QED BY <1>1, <1>2, <1>3, <1>4, <1>5, <1>6 DEF LfpInv

LEMMA TokensType == LfpTypeOK => LfPool!Tokens \in Nat
BY TokensIs, AtType DEF LfpTypeOK

(* A thread with a token finds a block. *)
LEMMA TakerFinds ==
    ASSUME LfpInv, NEW t \in LfThread, lfp_pc[t] \in Takers
    PROVE  LfPool!Tokens >= 1 /\ lfp_head \in Blocks
<1>1. AtTakers # 0
  <2> DEFINE A == {u \in LfThread : lfp_pc[u] \in Takers}
  <2>1. IsFiniteSet(A) /\ A # {}
    BY PoolConstants, FS_Subset
  <2>2. Cardinality(A) # 0
    BY <2>1, FS_EmptySet
  <2> QED BY <2>2 DEF AtTakers
<1>2. LfPool!Tokens >= 1 /\ LfPool!Tokens \in Nat
  BY <1>1, AtType, TokensIs, TokensType DEF LfpInv, LfpTypeOK
<1> DEFINE n == LfPool!Tokens
<1>3. PICK c \in [1 .. n + 1 -> Links] : Chain(c, n)
  BY DEF LfpInv
<1> HIDE DEF n
<1>4. 1 \in 1 .. n
  BY <1>2 DEF n
<1>5. c[1] \in Blocks /\ c[1] = lfp_head
  BY <1>3, <1>4 DEF Chain
<1> QED BY <1>2, <1>5

(* A step that leaves the list and the holders of blocks alone. *)
LEMMA QuietStep ==
    ASSUME LfpInv, NEW t \in LfThread, LfpTypeOK', Loaded(t)',
           UNCHANGED <<next_idx, lfp_head, lfp_in_use, ptr>>, LfPool!Tokens' = LfPool!Tokens,
           \A u \in LfThread \ {t} : /\ lfp_pc'[u] = lfp_pc[u] /\ old_head'[u] = old_head[u]
                                     /\ current'[u] = current[u] /\ new_idx'[u] = new_idx[u]
    PROVE  LfpInv'
<1>1. ASSUME NEW u \in LfThread PROVE Loaded(u)'
  <2>1. CASE u = t
    BY <2>1
  <2>2. CASE u # t
    BY <2>2 DEF LfpInv, Loaded
  <2> QED BY <2>1, <2>2
<1>2. (\A u, v \in LfThread : ptr[u] = ptr[v] /\ ptr[u] # NULL => u = v)'
  BY DEF LfpInv
<1>3. lfp_in_use' = Capacity - LfPool!Tokens'
  BY DEF LfpInv
<1> DEFINE n == LfPool!Tokens
<1>4. PICK c \in [1 .. n + 1 -> Links] : Chain(c, n)
  BY DEF LfpInv
<1>5. Chain(c, n)'
  BY <1>4 DEF Chain
<1>6. \E d \in [1 .. LfPool!Tokens' + 1 -> Links] : Chain(d, n)'
  BY <1>5
<1> QED BY <1>1, <1>2, <1>3, <1>6 DEF LfpInv

LEMMA LoadType ==
    ASSUME LfpInv, NEW t \in LfThread, LfPool!Load(t)
    PROVE  /\ old_head' \in [LfThread -> Links \cup {NULL}] /\ old_head'[t] = lfp_head /\ lfp_head \in Links
           /\ current' \in [LfThread -> BOOLEAN]
           /\ \A u \in LfThread \ {t} : old_head'[u] = old_head[u] /\ current'[u] = current[u]
<1>1. old_head' = [old_head EXCEPT ![t] = lfp_head] /\ current' = [current EXCEPT ![t] = TRUE]
  BY DEF LfPool!Load
<1>2. /\ lfp_head \in Links /\ old_head \in [LfThread -> Links \cup {NULL}]
      /\ current \in [LfThread -> BOOLEAN]
  BY DEF LfpInv, LfpTypeOK
<1>3. current' \in [LfThread -> BOOLEAN] /\ \A u \in LfThread \ {t} : current'[u] = current[u]
  BY <1>1, <1>2
<1> QED BY <1>1, <1>2, <1>3

LEMMA MoveType ==
    ASSUME LfpInv, NEW t \in LfThread, NEW p \in {"idle", "put_link", "put_cas"} \cup Takers,
           lfp_pc' = [lfp_pc EXCEPT ![t] = p]
    PROVE  /\ lfp_pc' \in [LfThread -> {"idle", "put_link", "put_cas"} \cup Takers]
           /\ lfp_pc'[t] = p /\ \A u \in LfThread \ {t} : lfp_pc'[u] = lfp_pc[u]
BY DEF LfpInv, LfpTypeOK

LEMMA TakeTokenInv ==
    ASSUME LfpInv, NEW t \in LfThread, LfPool!TakeToken(t) PROVE LfpInv'
<1>1. /\ ptr[t] = NULL /\ blocks_sem > 0 /\ lfp_pc[t] = "idle" /\ lfp_pc' = [lfp_pc EXCEPT ![t] = "load"]
      /\ blocks_sem' = blocks_sem - 1
      /\ UNCHANGED <<next_idx, lfp_head, lfp_in_use, old_head, current, new_idx, ptr>>
  BY DEF LfPool!TakeToken, LfPool!Go
<1>2. /\ lfp_pc' \in [LfThread -> {"idle", "put_link", "put_cas"} \cup Takers]
      /\ lfp_pc'[t] = "load" /\ \A u \in LfThread \ {t} : lfp_pc'[u] = lfp_pc[u]
  BY <1>1, MoveType DEF Takers
<1>3. LfpTypeOK'
  BY <1>1, <1>2 DEF LfpInv, LfpTypeOK
<1>4. AtTakers' = AtTakers + 1
  BY <1>1, TakersMove DEF LfpInv, Takers
<1>5. LfPool!Tokens' = LfPool!Tokens
  <2>1. (LfPool!Tokens = blocks_sem + AtTakers)'
    BY TokensIs, PTL
  <2> QED BY <1>1, <1>4, <2>1, TokensIs, AtType DEF LfpInv, LfpTypeOK
<1>6. Loaded(t)'
  BY <1>1, <1>2 DEF LfpInv, Loaded
<1> QED BY <1>1, <1>2, <1>3, <1>5, <1>6, QuietStep

LEMMA PutPostInv ==
    ASSUME LfpInv, NEW t \in LfThread, LfPool!PutPost(t) PROVE LfpInv'
<1>1. /\ lfp_pc[t] = "put_post" /\ lfp_pc' = [lfp_pc EXCEPT ![t] = "idle"]
      /\ blocks_sem' = blocks_sem + 1
      /\ UNCHANGED <<next_idx, lfp_head, lfp_in_use, old_head, current, new_idx, ptr>>
  BY DEF LfPool!PutPost, LfPool!Go
<1>2. /\ lfp_pc' \in [LfThread -> {"idle", "put_link", "put_cas"} \cup Takers]
      /\ lfp_pc'[t] = "idle" /\ \A u \in LfThread \ {t} : lfp_pc'[u] = lfp_pc[u]
  BY <1>1, MoveType DEF Takers
<1>3. LfpTypeOK'
  BY <1>1, <1>2 DEF LfpInv, LfpTypeOK
<1>4. AtTakers' = AtTakers - 1
  <2>1. lfp_pc[t] \in Takers /\ "idle" \notin Takers /\ LfpTypeOK
    BY <1>1 DEF LfpInv, Takers
  <2> QED BY <1>1, <2>1, TakersMove
<1>5. LfPool!Tokens' = LfPool!Tokens
  <2>1. (LfPool!Tokens = blocks_sem + AtTakers)'
    BY TokensIs, PTL
  <2> QED BY <1>1, <1>4, <2>1, TokensIs, AtType DEF LfpInv, LfpTypeOK
<1>6. Loaded(t)'
  BY <1>1, <1>2 DEF LfpInv, Loaded, Takers
<1> QED BY <1>1, <1>2, <1>3, <1>5, <1>6, QuietStep

(* The head is loaded: by a get, and by a put before or after a failure. *)
LEMMA LoadInv ==
    ASSUME LfpInv, NEW t \in LfThread,
           LfPool!GetLoad(t) \/ LfPool!GetRetry(t) \/ LfPool!lf_pool_put(t) \/ LfPool!PutRetry(t)
    PROVE  LfpInv'
<1>1. PICK p \in {"next", "put_link"} :
          /\ lfp_pc' = [lfp_pc EXCEPT ![t] = p]
          /\ p = "next" => lfp_pc[t] \in {"load", "cas"}
          /\ p = "put_link" => lfp_pc[t] \in {"idle", "put_cas"} /\ (lfp_pc[t] = "idle" => ptr[t] # NULL)
  BY DEF LfPool!GetLoad, LfPool!GetRetry, LfPool!lf_pool_put, LfPool!PutRetry, LfPool!Go
<1>2. /\ LfPool!Load(t) /\ UNCHANGED <<next_idx, lfp_head, lfp_in_use, blocks_sem, ptr>>
      /\ new_idx' = new_idx \/ new_idx' = [new_idx EXCEPT ![t] = NULL]
  BY DEF LfPool!GetLoad, LfPool!GetRetry, LfPool!lf_pool_put, LfPool!PutRetry, LfPool!shared
<1>3. /\ lfp_pc' \in [LfThread -> {"idle", "put_link", "put_cas"} \cup Takers]
      /\ lfp_pc'[t] = p /\ \A u \in LfThread \ {t} : lfp_pc'[u] = lfp_pc[u]
  BY <1>1, MoveType DEF Takers
<1>4. /\ old_head' \in [LfThread -> Links \cup {NULL}] /\ old_head'[t] = lfp_head /\ lfp_head \in Links
      /\ current' \in [LfThread -> BOOLEAN]
      /\ \A u \in LfThread \ {t} : old_head'[u] = old_head[u] /\ current'[u] = current[u]
  BY <1>2, LoadType
<1>5. /\ new_idx' \in [LfThread -> Links \cup {NULL}]
      /\ \A u \in LfThread \ {t} : new_idx'[u] = new_idx[u]
  BY <1>2 DEF LfpInv, LfpTypeOK
<1>6. LfpTypeOK'
  BY <1>2, <1>3, <1>4, <1>5 DEF LfpInv, LfpTypeOK
<1>7. AtTakers' = AtTakers
  BY <1>1, TakersMove DEF LfpInv, Takers
<1>8. LfPool!Tokens' = LfPool!Tokens
  <2>1. (LfPool!Tokens = blocks_sem + AtTakers)'
    BY TokensIs, PTL
  <2> QED BY <1>2, <1>7, <2>1, TokensIs
<1>9. p = "next" => lfp_head \in Blocks
  BY <1>1, TakerFinds DEF Takers
<1>10. ptr[t] \in Blocks \cup {NULL}
  BY DEF LfpInv, LfpTypeOK
<1>11. Loaded(t)'
  BY <1>1, <1>2, <1>3, <1>4, <1>9, <1>10 DEF LfpInv, Loaded, Takers
<1> QED BY <1>2, <1>3, <1>4, <1>5, <1>6, <1>8, <1>11, QuietStep

LEMMA GetNextInv ==
    ASSUME LfpInv, NEW t \in LfThread, LfPool!GetNext(t) PROVE LfpInv'
<1>0. lfp_pc[t] = "next" /\ old_head[t] \in Blocks /\ old_head[t] # Capacity
  <2>1. lfp_pc[t] = "next"
    BY DEF LfPool!GetNext
  <2>2. old_head[t] \in Blocks
    BY <2>1 DEF LfpInv, Loaded
  <2> QED BY <2>1, <2>2, PoolConstants DEF Blocks
<1>1. /\ lfp_pc' = [lfp_pc EXCEPT ![t] = "cas"]
      /\ new_idx' = [new_idx EXCEPT ![t] = next_idx[old_head[t]]]
      /\ UNCHANGED <<next_idx, lfp_head, lfp_in_use, blocks_sem, old_head, current, ptr>>
  BY <1>0 DEF LfPool!GetNext, LfPool!Go, LfPool!UINT32_MAX
<1>2. /\ lfp_pc' \in [LfThread -> {"idle", "put_link", "put_cas"} \cup Takers]
      /\ lfp_pc'[t] = "cas" /\ \A u \in LfThread \ {t} : lfp_pc'[u] = lfp_pc[u]
  BY <1>1, MoveType DEF Takers
<1>3. /\ next_idx[old_head[t]] \in Links /\ new_idx' \in [LfThread -> Links \cup {NULL}]
      /\ new_idx'[t] = next_idx[old_head[t]]
      /\ \A u \in LfThread \ {t} : new_idx'[u] = new_idx[u]
  BY <1>0, <1>1 DEF LfpInv, LfpTypeOK
<1>4. LfpTypeOK'
  BY <1>1, <1>2, <1>3 DEF LfpInv, LfpTypeOK
<1>5. AtTakers' = AtTakers
  BY <1>0, <1>1, TakersMove DEF LfpInv, Takers
<1>6. LfPool!Tokens' = LfPool!Tokens
  <2>1. (LfPool!Tokens = blocks_sem + AtTakers)'
    BY TokensIs, PTL
  <2> QED BY <1>1, <1>5, <2>1, TokensIs
<1>7. Loaded(t)'
  BY <1>0, <1>1, <1>2, <1>3 DEF LfpInv, Loaded, Takers
<1> QED BY <1>1, <1>2, <1>3, <1>4, <1>6, <1>7, QuietStep

(* The header of a block nobody else sees is written. *)
LEMMA PutLinkInv ==
    ASSUME LfpInv, NEW t \in LfThread, LfPool!PutLink(t) PROVE LfpInv'
<1>1. /\ lfp_pc[t] = "put_link" /\ lfp_pc' = [lfp_pc EXCEPT ![t] = "put_cas"]
      /\ next_idx' = [next_idx EXCEPT ![ptr[t]] = old_head[t]]
      /\ UNCHANGED <<lfp_head, lfp_in_use, blocks_sem, old_head, current, new_idx, ptr>>
  BY DEF LfPool!PutLink, LfPool!Go
<1>2. /\ lfp_pc' \in [LfThread -> {"idle", "put_link", "put_cas"} \cup Takers]
      /\ lfp_pc'[t] = "put_cas" /\ \A u \in LfThread \ {t} : lfp_pc'[u] = lfp_pc[u]
  BY <1>1, MoveType DEF Takers
<1>3. ptr[t] \in Blocks /\ old_head[t] \in Links /\ ptr[t] # NULL
  <2>1. ptr[t] \in Blocks /\ old_head[t] \in Links
    BY <1>1 DEF LfpInv, Loaded
  <2> QED BY <2>1, PoolConstants DEF Blocks, Links
<1>4. /\ next_idx' \in [Blocks -> Links] /\ next_idx'[ptr[t]] = old_head[t]
      /\ \A b \in Blocks \ {ptr[t]} : next_idx'[b] = next_idx[b]
  BY <1>1, <1>3 DEF LfpInv, LfpTypeOK
<1>5. LfpTypeOK'
  BY <1>1, <1>2, <1>4 DEF LfpInv, LfpTypeOK
<1>6. LfPool!Tokens' = LfPool!Tokens
  <2>1. lfp_pc[t] \notin Takers /\ "put_cas" \notin Takers /\ LfpTypeOK
    BY <1>1 DEF LfpInv, Takers
  <2>2. AtTakers' = AtTakers
    BY <1>1, <2>1, TakersMove
  <2>3. (LfPool!Tokens = blocks_sem + AtTakers)'
    BY TokensIs, PTL
  <2> QED BY <1>1, <2>2, <2>3, TokensIs
<1> DEFINE n == LfPool!Tokens
<1>7. PICK c \in [1 .. n + 1 -> Links] : Chain(c, n)
  BY DEF LfpInv
<1>8. Chain(c, n)'
  <2>1. \A i \in 1 .. n : c[i] \in Blocks /\ c[i] # ptr[t] /\ next_idx[c[i]] = c[i + 1]
    BY <1>7 DEF Chain
  <2>2. \A i \in 1 .. n : next_idx'[c[i]] = c[i + 1]
    BY <1>4, <2>1
  <2> QED BY <1>1, <1>6, <1>7, <2>2 DEF Chain
<1>9. ASSUME NEW u \in LfThread PROVE Loaded(u)'
  <2>1. CASE u = t
    BY <1>1, <1>2, <1>3, <1>4, <2>1 DEF LfpInv, Loaded, Takers
  <2>2. CASE u # t
    <3>1. Loaded(u) /\ lfp_pc'[u] = lfp_pc[u]
      BY <1>2, <2>2 DEF LfpInv
    <3>2. lfp_pc[u] = "put_cas" => ptr[u] \in Blocks \ {ptr[t]}
      BY <1>3, <2>2, <3>1 DEF LfpInv, Loaded
    <3>3. current[u] /\ lfp_pc[u] = "cas" => old_head[u] \in Blocks \ {ptr[t]}
      <4> SUFFICES ASSUME current[u], lfp_pc[u] = "cas" PROVE old_head[u] \in Blocks \ {ptr[t]}
        OBVIOUS
      <4>1. old_head[u] = lfp_head /\ old_head[u] \in Blocks
        BY <3>1 DEF Loaded
      <4>2. n >= 1 /\ n \in Nat
        BY TakerFinds, TokensType DEF LfpInv, Takers
      <4> HIDE DEF n
      <4>3. 1 \in 1 .. n
        BY <4>2
      <4>4. c[1] = lfp_head /\ c[1] # ptr[t]
        BY <1>7, <4>3 DEF Chain
      <4> QED BY <4>1, <4>4
    <3> QED BY <1>1, <1>4, <3>1, <3>2, <3>3 DEF Loaded
  <2> QED BY <2>1, <2>2
<1>10. (\A u, v \in LfThread : ptr[u] = ptr[v] /\ ptr[u] # NULL => u = v)'
  BY <1>1 DEF LfpInv
<1>11. lfp_in_use' = Capacity - LfPool!Tokens'
  BY <1>1, <1>6 DEF LfpInv
<1>12. \E d \in [1 .. LfPool!Tokens' + 1 -> Links] : Chain(d, n)'
  BY <1>6, <1>8
<1> QED BY <1>5, <1>9, <1>10, <1>11, <1>12 DEF LfpInv

(* After an exchange no other thread's load is current. *)
LEMMA ExchangeLoads ==
    ASSUME LfpInv, NEW t \in LfThread, NEW idx \in Links, LfPool!Exchange(t, idx),
           NEW p \in {"idle", "put_post"}, lfp_pc' = [lfp_pc EXCEPT ![t] = p],
           p = "put_post" => ptr'[t] = NULL,
           \A u \in LfThread \ {t} : ptr'[u] = ptr[u],
           ptr' \in [LfThread -> Blocks \cup {NULL}], lfp_in_use' \in Int, UNCHANGED <<next_idx, blocks_sem>>
    PROVE  /\ current[t] /\ old_head[t] = lfp_head /\ lfp_head' = idx
           /\ LfpTypeOK' /\ \A u \in LfThread : Loaded(u)'
<1>1. /\ current[t] /\ old_head[t] = lfp_head /\ lfp_head' = idx
      /\ old_head' = [old_head EXCEPT ![t] = NULL]
      /\ current' = [u \in LfThread |-> FALSE]
      /\ new_idx' = [new_idx EXCEPT ![t] = NULL]
  BY DEF LfPool!Exchange, LfPool!Unchanged
<1>2. /\ lfp_pc' \in [LfThread -> {"idle", "put_link", "put_cas"} \cup Takers]
      /\ lfp_pc'[t] = p /\ \A u \in LfThread \ {t} : lfp_pc'[u] = lfp_pc[u]
  BY MoveType DEF Takers
<1>3. /\ old_head' \in [LfThread -> Links \cup {NULL}] /\ new_idx' \in [LfThread -> Links \cup {NULL}]
      /\ \A u \in LfThread \ {t} : old_head'[u] = old_head[u] /\ new_idx'[u] = new_idx[u]
      /\ \A u \in LfThread : ~current'[u]
  BY <1>1 DEF LfpInv, LfpTypeOK
<1>4. current' \in [LfThread -> BOOLEAN]
  BY <1>1
<1>5. LfpTypeOK'
  BY <1>1, <1>2, <1>3, <1>4 DEF LfpInv, LfpTypeOK
<1>6. ASSUME NEW u \in LfThread PROVE Loaded(u)'
  <2>1. CASE u = t
    BY <1>2, <1>3, <2>1 DEF Loaded, Takers
  <2>2. CASE u # t
    <3>1. Loaded(u)
      BY DEF LfpInv
    <3>2. /\ lfp_pc'[u] = lfp_pc[u] /\ old_head'[u] = old_head[u] /\ new_idx'[u] = new_idx[u]
          /\ ptr'[u] = ptr[u] /\ ~current'[u] /\ next_idx' = next_idx
      BY <1>2, <1>3, <2>2
    <3> QED BY <3>1, <3>2 DEF Loaded
  <2> QED BY <2>1, <2>2
<1> QED BY <1>1, <1>5, <1>6

LEMMA GetExchangeInv ==
    ASSUME LfpInv, NEW t \in LfThread, LfPool!GetExchange(t) PROVE LfpInv'
<1>0. /\ lfp_pc[t] = "cas" /\ lfp_pc' = [lfp_pc EXCEPT ![t] = "idle"]
      /\ LfPool!Exchange(t, new_idx[t]) /\ ptr' = [ptr EXCEPT ![t] = old_head[t]]
      /\ lfp_in_use' = lfp_in_use + 1 /\ UNCHANGED <<next_idx, blocks_sem>>
  BY DEF LfPool!GetExchange, LfPool!Go
<1>1. /\ new_idx[t] \in Links /\ old_head[t] \in Blocks /\ ptr[t] = NULL
      /\ current[t] => new_idx[t] = next_idx[old_head[t]]
  BY <1>0 DEF LfpInv, Loaded, Takers
<1>2. /\ ptr' \in [LfThread -> Blocks \cup {NULL}] /\ ptr'[t] = old_head[t]
      /\ \A u \in LfThread \ {t} : ptr'[u] = ptr[u]
      /\ lfp_in_use' \in Int
  BY <1>0, <1>1 DEF LfpInv, LfpTypeOK
<1>3. /\ current[t] /\ old_head[t] = lfp_head /\ lfp_head' = new_idx[t]
      /\ LfpTypeOK' /\ \A u \in LfThread : Loaded(u)'
  BY <1>0, <1>1, <1>2, ExchangeLoads
<1>4. lfp_head' = next_idx[lfp_head] /\ ptr'[t] = lfp_head /\ lfp_head \in Blocks
  BY <1>1, <1>2, <1>3
<1> DEFINE n == LfPool!Tokens
<1>5. n \in Nat /\ n >= 1
  BY <1>0, TakerFinds, TokensType DEF LfpInv, Takers
<1>6. LfPool!Tokens' = n - 1
  <2>1. lfp_pc[t] \in Takers /\ "idle" \notin Takers /\ LfpTypeOK
    BY <1>0 DEF LfpInv, Takers
  <2>2. AtTakers' = AtTakers - 1
    BY <1>0, <2>1, TakersMove
  <2>3. (LfPool!Tokens = blocks_sem + AtTakers)'
    BY TokensIs, PTL
  <2> QED BY <1>0, <2>1, <2>2, <2>3, TokensIs, AtType DEF LfpTypeOK
<1>7. PICK c \in [1 .. n + 1 -> Links] : Chain(c, n)
  BY DEF LfpInv
<1>8. lfp_in_use' = Capacity - LfPool!Tokens'
  BY <1>0, <1>5, <1>6, PoolConstants DEF LfpInv
<1> HIDE DEF n
<1>9. /\ c[1] = lfp_head /\ c[n + 1] = Capacity
      /\ \A i \in 1 .. n : c[i] \in Blocks /\ next_idx[c[i]] = c[i + 1]
      /\ \A i, j \in 1 .. n : c[i] = c[j] => i = j
      /\ \A i \in 1 .. n, u \in LfThread : ptr[u] # c[i]
      /\ \A b \in Blocks : (\E u \in LfThread : ptr[u] = b) \/ (\E i \in 1 .. n : c[i] = b)
  BY <1>7 DEF Chain
<1>10. (\A u, v \in LfThread : ptr[u] = ptr[v] /\ ptr[u] # NULL => u = v)'
  <2>1. \A u \in LfThread : ptr[u] # lfp_head
    BY <1>5, <1>9
  <2>2. \A u, v \in LfThread : ptr[u] = ptr[v] /\ ptr[u] # NULL => u = v
    BY DEF LfpInv
  <2> QED BY <1>2, <1>4, <2>1, <2>2
<1>11. PICK d \in [1 .. (n - 1) + 1 -> Links] : \A i \in 1 .. n : d[i] = c[i + 1]
  <2> DEFINE e == [i \in 1 .. n |-> c[i + 1]]
  <2>1. e \in [1 .. (n - 1) + 1 -> Links] /\ \A i \in 1 .. n : e[i] = c[i + 1]
    BY <1>5
  <2> QED BY <2>1
<1>12. d[1] = lfp_head' /\ d[(n - 1) + 1] = Capacity
  BY <1>4, <1>5, <1>9, <1>11
<1>13. \A i \in 1 .. n - 1 : d[i] \in Blocks /\ next_idx[d[i]] = d[i + 1]
  BY <1>5, <1>9, <1>11
<1>14. \A i, j \in 1 .. n - 1 : d[i] = d[j] => i = j
  BY <1>5, <1>9, <1>11
<1>15. ASSUME NEW i \in 1 .. n - 1, NEW u \in LfThread PROVE ptr'[u] # d[i]
  <2>1. i + 1 \in 1 .. n /\ 1 \in 1 .. n /\ i + 1 # 1 /\ d[i] = c[i + 1]
    BY <1>5, <1>11
  <2>2. c[i + 1] # c[1]
    BY <1>9, <2>1
  <2>3. CASE u = t
    BY <1>4, <1>9, <2>1, <2>2, <2>3
  <2>4. CASE u # t
    BY <1>2, <1>9, <2>1, <2>4
  <2> QED BY <2>3, <2>4
<1>16. ASSUME NEW b \in Blocks PROVE (\E u \in LfThread : ptr'[u] = b) \/ (\E i \in 1 .. n - 1 : d[i] = b)
  <2>1. CASE \E u \in LfThread : ptr[u] = b
    <3>1. PICK u \in LfThread : ptr[u] = b
      BY <2>1
    <3>2. b # NULL
      BY PoolConstants DEF Blocks, Links
    <3>3. u # t
      BY <1>1, <3>1, <3>2
    <3> QED BY <1>2, <3>1, <3>3
  <2>2. CASE \E i \in 1 .. n : c[i] = b
    <3>1. PICK i \in 1 .. n : c[i] = b
      BY <2>2
    <3>2. CASE i = 1
      BY <1>4, <1>9, <3>1, <3>2
    <3>3. CASE i # 1
      <4>1. i - 1 \in 1 .. n - 1 /\ d[i - 1] = b
        BY <1>5, <1>11, <3>1, <3>3
      <4> QED BY <4>1
    <3> QED BY <3>2, <3>3
  <2> QED BY <1>9, <2>1, <2>2
<1>17. Chain(d, LfPool!Tokens)'
  BY <1>0, <1>6, <1>11, <1>12, <1>13, <1>14, <1>15, <1>16 DEF Chain
<1>18. (\E e \in [1 .. LfPool!Tokens + 1 -> Links] : Chain(e, LfPool!Tokens))'
  BY <1>6, <1>11, <1>17
<1> QED BY <1>3, <1>8, <1>10, <1>18 DEF LfpInv

LEMMA PutExchangeInv ==
    ASSUME LfpInv, NEW t \in LfThread, LfPool!PutExchange(t) PROVE LfpInv'
<1>0. /\ lfp_pc[t] = "put_cas" /\ lfp_pc' = [lfp_pc EXCEPT ![t] = "put_post"]
      /\ LfPool!Exchange(t, ptr[t]) /\ ptr' = [ptr EXCEPT ![t] = NULL]
      /\ lfp_in_use' = lfp_in_use - 1 /\ UNCHANGED <<next_idx, blocks_sem>>
  BY DEF LfPool!PutExchange, LfPool!Go
<1> DEFINE b0 == ptr[t]
<1>1. b0 \in Blocks /\ next_idx[b0] = old_head[t]
  BY <1>0 DEF LfpInv, Loaded
<1>2. /\ ptr' \in [LfThread -> Blocks \cup {NULL}] /\ ptr'[t] = NULL
      /\ \A u \in LfThread \ {t} : ptr'[u] = ptr[u]
      /\ lfp_in_use' \in Int
  BY <1>0 DEF LfpInv, LfpTypeOK
<1>3. b0 \in Links /\ b0 # NULL
  BY <1>1, PoolConstants DEF Blocks, Links
<1>4. /\ old_head[t] = lfp_head /\ lfp_head' = b0
      /\ LfpTypeOK' /\ \A u \in LfThread : Loaded(u)'
  BY <1>0, <1>2, <1>3, ExchangeLoads
<1> DEFINE n == LfPool!Tokens
<1>5. n \in Nat
  BY TokensType DEF LfpInv
<1>6. LfPool!Tokens' = n + 1
  <2>1. lfp_pc[t] \notin Takers /\ "put_post" \in Takers /\ LfpTypeOK
    BY <1>0 DEF LfpInv, Takers
  <2>2. AtTakers' = AtTakers + 1
    BY <1>0, <2>1, TakersMove
  <2>3. (LfPool!Tokens = blocks_sem + AtTakers)'
    BY TokensIs, PTL
  <2> QED BY <1>0, <2>1, <2>2, <2>3, TokensIs, AtType DEF LfpTypeOK
<1>7. PICK c \in [1 .. n + 1 -> Links] : Chain(c, n)
  BY DEF LfpInv
<1>8. lfp_in_use' = Capacity - LfPool!Tokens'
  BY <1>0, <1>5, <1>6, PoolConstants DEF LfpInv
<1> HIDE DEF n
<1>9. /\ c[1] = lfp_head /\ c[n + 1] = Capacity
      /\ \A i \in 1 .. n : c[i] \in Blocks /\ next_idx[c[i]] = c[i + 1]
      /\ \A i, j \in 1 .. n : c[i] = c[j] => i = j
      /\ \A i \in 1 .. n, u \in LfThread : ptr[u] # c[i]
      /\ \A b \in Blocks : (\E u \in LfThread : ptr[u] = b) \/ (\E i \in 1 .. n : c[i] = b)
  BY <1>7 DEF Chain
<1>10. \A u, v \in LfThread : ptr[u] = ptr[v] /\ ptr[u] # NULL => u = v
  BY DEF LfpInv
<1>11. (\A u, v \in LfThread : ptr[u] = ptr[v] /\ ptr[u] # NULL => u = v)'
  BY <1>2, <1>10
<1>12. PICK d \in [1 .. (n + 1) + 1 -> Links] : d[1] = b0 /\ \A i \in 1 .. n + 1 : d[i + 1] = c[i]
  <2> DEFINE e == [i \in 1 .. n + 2 |-> IF i = 1 THEN b0 ELSE c[i - 1]]
  <2>1. e \in [1 .. (n + 1) + 1 -> Links] /\ e[1] = b0 /\ \A i \in 1 .. n + 1 : e[i + 1] = c[i]
    BY <1>3, <1>5
  <2> QED BY <2>1
<1>13. \A i \in 1 .. n + 1 : i # 1 => i - 1 \in 1 .. n /\ d[i] = c[i - 1]
  BY <1>5, <1>12
<1>14. d[(n + 1) + 1] = Capacity
  BY <1>5, <1>9, <1>12
<1>15. ASSUME NEW i \in 1 .. n + 1 PROVE d[i] \in Blocks /\ next_idx[d[i]] = d[i + 1]
  <2>1. CASE i = 1
    BY <1>1, <1>4, <1>5, <1>9, <1>12, <2>1
  <2>2. CASE i # 1
    <3>1. i - 1 \in 1 .. n /\ d[i] = c[i - 1] /\ d[i + 1] = c[i] /\ (i - 1) + 1 = i
      BY <1>5, <1>12, <1>13, <2>2
    <3> QED BY <1>9, <3>1
  <2> QED BY <2>1, <2>2
<1>16. \A i, j \in 1 .. n + 1 : d[i] = d[j] => i = j
  <2>1. \A i \in 1 .. n + 1 : i # 1 => d[i] # b0
    BY <1>9, <1>13
  <2>2. \A i, j \in 1 .. n + 1 : i # 1 /\ j # 1 /\ d[i] = d[j] => i - 1 = j - 1
    BY <1>9, <1>13
  <2> QED BY <1>5, <1>12, <2>1, <2>2
<1>17. ASSUME NEW i \in 1 .. n + 1, NEW u \in LfThread PROVE ptr'[u] # d[i]
  <2>1. CASE u = t
    <3>1. d[i] # NULL
      BY <1>15, PoolConstants DEF Blocks, Links
    <3> QED BY <1>2, <2>1, <3>1
  <2>2. CASE u # t
    <3>1. CASE i = 1
      BY <1>2, <1>3, <1>10, <1>12, <2>2, <3>1
    <3>2. CASE i # 1
      BY <1>2, <1>9, <1>13, <2>2, <3>2
    <3> QED BY <3>1, <3>2
  <2> QED BY <2>1, <2>2
<1>18. ASSUME NEW b \in Blocks PROVE (\E u \in LfThread : ptr'[u] = b) \/ (\E i \in 1 .. n + 1 : d[i] = b)
  <2>1. CASE \E u \in LfThread : ptr[u] = b
    <3>1. PICK u \in LfThread : ptr[u] = b
      BY <2>1
    <3>2. CASE u = t
      <4>1. 1 \in 1 .. n + 1 /\ d[1] = b
        BY <1>5, <1>12, <3>1, <3>2
      <4> QED BY <4>1
    <3>3. CASE u # t
      BY <1>2, <3>1, <3>3
    <3> QED BY <3>2, <3>3
  <2>2. CASE \E i \in 1 .. n : c[i] = b
    <3>1. PICK i \in 1 .. n : c[i] = b
      BY <2>2
    <3>2. i + 1 \in 1 .. n + 1 /\ d[i + 1] = b
      BY <1>5, <1>12, <3>1
    <3> QED BY <3>2
  <2> QED BY <1>9, <2>1, <2>2
<1>19. Chain(d, LfPool!Tokens)'
  BY <1>0, <1>4, <1>6, <1>12, <1>14, <1>15, <1>16, <1>17, <1>18 DEF Chain
<1>20. (\E e \in [1 .. LfPool!Tokens + 1 -> Links] : Chain(e, LfPool!Tokens))'
  BY <1>6, <1>12, <1>19
<1> QED BY <1>4, <1>8, <1>11, <1>20 DEF LfpInv

LEMMA LfpNext == LfpInv /\ [LfPool!Next]_lfpVars => LfpInv'
<1> SUFFICES ASSUME LfpInv, [LfPool!Next]_lfpVars PROVE LfpInv'
  OBVIOUS
<1>1. ASSUME NEW t \in LfThread, LfPool!Call(t) PROVE LfpInv'
  BY <1>1, TakeTokenInv, LoadInv DEF LfPool!Call
<1>2. ASSUME NEW t \in LfThread, LfPool!Step(t) PROVE LfpInv'
  BY <1>2, LoadInv, GetNextInv, GetExchangeInv, PutLinkInv, PutExchangeInv, PutPostInv DEF LfPool!Step
<1>3. CASE UNCHANGED lfpVars
  <2>1. UNCHANGED <<next_idx, lfp_head, lfp_in_use, blocks_sem, lfp_pc, old_head, current, new_idx, ptr>>
    BY <1>3 DEF lfpVars
  <2>2. LfPool!Tokens' = LfPool!Tokens
    BY <2>1 DEF LfPool!Tokens, LfPool!At
  <2>3. LfpTypeOK'
    BY <2>1 DEF LfpInv, LfpTypeOK
  <2>4. \A t \in LfThread : Loaded(t)'
    BY <2>1 DEF LfpInv, Loaded
  <2>5. PICK c \in [1 .. LfPool!Tokens + 1 -> Links] : Chain(c, LfPool!Tokens)
    BY DEF LfpInv
  <2>6. Chain(c, LfPool!Tokens)'
    BY <2>1, <2>2, <2>5 DEF Chain
  <2>7. (\E d \in [1 .. LfPool!Tokens + 1 -> Links] : Chain(d, LfPool!Tokens))'
    BY <2>2, <2>6
  <2> QED BY <2>1, <2>2, <2>3, <2>4, <2>7 DEF LfpInv
<1> QED BY <1>1, <1>2, <1>3 DEF LfPool!Next

(* The body of FreeList's recursion. *)
Follow(f) ==
    [k \in Links |->
        IF k = 0 THEN lfp_head
        ELSE IF f[k - 1] \in Blocks THEN next_idx[f[k - 1]] ELSE Capacity]

(* A function that follows the headers is FreeList, or FreeList another one. *)
LEMMA FreeListFollows ==
    ASSUME NEW g, g = Follow(g)
    PROVE  LfPool!FreeList = Follow(LfPool!FreeList)
BY DEF LfPool!FreeList, Follow, LfPool!Index, LfPool!UINT32_MAX, Links, Blocks

LEMMA LeastIndex ==
    ASSUME NEW T, T \subseteq Nat, T # {}
    PROVE  \E m \in T : \A k \in T : m <= k
<1> DEFINE R == OpToRel(<, Nat)
<1>1. IsWellFoundedOn(R, Nat) /\ \A x, y \in Nat : <<y, x>> \in R <=> y < x
  BY NatLessThanWellFounded DEF OpToRel
<1> HIDE DEF R
<1>2. PICK x \in T : \A y \in T : ~(<<y, x>> \in R)
  BY <1>1, WFMin
<1>3. x \in Nat /\ \A k \in T : k \in Nat /\ ~(k < x)
  BY <1>1, <1>2
<1>4. \A k \in T : x <= k
  BY <1>3
<1> QED BY <1>4

(* A chain has as many blocks as its length says. *)
LEMMA ChainCounts ==
    ASSUME NEW n \in Nat, NEW c \in [1 .. n + 1 -> Links],
           \A i \in 1 .. n : c[i] \in Blocks,
           \A i, j \in 1 .. n : c[i] = c[j] => i = j
    PROVE  Cardinality({c[i] : i \in 1 .. n}) = n /\ n <= Capacity
<1> DEFINE S == {c[i] : i \in 1 .. n}
           f == [i \in 1 .. n |-> c[i]]
<1>1. f \in [1 .. n -> S] /\ (\A i, j \in 1 .. n : f[i] = f[j] => i = j)
      /\ \A x \in S : \E i \in 1 .. n : f[i] = x
  OBVIOUS
<1>2. ExistsBijection(1 .. n, S)
  BY <1>1 DEF ExistsBijection, Bijection, Injection, Surjection, IsInjective
<1>3. Cardinality(S) = n
  BY <1>2, FS_CountingElements
<1>4. IsFiniteSet(Blocks) /\ Cardinality(Blocks) = Capacity
  BY PoolConstants, FS_Interval DEF Blocks
<1>5. S \in SUBSET Blocks
  OBVIOUS
<1>6. Cardinality(S) <= Cardinality(Blocks)
  BY <1>4, <1>5, FS_Subset
<1> QED BY <1>3, <1>4, <1>6

(* FreeList walks the chain and stays at its end. *)
LEMMA FreeListIs ==
    ASSUME NEW n \in Nat, n <= Capacity, NEW c \in [1 .. n + 1 -> Links], Chain(c, n)
    PROVE  \A k \in Links : LfPool!FreeList[k] = IF k <= n THEN c[k + 1] ELSE Capacity
<1>0. Capacity \in Nat \ {0}
  BY PoolConstants
<1>1. /\ c[1] = lfp_head /\ c[n + 1] = Capacity
      /\ \A i \in 1 .. n : c[i] \in Blocks /\ next_idx[c[i]] = c[i + 1]
  BY DEF Chain
<1> DEFINE g == [k \in Links |-> IF k <= n THEN c[k + 1] ELSE Capacity]
           h == LfPool!FreeList
           After(f, k) == IF f[k - 1] \in Blocks THEN next_idx[f[k - 1]] ELSE Capacity
<1>2. \A k \in Links : g[k] = IF k <= n THEN c[k + 1] ELSE Capacity
  OBVIOUS
<1>3. \A k \in Links : k \in Nat /\ (k # 0 => k - 1 \in Links /\ k >= 1)
  BY <1>0 DEF Links
<1>4. Capacity \notin Blocks
  BY <1>0 DEF Blocks
<1>5. ASSUME NEW k \in Links PROVE g[k] = IF k = 0 THEN lfp_head ELSE After(g, k)
  <2>1. CASE k = 0
    BY <1>1, <1>2, <2>1
  <2>2. CASE k # 0 /\ k <= n
    <3>1. k - 1 \in Links /\ k \in 1 .. n /\ k - 1 <= n /\ (k - 1) + 1 = k
      BY <1>3, <2>2
    <3>2. g[k - 1] = c[k] /\ g[k] = c[k + 1]
      BY <1>2, <2>2, <3>1
    <3> HIDE DEF g
    <3> QED BY <1>1, <2>2, <3>1, <3>2
  <2>3. CASE k > n
    <3>1. k - 1 \in Links /\ k # 0 /\ g[k] = Capacity /\ (k - 1 <= n => k = n + 1)
      BY <1>2, <1>3, <2>3
    <3>2. g[k - 1] = Capacity
      <4>1. CASE k = n + 1
        <5>1. k - 1 = n /\ k - 1 <= n /\ (k - 1) + 1 = n + 1
          BY <4>1
        <5> QED BY <1>1, <1>2, <3>1, <5>1
      <4>2. CASE k # n + 1
        BY <1>2, <3>1, <4>2
      <4> QED BY <4>1, <4>2
    <3> HIDE DEF g
    <3> QED BY <1>4, <3>1, <3>2
  <2> QED BY <1>3, <2>1, <2>2, <2>3
<1>6. g = [k \in Links |-> g[k]]
  OBVIOUS
<1> HIDE DEF g
<1>7. g = Follow(g)
  BY <1>5, <1>6 DEF Follow
<1>8. h = Follow(h)
  BY <1>7, FreeListFollows
<1> HIDE DEF h
<1>9. \A k \in Links : h[k] = IF k = 0 THEN lfp_head ELSE After(h, k)
  BY <1>8 DEF Follow
<1>10. \A k \in Links : h[k] = g[k]
  <2> SUFFICES ASSUME NEW k \in Links, h[k] # g[k] PROVE FALSE
    OBVIOUS
  <2> DEFINE T == {i \in Links : h[i] # g[i]}
  <2>1. T \subseteq Nat /\ T # {}
    BY <1>3
  <2>2. PICK m \in T : \A i \in T : m <= i
    BY <2>1, LeastIndex
  <2>3. m # 0 /\ m \in Links
    BY <1>5, <1>9
  <2>4. m - 1 \in Links /\ ~(m <= m - 1)
    BY <1>3, <2>3
  <2>5. h[m - 1] = g[m - 1]
    BY <2>2, <2>4
  <2> QED BY <1>5, <1>9, <2>3, <2>5
<1> QED BY <1>2, <1>10 DEF h

LEMMA LfpSound == LfpInv => LfPool!FreeListSound
<1> SUFFICES ASSUME LfpInv PROVE LfPool!FreeListSound
  OBVIOUS
<1> DEFINE n == LfPool!Tokens
<1>0. n \in Nat /\ Capacity \in Nat \ {0} /\ NULL \notin Links /\ lfp_in_use = Capacity - n
  BY TokensType, PoolConstants DEF LfpInv
<1>1. PICK c \in [1 .. n + 1 -> Links] : Chain(c, n)
  BY DEF LfpInv
<1> HIDE DEF n
<1> DEFINE S == {c[i] : i \in 1 .. n}
<1>2. /\ \A i \in 1 .. n : c[i] \in Blocks
      /\ \A i, j \in 1 .. n : c[i] = c[j] => i = j
      /\ c[n + 1] = Capacity
      /\ \A i \in 1 .. n, u \in LfThread : ptr[u] # c[i]
      /\ \A b \in Blocks : (\E u \in LfThread : ptr[u] = b) \/ (\E i \in 1 .. n : c[i] = b)
  BY <1>1 DEF Chain
<1>3. Cardinality(S) = n /\ n <= Capacity
  BY <1>0, <1>2, ChainCounts
<1>4. \A k \in Links : LfPool!FreeList[k] = IF k <= n THEN c[k + 1] ELSE Capacity
  BY <1>0, <1>1, <1>3, FreeListIs
<1>5. LfPool!Free = S
  <2>1. LfPool!Free = {LfPool!FreeList[k] : k \in 0 .. Capacity - 1} \ {Capacity}
    BY DEF LfPool!Free, LfPool!UINT32_MAX
  <2>2. \A k \in 0 .. Capacity - 1 : k \in Links /\ k \in Nat
    BY <1>0 DEF Links
  <2>3. ASSUME NEW x \in S PROVE x \in LfPool!Free
    <3>1. PICK i \in 1 .. n : x = c[i]
      OBVIOUS
    <3>2. i - 1 \in 0 .. Capacity - 1 /\ i - 1 <= n /\ (i - 1) + 1 = i
      BY <1>0, <1>3
    <3>3. LfPool!FreeList[i - 1] = x
      BY <1>4, <2>2, <3>1, <3>2
    <3>4. x # Capacity
      BY <1>0, <1>2, <3>1 DEF Blocks
    <3> QED BY <2>1, <3>2, <3>3, <3>4
  <2>4. ASSUME NEW x \in LfPool!Free PROVE x \in S
    <3>1. PICK k \in 0 .. Capacity - 1 : x = LfPool!FreeList[k]
      BY <2>1
    <3>2. x # Capacity /\ x = IF k <= n THEN c[k + 1] ELSE Capacity
      BY <1>4, <2>1, <2>2, <3>1
    <3>3. k <= n /\ k # n /\ x = c[k + 1]
      BY <1>2, <3>2
    <3>4. k + 1 \in 1 .. n
      BY <1>0, <3>3
    <3> QED BY <3>3, <3>4
  <2> QED BY <2>3, <2>4
<1>6. LfPool!FreeList[n] = Capacity
  <2>1. n \in Links /\ n <= n
    BY <1>0, <1>3 DEF Links
  <2> QED BY <1>2, <1>4, <2>1
<1>7. ASSUME NEW b \in Blocks
      PROVE  Cardinality({t \in LfThread : ptr[t] = b}) = IF b \in S THEN 0 ELSE 1
  <2>1. CASE b \in S
    <3>1. {t \in LfThread : ptr[t] = b} = {}
      BY <1>2, <2>1
    <3> QED BY <2>1, <3>1, FS_EmptySet
  <2>2. CASE b \notin S
    <3>1. PICK t \in LfThread : ptr[t] = b
      BY <1>2, <2>2
    <3>2. b # NULL
      BY <1>0 DEF Blocks, Links
    <3>3. {u \in LfThread : ptr[u] = b} = {t}
      BY <3>1, <3>2 DEF LfpInv
    <3> QED BY <2>2, <3>3, FS_Singleton
  <2> QED BY <2>1, <2>2
<1> HIDE DEF S
<1> QED BY <1>0, <1>3, <1>5, <1>6, <1>7, LfCount
        DEF LfPool!FreeListSound, LfPool!Index, LfPool!UINT32_MAX, Blocks, n

(* lf_pool.h's free list, for every number of threads and blocks: however the *)
(* compare-and-exchange loops of gets and puts interleave, it holds exactly   *)
(* the blocks nobody has, each once and as many as there are tokens, so no    *)
(* block is handed out twice or lost, and a get with a token never finds the  *)
(* list empty.                                                                *)
THEOREM LockFreeListSound == LockFreeSpec => []FreeListSound
<1>1. LockFreeInit => LfpInv
  BY LfpInit DEF LockFreeInit
<1>2. LfpInv => FreeListSound
  BY LfpSound DEF FreeListSound
<1> QED BY <1>1, <1>2, LfpNext, PTL DEF LockFreeSpec
=============================================================================
