---------------------------- MODULE QueueProofs ----------------------------
(***************************************************************************)
(* Proofs about Queue and QueueWin: for any number of threads, slots and   *)
(* items, permits and ring agree, and either build of the queue implements *)
(* the bounded FIFO.                                                       *)
(***************************************************************************)
EXTENDS QueueWin, FiniteSetTheorems, SequenceTheorems, TLAPS

USE QueueAssumption DEF QueueAssumption

(* The inductive invariant: the permits, and the tail as the slot after the *)
(* items.                                                                   *)
RingInv == tail = (head + pending) % Size

QInv == QueueTypeOK /\ PermitsAccounted /\ RingInv

(* A slot index that has gone past the end of the ring comes back once. *)
LEMMA Wrap ==
    ASSUME NEW a \in 0 .. 2 * Size - 1
    PROVE  a % Size = IF a < Size THEN a ELSE a - Size
<1>1. CASE a < Size
  BY <1>1
<1>2. CASE a >= Size
  BY <1>2
<1> QED BY <1>1, <1>2

(* The threads at a place of the code are counted by a natural number. *)
LEMMA CountType ==
    ASSUME NEW place
    PROVE  Cardinality(At(place)) \in Nat /\ IsFiniteSet(At(place))
<1>1. At(place) \subseteq Thread
  BY DEF At
<1>2. IsFiniteSet(At(place))
  BY <1>1, FS_Subset
<1> QED BY <1>2, FS_CardinalityType

(* A thread that goes from one place to another is counted out and in. *)
LEMMA CountMoves ==
    ASSUME QueueTypeOK, NEW t \in Thread, NEW from, NEW to, from # to, Go(t, from, to)
    PROVE  /\ Cardinality(At(from)') = Cardinality(At(from)) - 1
           /\ Cardinality(At(from)) > 0
           /\ Cardinality(At(to)') = Cardinality(At(to)) + 1
           /\ \A p : p # from /\ p # to => Cardinality(At(p)') = Cardinality(At(p))
<1>1. pc[t] = from /\ pc'[t] = to /\ \A u \in Thread : u # t => pc'[u] = pc[u]
  BY DEF Go, QueueTypeOK
<1>2. At(from)' = At(from) \ {t} /\ t \in At(from)
  BY <1>1 DEF At
<1>3. At(to)' = At(to) \cup {t} /\ t \notin At(to)
  BY <1>1 DEF At
<1>4. Cardinality(At(from)') = Cardinality(At(from)) - 1
  BY <1>2, CountType, FS_RemoveElement, ZenonT(60)
<1>5. Cardinality(At(to)') = Cardinality(At(to)) + 1
  BY <1>3, CountType, FS_AddElement
<1>6. Cardinality(At(from)) > 0
  BY <1>2, CountType, FS_EmptySet
<1>7. \A p : p # from /\ p # to => At(p)' = At(p)
  BY <1>1 DEF At
<1> QED BY <1>4, <1>5, <1>6, <1>7

-----------------------------------------------------------------------------

(* queue_init has all slots as free permits. *)
LEMMA QueueInit == queue_init => QInv
<1> SUFFICES ASSUME queue_init PROVE QInv
  OBVIOUS
<1>1. QueueTypeOK
  BY DEF queue_init, QueueTypeOK, Slot
<1>2. \A p \in {"push_lock", "push_post", "pop_lock", "pop_post"} : At(p) = {}
  BY DEF queue_init, At
<1>3. PermitsAccounted
  BY <1>2, FS_EmptySet DEF PermitsAccounted, queue_init
<1>4. RingInv
  BY Wrap DEF RingInv, queue_init
<1> QED BY <1>1, <1>3, <1>4 DEF QInv

(* The counts before a step are natural numbers. *)
Counted ==
    \A p \in {"push_lock", "push_post", "pop_lock", "pop_post"} : Cardinality(At(p)) \in Nat

LEMMA Counts == Counted
BY CountType DEF Counted

(* A call begins, waits or is interrupted: nothing is counted. *)
LEMMA WaitsInv ==
    ASSUME QInv, NEW t \in Thread, NEW from \in {"idle", "push_wait", "pop_wait"},
           NEW to \in {"idle", "push_wait", "pop_wait"}, from # to, Go(t, from, to),
           arg' \in [Thread -> Item], UNCHANGED <<ringVars, semVars, entry>>
    PROVE  QInv'
<1>1. \A p \in {"push_lock", "push_post", "pop_lock", "pop_post"} :
          Cardinality(At(p)') = Cardinality(At(p))
  BY CountMoves DEF QInv
<1>2. QueueTypeOK'
  BY DEF QInv, QueueTypeOK, Go, ringVars, semVars
<1>3. PermitsAccounted'
  BY <1>1 DEF QInv, PermitsAccounted, ringVars, semVars
<1> QED BY <1>2, <1>3 DEF QInv, RingInv, ringVars

(* A thread takes a slot permit, in queue_wait_push or queue_try_push. *)
LEMMA PushPermitInv ==
    ASSUME QInv, NEW t \in Thread, NEW from \in {"idle", "push_wait"}, Go(t, from, "push_lock"),
           push_semaphore > 0, push_semaphore' = push_semaphore - 1,
           arg' \in [Thread -> Item], UNCHANGED <<ringVars, pop_semaphore, entry>>
    PROVE  QInv'
<1>1. /\ Cardinality(At("push_lock")') = Cardinality(At("push_lock")) + 1
      /\ \A p \in {"push_post", "pop_lock", "pop_post"} : Cardinality(At(p)') = Cardinality(At(p))
  BY CountMoves DEF QInv
<1>2. QueueTypeOK'
  <2>1. push_semaphore' \in 0 .. Size
    BY DEF QInv, QueueTypeOK
  <2> QED BY <2>1 DEF QInv, QueueTypeOK, Go, ringVars
<1>3. PermitsAccounted'
  BY <1>1, Counts DEF Counted, QInv, QueueTypeOK, PermitsAccounted, ringVars
<1> QED BY <1>2, <1>3 DEF QInv, RingInv, ringVars

(* PushStore finds a free slot, because its thread holds a permit. *)
LEMMA PushStoreInv ==
    ASSUME QInv, NEW t \in Thread, PushStore(t)
    PROVE  QInv' /\ pending < Size
<1>0. head \in Nat /\ tail \in Nat /\ pending \in Nat
  BY DEF QInv, QueueTypeOK, Slot
<1>1. /\ Cardinality(At("push_lock")') = Cardinality(At("push_lock")) - 1
      /\ Cardinality(At("push_lock")) > 0
      /\ Cardinality(At("push_post")') = Cardinality(At("push_post")) + 1
      /\ \A p \in {"pop_lock", "pop_post"} : Cardinality(At(p)') = Cardinality(At(p))
  BY CountMoves DEF QInv, PushStore
<1>2. pending < Size
  BY <1>1, Counts DEF Counted, QInv, QueueTypeOK, PermitsAccounted
<1>3. tail + 1 \in 0 .. 2 * Size - 1 /\ (tail + 1) % Size \in Slot
  BY Wrap DEF QInv, QueueTypeOK, Slot
<1>4. QueueTypeOK'
  BY <1>2, <1>3 DEF QInv, QueueTypeOK, PushStore, Go, semVars
<1>5. PermitsAccounted'
  BY <1>1, Counts DEF Counted, QInv, QueueTypeOK, PermitsAccounted, PushStore, semVars
<1>6. head + pending \in 0 .. 2 * Size - 1 /\ head + pending + 1 \in 0 .. 2 * Size - 1
  BY <1>2 DEF QInv, QueueTypeOK, Slot
<1>7. RingInv'
  <2>0. (head + pending) % Size
          = IF head + pending < Size THEN head + pending ELSE head + pending - Size
    BY <1>0, <1>6, Wrap
  <2>1. tail = (head + pending) % Size
    BY DEF QInv, RingInv
  <2>2. (tail + 1) % Size = IF tail + 1 < Size THEN tail + 1 ELSE tail + 1 - Size
    BY <1>0, <1>3, Wrap
  <2>3. (head + pending + 1) % Size
          = IF head + pending + 1 < Size THEN head + pending + 1 ELSE head + pending + 1 - Size
    BY <1>0, <1>6, Wrap
  <2>4. head' = head /\ pending' = pending + 1 /\ tail' = (tail + 1) % Size
    BY DEF PushStore
  <2>5. head \in Nat /\ pending \in Nat /\ head < Size
    BY DEF QInv, QueueTypeOK, Slot
  <2>6. (tail + 1) % Size = (head + pending + 1) % Size
    BY <1>2, <2>0, <2>1, <2>2, <2>3, <2>5
  <2> QED BY <2>4, <2>5, <2>6 DEF RingInv
<1> QED BY <1>2, <1>4, <1>5, <1>7 DEF QInv

LEMMA PushPostInv ==
    ASSUME QInv, NEW t \in Thread, PushPost(t)
    PROVE  QInv'
<1>1. /\ Cardinality(At("push_post")') = Cardinality(At("push_post")) - 1
      /\ Cardinality(At("push_post")) > 0
      /\ \A p \in {"push_lock", "pop_lock", "pop_post"} : Cardinality(At(p)') = Cardinality(At(p))
  BY CountMoves DEF QInv, PushPost
<1>2. pop_semaphore + 1 \in 0 .. Size
  BY <1>1, Counts DEF Counted, QInv, QueueTypeOK, PermitsAccounted
<1>3. QueueTypeOK'
  BY <1>2 DEF QInv, QueueTypeOK, PushPost, Go, ringVars
<1>4. PermitsAccounted'
  BY <1>1, Counts DEF Counted, QInv, QueueTypeOK, PermitsAccounted, PushPost, ringVars
<1> QED BY <1>3, <1>4 DEF QInv, RingInv, PushPost, ringVars

(* A thread takes an item permit, in queue_wait_pop or queue_try_pop. *)
LEMMA PopPermitInv ==
    ASSUME QInv, NEW t \in Thread, NEW from \in {"idle", "pop_wait"}, Go(t, from, "pop_lock"),
           pop_semaphore > 0, pop_semaphore' = pop_semaphore - 1,
           UNCHANGED <<ringVars, push_semaphore, arg, entry>>
    PROVE  QInv'
<1>1. /\ Cardinality(At("pop_lock")') = Cardinality(At("pop_lock")) + 1
      /\ \A p \in {"push_lock", "push_post", "pop_post"} : Cardinality(At(p)') = Cardinality(At(p))
  BY CountMoves DEF QInv
<1>2. QueueTypeOK'
  BY DEF QInv, QueueTypeOK, Go, ringVars
<1>3. PermitsAccounted'
  BY <1>1, Counts DEF Counted, QInv, QueueTypeOK, PermitsAccounted, ringVars
<1> QED BY <1>2, <1>3 DEF QInv, RingInv, ringVars

(* PopTake finds an item, because its thread holds a permit. *)
LEMMA PopTakeInv ==
    ASSUME QInv, NEW t \in Thread, PopTake(t)
    PROVE  QInv' /\ pending > 0
<1>0. head \in Nat /\ tail \in Nat /\ pending \in Nat
  BY DEF QInv, QueueTypeOK, Slot
<1>1. /\ Cardinality(At("pop_lock")') = Cardinality(At("pop_lock")) - 1
      /\ Cardinality(At("pop_lock")) > 0
      /\ Cardinality(At("pop_post")') = Cardinality(At("pop_post")) + 1
      /\ \A p \in {"push_lock", "push_post"} : Cardinality(At(p)') = Cardinality(At(p))
  BY CountMoves DEF QInv, PopTake
<1>2. pending > 0
  BY <1>1, Counts DEF Counted, QInv, QueueTypeOK, PermitsAccounted
<1>3. head + 1 \in 0 .. 2 * Size - 1 /\ (head + 1) % Size \in Slot
  BY Wrap DEF QInv, QueueTypeOK, Slot
<1>4. QueueTypeOK'
  BY <1>2, <1>3 DEF QInv, QueueTypeOK, PopTake, Go, semVars
<1>5. PermitsAccounted'
  BY <1>1, Counts DEF Counted, QInv, QueueTypeOK, PermitsAccounted, PopTake, semVars
<1>6. head + pending \in 0 .. 2 * Size - 1
  BY DEF QInv, QueueTypeOK, Slot
<1>7. RingInv'
  <2>0. (head + pending) % Size
          = IF head + pending < Size THEN head + pending ELSE head + pending - Size
    BY <1>0, <1>6, Wrap
  <2>1. tail = (head + pending) % Size
    BY DEF QInv, RingInv
  <2>2. PICK h \in Nat : h = (head + 1) % Size
    BY <1>3 DEF Slot
  <2>3. h = IF head + 1 < Size THEN head + 1 ELSE head + 1 - Size
    BY <1>0, <1>3, <2>2, Wrap
  <2>4. head < Size /\ pending <= Size
    BY DEF QInv, QueueTypeOK, Slot
  <2>5. (h + (pending - 1)) % Size
          = IF h + (pending - 1) < Size THEN h + (pending - 1) ELSE h + (pending - 1) - Size
    <3>1. h + (pending - 1) \in 0 .. 2 * Size - 1
      BY <1>0, <1>2, <2>3, <2>4
    <3> QED BY <1>0, <3>1, Wrap
  <2>6. tail' = tail /\ pending' = pending - 1 /\ head' = h
    BY <2>2 DEF PopTake
  <2>7. tail = (h + (pending - 1)) % Size
    BY <1>0, <1>2, <2>0, <2>1, <2>3, <2>4, <2>5
  <2> QED BY <2>6, <2>7 DEF RingInv
<1> QED BY <1>2, <1>4, <1>5, <1>7 DEF QInv

LEMMA PopPostInv ==
    ASSUME QInv, NEW t \in Thread, PopPost(t)
    PROVE  QInv'
<1>1. /\ Cardinality(At("pop_post")') = Cardinality(At("pop_post")) - 1
      /\ Cardinality(At("pop_post")) > 0
      /\ \A p \in {"push_lock", "pop_lock", "push_post"} : Cardinality(At(p)') = Cardinality(At(p))
  BY CountMoves DEF QInv, PopPost
<1>2. push_semaphore + 1 \in 0 .. Size
  BY <1>1, Counts DEF Counted, QInv, QueueTypeOK, PermitsAccounted
<1>3. QueueTypeOK'
  BY <1>2 DEF QInv, QueueTypeOK, PopPost, Go, ringVars
<1>4. PermitsAccounted'
  BY <1>1, Counts DEF Counted, QInv, QueueTypeOK, PermitsAccounted, PopPost, ringVars
<1> QED BY <1>3, <1>4 DEF QInv, RingInv, PopPost, ringVars

(* Every step of every thread keeps the invariant. *)
LEMMA NextQInv == QInv /\ [Next]_vars => QInv'
<1> SUFFICES ASSUME QInv, [Next]_vars PROVE QInv'
  OBVIOUS
<1>1. CASE UNCHANGED vars
  BY <1>1 DEF vars, ringVars, semVars, QInv, QueueTypeOK, PermitsAccounted, At, RingInv
<1>2. ASSUME NEW t \in Thread, Call(t) PROVE QInv'
  <2>1. ASSUME NEW x \in Item, queue_wait_push(t, x) PROVE QInv'
    <3>1. arg' \in [Thread -> Item]
      BY <2>1 DEF queue_wait_push, QInv, QueueTypeOK
    <3> QED BY <2>1, <3>1, WaitsInv DEF queue_wait_push
  <2>2. ASSUME NEW x \in Item, queue_try_push(t, x) PROVE QInv'
    <3>1. arg' \in [Thread -> Item]
      BY <2>2 DEF queue_try_push, QInv, QueueTypeOK
    <3> QED BY <2>2, <3>1, PushPermitInv DEF queue_try_push
  <2>3. CASE queue_wait_pop(t)
    <3>1. arg' \in [Thread -> Item]
      BY <2>3 DEF queue_wait_pop, QInv, QueueTypeOK
    <3> QED BY <2>3, <3>1, WaitsInv DEF queue_wait_pop
  <2>4. CASE queue_try_pop(t)
    BY <2>4, PopPermitInv DEF queue_try_pop
  <2> QED BY <1>2, <2>1, <2>2, <2>3, <2>4 DEF Call
<1>3. ASSUME NEW t \in Thread, Step(t) PROVE QInv'
  <2>1. CASE PushPermit(t)
    <3>1. arg' \in [Thread -> Item]
      BY <2>1 DEF PushPermit, QInv, QueueTypeOK
    <3> QED BY <2>1, <3>1, PushPermitInv DEF PushPermit
  <2>2. CASE PopPermit(t)
    BY <2>2, PopPermitInv DEF PopPermit
  <2> QED BY <1>3, <2>1, <2>2, PushStoreInv, PushPostInv, PopTakeInv, PopPostInv DEF Step
<1>4. ASSUME NEW t \in Thread, Interrupted(t) PROVE QInv'
  <2>1. arg' \in [Thread -> Item]
    BY <1>4 DEF Interrupted, QInv, QueueTypeOK
  <2> QED BY <1>4, <2>1, WaitsInv DEF Interrupted
<1> QED BY <1>1, <1>2, <1>3, <1>4 DEF Next

LEMMA QueueInvariant == Spec => []QInv
BY QueueInit, NextQInv, PTL DEF Spec

(* The ring indices and the semaphores stay in range for every size of the  *)
(* ring and every set of threads.                                           *)
THEOREM QueueTypes == Spec => []QueueTypeOK
<1>1. QInv => QueueTypeOK
  BY DEF QInv
<1> QED BY <1>1, QueueInvariant, PTL

(* Permits, items and threads between permit and post always add up, so no  *)
(* push of queue.h overwrites an item and no pop takes from an empty ring.  *)
THEOREM PermitsAlwaysAccounted == Spec => []PermitsAccounted
<1>1. QInv => PermitsAccounted
  BY DEF QInv
<1> QED BY <1>1, QueueInvariant, PTL

-----------------------------------------------------------------------------

(* The contents are a sequence of pending items. *)
LEMMA ContentsSeq ==
    ASSUME QInv
    PROVE  /\ Contents \in Seq(Item)
           /\ Len(Contents) = pending
           /\ \A i \in 1 .. pending : Contents[i] = ptr[(head + i - 1) % Size]
<1>0. head \in Nat /\ pending \in Nat /\ head < Size /\ pending <= Size
  BY DEF QInv, QueueTypeOK, Slot
<1>1. \A i \in 1 .. pending : (head + i - 1) % Size \in Slot
  BY <1>0, Wrap DEF Slot
<1>2. \A i \in 1 .. pending : ptr[(head + i - 1) % Size] \in Item
  BY <1>1 DEF QInv, QueueTypeOK
<1>3. Contents \in [1 .. pending -> Item]
  BY <1>2 DEF Contents
<1>4. Contents \in Seq(Item) /\ Len(Contents) = pending
  BY <1>0, <1>3
<1> QED BY <1>4 DEF Contents

(* PushStore appends to the contents. *)
LEMMA StoreAppends ==
    ASSUME QInv, NEW t \in Thread, PushStore(t)
    PROVE  Contents' = Append(Contents, arg[t]) /\ Len(Contents) < Size
<1>0. head \in Nat /\ tail \in Nat /\ pending \in Nat /\ head < Size /\ pending < Size
  BY PushStoreInv DEF QInv, QueueTypeOK, Slot
<1>1. pending' = pending + 1 /\ head' = head /\ ptr' = [ptr EXCEPT ![tail] = arg[t]]
      /\ tail = (head + pending) % Size
  BY DEF PushStore, QInv, RingInv
<1>2. \A i \in 1 .. pending :
          /\ (head + i - 1) % Size \in Slot
          /\ (head + i - 1) % Size # tail
  <2> SUFFICES ASSUME NEW i \in 1 .. pending
               PROVE  (head + i - 1) % Size \in Slot /\ (head + i - 1) % Size # tail
    OBVIOUS
  <2>1. (head + pending) % Size
          = IF head + pending < Size THEN head + pending ELSE head + pending - Size
    BY <1>0, Wrap
  <2>2. (head + i - 1) % Size
          = IF head + i - 1 < Size THEN head + i - 1 ELSE head + i - 1 - Size
    BY <1>0, Wrap
  <2> QED BY <1>0, <1>1, <2>1, <2>2 DEF Slot
<1>3. \A i \in 1 .. pending : ptr'[(head + i - 1) % Size] = ptr[(head + i - 1) % Size]
  BY <1>1, <1>2 DEF QInv, QueueTypeOK
<1>4. ptr'[(head + (pending + 1) - 1) % Size] = arg[t]
  <2>1. head + (pending + 1) - 1 = head + pending
    BY <1>0
  <2> QED BY <1>1, <2>1 DEF QInv, QueueTypeOK
<1>5. Contents' = [i \in 1 .. pending + 1 |-> ptr'[(head + i - 1) % Size]]
  BY <1>1 DEF Contents
<1>6. /\ Len(Contents) = pending
      /\ Append(Contents, arg[t])
           = [i \in 1 .. pending + 1 |-> IF i = pending + 1 THEN arg[t] ELSE Contents[i]]
  BY <1>0 DEF Contents
<1>7. \A i \in 1 .. pending + 1 :
          ptr'[(head + i - 1) % Size] = IF i = pending + 1 THEN arg[t] ELSE Contents[i]
  <2> SUFFICES ASSUME NEW i \in 1 .. pending + 1
               PROVE  ptr'[(head + i - 1) % Size] = IF i = pending + 1 THEN arg[t] ELSE Contents[i]
    OBVIOUS
  <2>1. CASE i = pending + 1
    BY <1>4, <2>1
  <2>2. CASE i # pending + 1
    <3>1. i \in 1 .. pending
      BY <1>0, <2>2
    <3> QED BY <1>3, <2>2, <3>1, ContentsSeq
  <2> QED BY <2>1, <2>2
<1> QED BY <1>0, <1>5, <1>6, <1>7

(* PopTake takes the first item of the contents. *)
LEMMA TakeRemovesFirst ==
    ASSUME QInv, NEW t \in Thread, PopTake(t)
    PROVE  /\ Contents # <<>>
           /\ ptr[head] = Head(Contents)
           /\ Contents' = Tail(Contents)
<1>0. head \in Nat /\ pending \in Nat \ {0} /\ head < Size /\ pending <= Size
  BY PopTakeInv DEF QInv, QueueTypeOK, Slot
<1>1. pending' = pending - 1 /\ head' = (head + 1) % Size /\ ptr' = [ptr EXCEPT ![head] = NULL]
  BY DEF PopTake
<1>2. PICK h \in Nat : h = (head + 1) % Size
  BY <1>0
<1>3. h = IF head + 1 < Size THEN head + 1 ELSE head + 1 - Size
  BY <1>0, <1>2, Wrap
<1>4. \A i \in 1 .. pending - 1 :
          /\ (h + i - 1) % Size = (head + (i + 1) - 1) % Size
          /\ (h + i - 1) % Size \in Slot
          /\ (h + i - 1) % Size # head
  <2> SUFFICES ASSUME NEW i \in 1 .. pending - 1
               PROVE  /\ (h + i - 1) % Size = (head + (i + 1) - 1) % Size
                      /\ (h + i - 1) % Size \in Slot
                      /\ (h + i - 1) % Size # head
    OBVIOUS
  <2>1. (h + i - 1) % Size = IF h + i - 1 < Size THEN h + i - 1 ELSE h + i - 1 - Size
    BY <1>0, <1>3, Wrap
  <2>2. (head + (i + 1) - 1) % Size
          = IF head + (i + 1) - 1 < Size THEN head + (i + 1) - 1 ELSE head + (i + 1) - 1 - Size
    BY <1>0, Wrap
  <2> QED BY <1>0, <1>3, <2>1, <2>2 DEF Slot
<1>5. Contents' = [i \in 1 .. pending - 1 |-> ptr'[(h + i - 1) % Size]]
  BY <1>1, <1>2 DEF Contents
<1>6. ASSUME NEW i \in 1 .. pending - 1
      PROVE  ptr'[(h + i - 1) % Size] = Contents[i + 1]
  <2>1. ptr'[(h + i - 1) % Size] = ptr[(h + i - 1) % Size]
    BY <1>1, <1>4 DEF QInv, QueueTypeOK
  <2>2. i + 1 \in 1 .. pending
    BY <1>0
  <2>3. Contents[i + 1] = ptr[(head + (i + 1) - 1) % Size]
    BY <2>2, ContentsSeq
  <2> QED BY <1>4, <2>1, <2>3
<1>7. Contents \in Seq(Item) /\ Len(Contents) = pending /\ Contents # <<>>
  BY <1>0, ContentsSeq
<1>8. Tail(Contents) = [i \in 1 .. pending - 1 |-> Contents[i + 1]]
  <2>1. /\ Tail(Contents) \in Seq(Item)
        /\ Len(Tail(Contents)) = pending - 1
        /\ \A i \in 1 .. pending - 1 : Tail(Contents)[i] = Contents[i + 1]
    BY <1>0, <1>7, HeadTailProperties
  <2>2. DOMAIN Tail(Contents) = 1 .. pending - 1
    BY <1>0, <2>1
  <2>3. Tail(Contents) = [i \in DOMAIN Tail(Contents) |-> Tail(Contents)[i]]
    <3>1. \A s \in Seq(Item) : s = [i \in DOMAIN s |-> s[i]]
      OBVIOUS
    <3> QED BY <2>1, <3>1, Zenon
  <2> QED BY <2>1, <2>2, <2>3
<1>9. Contents[1] = ptr[head]
  <2>1. (head + 1 - 1) % Size = head
    BY <1>0, Wrap
  <2> QED BY <1>0, <2>1, ContentsSeq
<1>10. Contents' = Tail(Contents)
  BY <1>5, <1>6, <1>8
<1> QED BY <1>7, <1>9, <1>10

(* Every step of the queue is a step of the FIFO, or leaves it unchanged. *)
LEMMA FifoNext == QInv /\ [Next]_vars => [Fifo!Next]_(Fifo!vars)
<1> SUFFICES ASSUME QInv, [Next]_vars PROVE [Fifo!Next]_(Fifo!vars)
  OBVIOUS
<1>1. ASSUME UNCHANGED <<ringVars, arg, entry>> PROVE UNCHANGED Fifo!vars
  BY <1>1 DEF Fifo!vars, Contents, ringVars
<1>2. ASSUME NEW t \in Thread, NEW x \in Item, arg' = [arg EXCEPT ![t] = x],
             UNCHANGED <<ringVars, entry>>
      PROVE  Fifo!Next
  BY <1>2 DEF Fifo!Next, Fifo!Offer, Contents, ringVars
<1>3. ASSUME NEW t \in Thread, PushStore(t) PROVE Fifo!Next
  <2>1. Fifo!Put(t)
    BY <1>3, StoreAppends DEF Fifo!Put, PushStore
  <2> QED BY <2>1 DEF Fifo!Next
<1>4. ASSUME NEW t \in Thread, PopTake(t) PROVE Fifo!Next
  <2>1. Fifo!Take(t)
    BY <1>4, TakeRemovesFirst DEF Fifo!Take, PopTake
  <2> QED BY <2>1 DEF Fifo!Next
<1>5. ASSUME NEW t \in Thread, Call(t) PROVE [Fifo!Next]_(Fifo!vars)
  BY <1>1, <1>2, <1>5 DEF Call, queue_wait_push, queue_try_push, queue_wait_pop, queue_try_pop
<1>6. ASSUME NEW t \in Thread, Step(t) PROVE [Fifo!Next]_(Fifo!vars)
  BY <1>1, <1>3, <1>4, <1>6 DEF Step, PushPermit, PushPost, PopPermit, PopPost
<1>7. ASSUME NEW t \in Thread, Interrupted(t) PROVE UNCHANGED Fifo!vars
  BY <1>1, <1>7 DEF Interrupted
<1>8. CASE UNCHANGED vars
  BY <1>1, <1>8 DEF vars
<1> QED BY <1>5, <1>6, <1>7, <1>8 DEF Next

(* An initialised queue is an empty FIFO. *)
LEMMA FifoInit == queue_init => Fifo!Init
<1> SUFFICES ASSUME queue_init PROVE Fifo!Init
  OBVIOUS
<1>1. Contents = <<>>
  BY DEF queue_init, Contents
<1> QED BY <1>1 DEF queue_init, Fifo!Init

(* queue.h calls its queue a "Thread-safe bounded FIFO queue"; it is one, for *)
(* every number of producers, consumers and slots.                            *)
THEOREM QueueIsFifo == Spec => ImplementsFifo
BY FifoInit, QueueInvariant, FifoNext, PTL DEF Spec, ImplementsFifo, Fifo!Spec

-----------------------------------------------------------------------------
(* Both builds *)

(* A thread about to post holds one of the Size permits, so the semaphore it *)
(* posts is below the maximum.                                               *)
LEMMA RoomToRelease ==
    ASSUME QInv, NEW t \in Thread
    PROVE  /\ pc[t] = "push_post" => pop_semaphore < Size
           /\ pc[t] = "pop_post" => push_semaphore < Size
<1>1. ASSUME NEW p, pc[t] = p PROVE Cardinality(At(p)) > 0
  <2>1. t \in At(p)
    BY <1>1 DEF At
  <2> QED BY <2>1, CountType, FS_EmptySet
<1>2. CASE pc[t] = "push_post"
  <2>1. Cardinality(At("push_post")) > 0
    BY <1>1, <1>2
  <2> QED BY <1>2, <2>1, Counts DEF Counted, QInv, QueueTypeOK, PermitsAccounted
<1>3. CASE pc[t] = "pop_post"
  <2>1. Cardinality(At("pop_post")) > 0
    BY <1>1, <1>3
  <2> QED BY <1>3, <2>1, Counts DEF Counted, QInv, QueueTypeOK, PermitsAccounted
<1> QED BY <1>2, <1>3

(* Every step of either build is a step of Queue, and no release fails. *)
LEMMA BuildStep ==
    ASSUME QInv, BuildNext
    PROVE  Next /\ UNCHANGED fatal
<1>1. PICK t \in Thread :
        \/ PosixStep(t)
        \/ build = "posix" /\ (Call(t) \/ Interrupted(t)) /\ UNCHANGED <<build, fatal>>
        \/ WinStep(t)
        \/ build = "windows" /\ ~fatal /\ WinCall(t) /\ UNCHANGED <<build, fatal>>
  BY DEF BuildNext
<1>2. CASE PosixStep(t)
  BY <1>2 DEF PosixStep, Next
<1>3. CASE build = "posix" /\ (Call(t) \/ Interrupted(t)) /\ UNCHANGED <<build, fatal>>
  BY <1>3 DEF Next
<1>4. CASE WinStep(t)
  <2>1. WinPush(t) => Step(t) /\ UNCHANGED fatal
    BY RoomToRelease DEF WinPush, Release, Step
  <2>2. WinPop(t) => Step(t) /\ UNCHANGED fatal
    BY RoomToRelease DEF WinPop, Release, Step
  <2> QED BY <1>4, <2>1, <2>2 DEF WinStep, Next
<1>5. CASE build = "windows" /\ ~fatal /\ WinCall(t) /\ UNCHANGED <<build, fatal>>
  <2>1. Call(t)
    BY <1>5 DEF WinCall, Call, win_queue_wait_push, win_queue_try_push
  <2> QED BY <1>5, <2>1 DEF Next
<1> QED BY <1>1, <1>2, <1>3, <1>4, <1>5

(* The invariant of the two builds: that of Queue, and no release failed. *)
BuildInv == QInv /\ fatal = FALSE

LEMMA BuildInvariant == BuildSpec => []BuildInv
<1>1. BuildInit => BuildInv
  BY QueueInit DEF BuildInit, win_queue_init, BuildInv
<1>2. BuildInv /\ [BuildNext]_buildVars => BuildInv'
  <2> SUFFICES ASSUME BuildInv, [BuildNext]_buildVars PROVE BuildInv'
    OBVIOUS
  <2>1. [Next]_vars /\ UNCHANGED fatal
    BY BuildStep DEF BuildInv, buildVars
  <2> QED BY <2>1, NextQInv DEF BuildInv
<1> QED BY <1>1, <1>2, PTL DEF BuildSpec

(* In either build permits, items and threads between permit and post always *)
(* add up: no push overwrites an item and no pop takes from an empty ring.   *)
THEOREM PermitsAccountedInBoth == BuildSpec => []PermitsAccounted
<1>1. BuildInv => PermitsAccounted
  BY DEF BuildInv, QInv
<1> QED BY <1>1, BuildInvariant, PTL

(* No ReleaseSemaphore of the Windows build is made on a semaphore at its    *)
(* maximum, so the FATAL that follows a failed one is not reached.           *)
THEOREM ReleasesNeverFail == BuildSpec => [](fatal = FALSE)
<1>1. BuildInv => fatal = FALSE
  BY DEF BuildInv
<1> QED BY <1>1, BuildInvariant, PTL

(* Either build of queue.h is a bounded FIFO: refusing NULL, waits without   *)
(* interruption and bounded semaphores take nothing from it.                 *)
THEOREM BothAreFifo == BuildSpec => ImplementsFifo
<1>1. BuildInit => Fifo!Init
  BY FifoInit DEF BuildInit, win_queue_init
<1>2. BuildInv /\ [BuildNext]_buildVars => [Fifo!Next]_(Fifo!vars)
  <2> SUFFICES ASSUME BuildInv, [BuildNext]_buildVars PROVE [Fifo!Next]_(Fifo!vars)
    OBVIOUS
  <2>1. [Next]_vars
    BY BuildStep DEF BuildInv, buildVars
  <2> QED BY <2>1, FifoNext DEF BuildInv
<1> QED BY <1>1, <1>2, BuildInvariant, PTL DEF BuildSpec, ImplementsFifo, Fifo!Spec
=============================================================================
