------------------------------- MODULE LfQueue -------------------------------
(***************************************************************************)
(* The lock-free queue of common/inc/lf_queue.h: a ring for one producer   *)
(* and one consumer.  tail and head only count up, and are reduced to a    *)
(* slot by the mask; a semaphore counts the items.                         *)
(*                                                                         *)
(* Each access to a shared counter is a step; the slot it hands over is    *)
(* accessed with it.  A third thread may ask for the depth.  size_t has    *)
(* Wrap values here and goes round.  Bound: the queue does not move on by  *)
(* half of them while that thread is between its two loads.                *)
(***************************************************************************)
EXTENDS Integers, Sequences

CONSTANTS
    Size,       \* q->capacity, a power of two
    Wrap,       \* the values of size_t, a multiple of Size
    Item,       \* the pointers pushed
    NULL

VARIABLES
    ring,       \* q->ptr
    tail, head, items_sem,
    ppc, arg,   \* the producer: where it is, and what it pushes
    cpc, entry, \* the consumer: where it is, and what it read last
    opc, ohead  \* the observer: where it is, and the head it loaded

producerVars == <<ppc, arg>>
consumerVars == <<cpc, entry>>
observerVars == <<opc, ohead>>
vars == <<ring, tail, head, items_sem, producerVars, consumerVars, observerVars>>

Slot == 0 .. Size - 1
Distance(from, to) == (to - from) % Wrap

lf_queue_init ==
    /\ ring = [i \in Slot |-> NULL]
    /\ tail = 0 /\ head = 0 /\ items_sem = 0
    /\ ppc = "idle" /\ arg = NULL
    /\ cpc = "idle" /\ entry = NULL
    /\ opc = "idle" /\ ohead = 0

-----------------------------------------------------------------------------
(* The producer *)

lf_queue_try_push(x) ==
    /\ ppc = "idle" /\ ppc' = "try"
    /\ arg' = x
    /\ UNCHANGED <<ring, tail, head, items_sem, consumerVars, observerVars>>

lf_queue_wait_push(x) ==
    /\ ppc = "idle" /\ ppc' = "wait"
    /\ arg' = x
    /\ UNCHANGED <<ring, tail, head, items_sem, consumerVars, observerVars>>

(* Mutant: one item more than there are slots. *)
IsFull_more ==
    Distance(head, tail) > Size

IsFull ==
    Distance(head, tail) >= Size

(* The head is loaded and leaves room, and the pointer is stored.  Without   *)
(* room lf_queue_wait_push loads the head again.                             *)
PushStore ==
    /\ ppc \in {"try", "wait"} /\ ppc' = "publish"
    /\ ~IsFull
    /\ ring' = [ring EXCEPT ![tail % Size] = arg]
    /\ UNCHANGED <<tail, head, items_sem, arg, consumerVars, observerVars>>

(* EAGAIN: the caller keeps its pointer. *)
PushFull ==
    /\ ppc = "try" /\ ppc' = "idle"
    /\ IsFull
    /\ arg' = NULL
    /\ UNCHANGED <<ring, tail, head, items_sem, consumerVars, observerVars>>

(* The release of tail. *)
PushPublish ==
    /\ ppc = "publish" /\ ppc' = "post"
    /\ opc = "tail" => Distance(ohead, tail) < Wrap \div 2 - 1
    /\ tail' = (tail + 1) % Wrap
    /\ UNCHANGED <<ring, head, items_sem, arg, consumerVars, observerVars>>

PushPost ==
    /\ ppc = "post" /\ ppc' = "idle"
    /\ items_sem' = items_sem + 1
    /\ arg' = NULL
    /\ UNCHANGED <<ring, tail, head, consumerVars, observerVars>>

-----------------------------------------------------------------------------
(* The consumer *)

(* sem_wait, in a call that sleeps; a signal only makes it sleep again. *)
lf_queue_wait_pop ==
    /\ cpc = "idle" /\ cpc' = "wait"
    /\ UNCHANGED <<ring, tail, head, items_sem, producerVars, entry, observerVars>>

PopToken ==
    /\ cpc = "wait" /\ cpc' = "take"
    /\ items_sem > 0
    /\ items_sem' = items_sem - 1
    /\ UNCHANGED <<ring, tail, head, producerVars, entry, observerVars>>

(* sem_trywait; without an item lf_queue_try_pop returns NULL. *)
lf_queue_try_pop ==
    /\ cpc = "idle" /\ cpc' = "take"
    /\ items_sem > 0
    /\ items_sem' = items_sem - 1
    /\ UNCHANGED <<ring, tail, head, producerVars, entry, observerVars>>

(* The pointer is taken and its slot cleared. *)
PopTake ==
    /\ cpc = "take" /\ cpc' = "release"
    /\ entry' = ring[head % Size]
    /\ ring' = [ring EXCEPT ![head % Size] = NULL]
    /\ UNCHANGED <<tail, head, items_sem, producerVars, observerVars>>

(* The release of head, and the return. *)
PopRelease ==
    /\ cpc = "release" /\ cpc' = "idle"
    /\ head' = (head + 1) % Wrap
    /\ UNCHANGED <<ring, tail, items_sem, producerVars, entry, observerVars>>

-----------------------------------------------------------------------------
(* The observer *)

lf_queue_get_pending ==
    /\ opc = "idle" /\ opc' = "tail"
    /\ ohead' = head
    /\ UNCHANGED <<ring, tail, head, items_sem, producerVars, consumerVars>>

(* What the observer would return now: (ssize_t)(current_tail - current_head). *)
Pending ==
    LET d == Distance(ohead, tail) IN IF d < Wrap \div 2 THEN d ELSE d - Wrap

PendingTail ==
    /\ opc = "tail" /\ opc' = "idle"
    /\ ohead' = 0
    /\ UNCHANGED <<ring, tail, head, items_sem, producerVars, consumerVars>>

-----------------------------------------------------------------------------

(* What a thread inside a call does next. *)
Step ==
    \/ PushStore \/ PushFull \/ PushPublish \/ PushPost
    \/ PopToken \/ PopTake \/ PopRelease
    \/ PendingTail

Next ==
    \/ \E x \in Item : lf_queue_try_push(x) \/ lf_queue_wait_push(x)
    \/ lf_queue_try_pop \/ lf_queue_wait_pop
    \/ lf_queue_get_pending
    \/ Step

-----------------------------------------------------------------------------
(* Properties *)

(* The items nobody has taken, in their order. *)
Contents ==
    LET first == IF cpc = "release" THEN head + 1 ELSE head
    IN  [i \in 1 .. Distance(first, tail) |-> ring[(first + i - 1) % Size]]

Fifo ==
    INSTANCE BoundedFifo WITH
        Thread <- {"producer", "consumer"},
        Item <- Item \cup {NULL},
        q <- Contents,
        arg <- [t \in {"producer", "consumer"} |-> IF t = "producer" THEN arg ELSE NULL],
        got <- [t \in {"producer", "consumer"} |-> IF t = "consumer" THEN entry ELSE NULL]

(* The ring without a lock is a bounded FIFO too: pointers come out in the    *)
(* order of their publication, none lost or doubled, also when the counters   *)
(* go round; "once woken up, we are GUARANTEED an item is available".         *)
LfImplementsFifo == Fifo!Spec

(* lf_queue_get_pending loads head before tail: what it returns is never      *)
(* negative, whatever is pushed and popped between the loads, and never less  *)
(* than the items that are in the ring when it returns.                       *)
DepthNotBelow == opc = "tail" => Pending >= Distance(head, tail)
=============================================================================
