------------------------------- MODULE Queue -------------------------------
(***************************************************************************)
(* The bounded queue of common/inc/queue.h (POSIX build): a ring buffer    *)
(* under a mutex, with one semaphore for free slots and one for items.     *)
(*                                                                         *)
(* A call is three steps of its thread: take a permit from a semaphore,    *)
(* change the ring inside the mutex, post the other semaphore.  Threads    *)
(* interleave between them.  The queue stores any pointer; NULL, which the *)
(* engines push to end the receiving thread, is an item like the others.   *)
(***************************************************************************)
EXTENDS Integers, Sequences, FiniteSets

CONSTANTS
    Size,       \* q->size
    Producer,   \* the threads that push
    Consumer,   \* the threads that pop
    Item,       \* the pointers pushed
    NULL        \* the null pointer, one of the items

Thread == Producer \cup Consumer

ASSUME QueueAssumption ==
    /\ Size \in Nat \ {0}
    /\ IsFiniteSet(Thread)
    /\ NULL \in Item

VARIABLES
    ptr, head, tail, pending,           \* the ring
    push_semaphore, pop_semaphore,      \* free slots, items
    pc,                                 \* pc[t]: where thread t is in its call
    arg,                                \* arg[t]: the pointer t is pushing
    entry                               \* entry[t]: the pointer t popped last

ringVars == <<ptr, head, tail, pending>>
semVars == <<push_semaphore, pop_semaphore>>
vars == <<ringVars, semVars, pc, arg, entry>>

-----------------------------------------------------------------------------

Slot == 0 .. Size - 1

(* Type invariant of the queue. *)
QueueTypeOK ==
    /\ ptr \in [Slot -> Item]
    /\ head \in Slot
    /\ tail \in Slot
    /\ pending \in 0 .. Size
    /\ push_semaphore \in 0 .. Size
    /\ pop_semaphore \in 0 .. Size
    /\ pc \in [Thread -> {"idle", "push_wait", "push_lock", "push_post",
                          "pop_wait", "pop_lock", "pop_post"}]
    /\ arg \in [Thread -> Item]
    /\ entry \in [Thread -> Item]

queue_init ==
    /\ ptr = [i \in Slot |-> NULL]
    /\ head = 0
    /\ tail = 0
    /\ pending = 0
    /\ push_semaphore = Size
    /\ pop_semaphore = 0
    /\ pc = [t \in Thread |-> "idle"]
    /\ arg = [t \in Thread |-> NULL]
    /\ entry = [t \in Thread |-> NULL]

Go(t, from, to) ==
    /\ pc[t] = from
    /\ pc' = [pc EXCEPT ![t] = to]

-----------------------------------------------------------------------------
(* push *)

queue_wait_push(t, x) ==
    /\ Go(t, "idle", "push_wait")
    /\ arg' = [arg EXCEPT ![t] = x]
    /\ UNCHANGED <<ringVars, semVars, entry>>

PushPermit(t) ==
    /\ push_semaphore > 0
    /\ Go(t, "push_wait", "push_lock")
    /\ push_semaphore' = push_semaphore - 1
    /\ UNCHANGED <<ringVars, pop_semaphore, arg, entry>>

(* Without a permit queue_try_push returns -1 and changes nothing. *)
queue_try_push(t, x) ==
    /\ push_semaphore > 0
    /\ Go(t, "idle", "push_lock")
    /\ arg' = [arg EXCEPT ![t] = x]
    /\ push_semaphore' = push_semaphore - 1
    /\ UNCHANGED <<ringVars, pop_semaphore, entry>>

(* Mutant: the tail does not go round. *)
PushStore_same(t) ==
    /\ Go(t, "push_lock", "push_post")
    /\ ptr' = [ptr EXCEPT ![tail] = arg[t]]
    /\ pending' = pending + 1
    /\ UNCHANGED <<head, tail, semVars, arg, entry>>

(* Inside the mutex: the pointer is stored at the tail. *)
PushStore(t) ==
    /\ Go(t, "push_lock", "push_post")
    /\ ptr' = [ptr EXCEPT ![tail] = arg[t]]
    /\ tail' = (tail + 1) % Size
    /\ pending' = pending + 1
    /\ UNCHANGED <<head, semVars, arg, entry>>

PushPost(t) ==
    /\ Go(t, "push_post", "idle")
    /\ pop_semaphore' = pop_semaphore + 1
    /\ UNCHANGED <<ringVars, push_semaphore, arg, entry>>

-----------------------------------------------------------------------------
(* pop *)

queue_wait_pop(t) ==
    /\ Go(t, "idle", "pop_wait")
    /\ UNCHANGED <<ringVars, semVars, arg, entry>>

(* Mutant: the slot is reported free before the item was taken out. *)
PopPermit_early(t) ==
    /\ pop_semaphore > 0
    /\ Go(t, "pop_wait", "pop_lock")
    /\ pop_semaphore' = pop_semaphore - 1
    /\ push_semaphore' = push_semaphore + 1
    /\ UNCHANGED <<ringVars, arg, entry>>

PopPermit(t) ==
    /\ pop_semaphore > 0
    /\ Go(t, "pop_wait", "pop_lock")
    /\ pop_semaphore' = pop_semaphore - 1
    /\ UNCHANGED <<ringVars, push_semaphore, arg, entry>>

(* Without a permit queue_try_pop returns NULL and changes nothing. *)
queue_try_pop(t) ==
    /\ pop_semaphore > 0
    /\ Go(t, "idle", "pop_lock")
    /\ pop_semaphore' = pop_semaphore - 1
    /\ UNCHANGED <<ringVars, push_semaphore, arg, entry>>

(* Inside the mutex: the pointer at the head is taken and its slot cleared. *)
PopTake(t) ==
    /\ Go(t, "pop_lock", "pop_post")
    /\ entry' = [entry EXCEPT ![t] = ptr[head]]
    /\ ptr' = [ptr EXCEPT ![head] = NULL]
    /\ head' = (head + 1) % Size
    /\ pending' = pending - 1
    /\ UNCHANGED <<tail, semVars, arg>>

(* Mutant: producers are not told of the free slot. *)
PopPost_silent(t) ==
    /\ Go(t, "pop_post", "idle")
    /\ UNCHANGED <<ringVars, semVars, arg, entry>>

PopPost(t) ==
    /\ Go(t, "pop_post", "idle")
    /\ push_semaphore' = push_semaphore + 1
    /\ UNCHANGED <<ringVars, pop_semaphore, arg, entry>>

(* sem_wait is interrupted by a signal: the call returns an error (EINTR). *)
Interrupted(t) ==
    /\ Go(t, "push_wait", "idle") \/ Go(t, "pop_wait", "idle")
    /\ UNCHANGED <<ringVars, semVars, arg, entry>>

-----------------------------------------------------------------------------

Call(t) ==
    \/ t \in Producer /\ \E x \in Item : queue_wait_push(t, x) \/ queue_try_push(t, x)
    \/ t \in Consumer /\ (queue_wait_pop(t) \/ queue_try_pop(t))

(* What a call does next; a thread waits in it for a permit only. *)
Step(t) ==
    \/ PushPermit(t)
    \/ PushStore(t)
    \/ PushPost(t)
    \/ PopPermit(t)
    \/ PopTake(t)
    \/ PopPost(t)

Next == \E t \in Thread : Call(t) \/ Step(t) \/ Interrupted(t)

(* Threads are scheduled: a call that can go on does. *)
Spec == queue_init /\ [][Next]_vars /\ \A t \in Thread : WF_vars(Step(t))

-----------------------------------------------------------------------------
(* Properties *)

(* The threads at a place of the code. *)
At(place) == {t \in Thread : pc[t] = place}

(* Each slot of the ring is accounted for by the push semaphore, by an item, *)
(* or by a thread between its permit and its post; each item by the pop      *)
(* semaphore or by such a thread.  So PushStore never overwrites an item and *)
(* PopTake never takes from an empty ring, although neither looks.           *)
PermitsAccounted ==
    /\ push_semaphore + pending
         + Cardinality(At("push_lock")) + Cardinality(At("pop_post")) = Size
    /\ pop_semaphore + Cardinality(At("pop_lock")) + Cardinality(At("push_post")) = pending

(* The items of the ring in their order. *)
Contents == [i \in 1 .. pending |-> ptr[(head + i - 1) % Size]]

Fifo == INSTANCE BoundedFifo WITH q <- Contents, got <- entry

(* The queue is a bounded FIFO: whatever threads push and pop, items come    *)
(* out in the order of the PushStore steps, none lost, doubled or made up.   *)
ImplementsFifo == Fifo!Spec

(* A waiting call is not left behind.  While a pop waits, an item does not   *)
(* stay in the ring, and while a push waits (the NULL by which the cleanup   *)
(* ends the receiving thread included), a free slot does not stay unused:    *)
(* it or another thread gets the permit, so no sem_post is missing.          *)
WaitersWake ==
    /\ \A t \in Consumer :
        (pc[t] = "pop_wait" /\ pending > 0) ~> (pc[t] # "pop_wait" \/ At("pop_lock") # {})
    /\ \A t \in Producer :
        (pc[t] = "push_wait" /\ pending < Size) ~> (pc[t] # "push_wait" \/ At("push_lock") # {})
=============================================================================
