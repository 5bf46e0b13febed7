---------------------------- MODULE BoundedFifo ----------------------------
(***************************************************************************)
(* What queue.h promises, "Thread-safe bounded FIFO queue": threads offer  *)
(* items, an offered item enters at the back of a sequence of at most Size *)
(* items in one step, and items leave from its front in one step.          *)
(***************************************************************************)
EXTENDS Naturals, Sequences

CONSTANTS Thread, Item, Size

VARIABLES
    q,      \* the items in the queue
    arg,    \* arg[t]: what thread t offers
    got     \* got[t]: what thread t took last

vars == <<q, arg, got>>

Init ==
    /\ q = <<>>
    /\ arg \in [Thread -> Item]
    /\ got \in [Thread -> Item]

Offer(t, x) ==
    /\ arg' = [arg EXCEPT ![t] = x]
    /\ UNCHANGED <<q, got>>

Put(t) ==
    /\ Len(q) < Size
    /\ q' = Append(q, arg[t])
    /\ UNCHANGED <<arg, got>>

Take(t) ==
    /\ q # <<>>
    /\ got' = [got EXCEPT ![t] = Head(q)]
    /\ q' = Tail(q)
    /\ UNCHANGED arg

Next ==
    \E t \in Thread :
        \/ \E x \in Item : Offer(t, x)
        \/ Put(t)
        \/ Take(t)

Spec == Init /\ [][Next]_vars
=============================================================================
