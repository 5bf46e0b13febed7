------------------------------ MODULE QueueWin ------------------------------
(***************************************************************************)
(* The two builds of common/inc/queue.h.  `build' says which one is at     *)
(* work.  The Windows build has the ring and the steps of Queue, with      *)
(* three differences: it refuses NULL, its waits are not interrupted, and  *)
(* its semaphores have a maximum, at which ReleaseSemaphore fails and the  *)
(* process is ended (FATAL).                                               *)
(***************************************************************************)
EXTENDS Queue

VARIABLES
    build,      \* "posix" or "windows"
    fatal       \* a release failed

buildVars == <<vars, build, fatal>>

win_queue_init == build = "windows" /\ fatal = FALSE /\ queue_init

win_queue_wait_push(t, x) == x # NULL /\ queue_wait_push(t, x)

win_queue_try_push(t, x) == x # NULL /\ queue_try_push(t, x)

(* ReleaseSemaphore on a semaphore of which `count' permits are free. *)
Release(t, place, count, post) ==
    /\ pc[t] = place
    /\ IF count < Size
       THEN post /\ UNCHANGED fatal
       ELSE fatal' = TRUE /\ UNCHANGED vars

WinPush(t) ==
    \/ PushPermit(t) /\ UNCHANGED fatal
    \/ PushStore(t) /\ UNCHANGED fatal
    \/ Release(t, "push_post", pop_semaphore, PushPost(t))

WinPop(t) ==
    \/ PopPermit(t) /\ UNCHANGED fatal
    \/ PopTake(t) /\ UNCHANGED fatal
    \/ Release(t, "pop_post", push_semaphore, PopPost(t))

WinCall(t) ==
    \/ t \in Producer
       /\ \E x \in Item : win_queue_wait_push(t, x) \/ win_queue_try_push(t, x)
    \/ t \in Consumer /\ (queue_wait_pop(t) \/ queue_try_pop(t))

-----------------------------------------------------------------------------

PosixStep(t) == build = "posix" /\ Step(t) /\ UNCHANGED <<build, fatal>>

WinStep(t) ==
    /\ build = "windows" /\ ~fatal
    /\ WinPush(t) \/ WinPop(t)
    /\ UNCHANGED build

BuildInit ==
    \/ build = "posix" /\ fatal = FALSE /\ queue_init
    \/ win_queue_init

BuildNext ==
    \E t \in Thread :
        \/ PosixStep(t)
        \/ build = "posix" /\ (Call(t) \/ Interrupted(t)) /\ UNCHANGED <<build, fatal>>
        \/ WinStep(t)
        \/ build = "windows" /\ ~fatal /\ WinCall(t) /\ UNCHANGED <<build, fatal>>

(* As in Queue: a call that can go on does. *)
BuildSpec ==
    /\ BuildInit
    /\ [][BuildNext]_buildVars
    /\ \A t \in Thread : WF_buildVars(PosixStep(t)) /\ WF_buildVars(WinStep(t))
=============================================================================
