---------------------------- MODULE AddressLease ----------------------------
(***************************************************************************)
(* What the server promises about tunnel addresses, whatever its tables    *)
(* look like: an address is leased to at most one connection, a connection *)
(* has at most one address, and a connection is turned away only while     *)
(* every address is leased.  A connection that was turned away, or that    *)
(* gave its address back, is never given one again.                        *)
(***************************************************************************)
CONSTANTS Holder, Address, NoHolder

VARIABLES
    lease,      \* lease[a]: the connection that holds address a, or NoHolder
    refused,    \* the connections turned away with SERVER_ERROR_FULL
    released    \* the connections that gave their address back

vars == <<lease, refused, released>>

Holds(h) == \E a \in Address : lease[a] = h

Init ==
    /\ lease = [a \in Address |-> NoHolder]
    /\ refused = {}
    /\ released = {}

Grant(h, a) ==
    /\ lease[a] = NoHolder
    /\ ~Holds(h)
    /\ h \notin refused \cup released
    /\ lease' = [lease EXCEPT ![a] = h]
    /\ UNCHANGED <<refused, released>>

Refuse(h) ==
    /\ \A a \in Address : lease[a] # NoHolder
    /\ ~Holds(h)
    /\ refused' = refused \cup {h}
    /\ UNCHANGED <<lease, released>>

Release(h, a) ==
    /\ lease[a] = h
    /\ lease' = [lease EXCEPT ![a] = NoHolder]
    /\ released' = released \cup {h}
    /\ UNCHANGED refused

Next ==
    \E h \in Holder :
        \/ Refuse(h)
        \/ \E a \in Address : Grant(h, a) \/ Release(h, a)

Spec == Init /\ [][Next]_vars
=============================================================================
