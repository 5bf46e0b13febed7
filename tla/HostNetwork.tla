----------------------------- MODULE HostNetwork -----------------------------
(***************************************************************************)
(* What the programs do with the network of their host: they find the      *)
(* interface to the outside (NetIface), and set up and take down the TUN   *)
(* device (TunDevice).  Neither reads what the other changes, since the    *)
(* device is point-to-point; a behaviour is one of one of them.            *)
(***************************************************************************)
EXTENDS TunDevice

CONSTANTS Candidate, Link, Addresses, UINT32_MAX, MaxChanges    \* of NetIface

VARIABLES
    part,           \* "net_iface" or "tun"
    routes, online, changes, events, caller, npc, msgs, best, addrs, addr_info,
    current, undisturbed, faults

wanVars == <<routes, online, changes, events, caller, npc, msgs, best, addrs, addr_info,
             current, undisturbed, faults>>
allVars == <<part, vars, wanVars>>

(* Metrics have 32 bits, and the kernel counts interfaces from 1. *)
ASSUME HostAssumption ==
    /\ UINT32_MAX \in Nat
    /\ Candidate \subseteq [oif : Nat, gateway : Nat, metric : 0 .. UINT32_MAX]
    /\ DOMAIN Link \subseteq Nat \ {0}
    /\ MaxChanges \in Nat

Net == INSTANCE NetIface

(* The part that stands still has one initial state. *)
HostInit ==
    /\ Init
    /\ Net!Init
    /\ \/ part = "tun" /\ routes = <<>> /\ online = {} /\ caller = "detect_default_wan"
       \/ part = "net_iface" /\ side = "client" /\ others = {} /\ \A m \in Mask : mask <= m

HostNext ==
    \/ part = "tun" /\ Next /\ UNCHANGED <<part, wanVars>>
    \/ part = "net_iface" /\ Net!Next /\ UNCHANGED <<part, vars>>

HostSpec == HostInit /\ [][HostNext]_allVars

-----------------------------------------------------------------------------
(* Properties *)

(* When nothing changes and no query fails, get_netlink_route_info finds a    *)
(* route with the lowest metric of those through an ordinary link that is     *)
(* online, and none only if there is none, whatever the order of the dump and *)
(* however large the metrics are.                                             *)
BestRouteFound == Net!BestRouteFound

(* The address get_netlink_addr_info finds is the interface's own, not its    *)
(* peer's, in whichever order the kernel lists them, and the broadcast        *)
(* address is the last of its subnet unless the kernel names another.         *)
OwnAddress == Net!OwnAddress

(* When monitor_wan_changes has seen all notifications, the interface it      *)
(* tracks is online and still has the default route, whatever changed while   *)
(* it was asking.                                                             *)
TrackedIsUsable == Net!TrackedIsUsable

(* "Parses a Netlink message stream to determine if WAN routing changed": the *)
(* monitor that has seen all notifications tracks a best route.               *)
TracksBest == Net!TracksBest
=============================================================================
