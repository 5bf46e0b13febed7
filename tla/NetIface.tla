------------------------------ MODULE NetIface ------------------------------
(***************************************************************************)
(* common/src/net_iface.c: how client and server find the interface to the *)
(* outside, and the monitor that follows it.                               *)
(*                                                                         *)
(* get_netlink_route_info takes a dump of the routes, then asks about the  *)
(* link of each route in turn; get_netlink_addr_info and                   *)
(* get_netlink_link_info ask again later.  Routes and links change in      *)
(* between, and each query may fail.  A route is a default route of the    *)
(* main table with what the filter of the dump looks at; an address is a   *)
(* number of W bits, and 0 is no address.                                  *)
(***************************************************************************)
EXTENDS Integers, Sequences

CONSTANTS
    W,              \* bits of an address: 32 in the code
    Candidate,      \* the default routes that may exist
    Link,           \* Link[i]: the kind of the interface with index i
    Addresses,      \* the lists of addresses the kernel may send for an interface
    UINT32_MAX,     \* the largest metric
    MaxChanges      \* bound on the changes of routes and links

VARIABLES
    routes,         \* the routes, in the order of the dump
    online,         \* the interfaces that are IFF_UP and IFF_RUNNING
    changes,        \* the changes so far
    events,         \* the notifications in the monitor's socket
    caller,         \* detect_default_wan or monitor_wan_changes
    npc,            \* where it is
    msgs,           \* the messages of the dump it has not looked at
    best,           \* route_info, or NoRoute
    addrs,          \* the RTM_NEWADDR messages the kernel sent for it
    addr_info,      \* addr_info, or NoAddr
    current,        \* session->wan, or current_route of the monitor
    undisturbed,    \* history: no change since the dump
    faults          \* history: a query failed

hostVars == <<routes, online>>
addrVars == <<addrs, addr_info>>
wanVars == <<hostVars, changes, events, caller, npc, msgs, best, addrVars, current, undisturbed, faults>>

Iface == DOMAIN Link
NoRoute == [oif |-> 0, gateway |-> 0, metric |-> UINT32_MAX]
NoAddr == [ip |-> 0, mask |-> 0, bcast |-> 0]
RouteSet == {routes[i] : i \in DOMAIN routes}

Init ==
    /\ \E r, s \in Candidate : routes \in {<<>>, <<r>>} \cup (IF r = s THEN {} ELSE {<<r, s>>})
    /\ online \in SUBSET Iface
    /\ changes = 0
    /\ events = <<>>
    /\ caller \in {"detect_default_wan", "monitor_wan_changes"}
    /\ npc = "query"
    /\ msgs = <<>>
    /\ best = NoRoute
    /\ addrs = <<>> /\ addr_info = NoAddr
    /\ current = NoRoute
    /\ undisturbed = FALSE
    /\ faults = FALSE

-----------------------------------------------------------------------------
(* The host *)

(* Mutant: the socket is bound to its groups after the first query. *)
Notify_late(e) ==
    events' = IF caller = "monitor_wan_changes" /\ (npc = "listen" \/ current # NoRoute)
              THEN Append(events, e) ELSE events

(* open_netlink_event_listener comes before the first query. *)
Notify(e) ==
    events' = IF caller = "monitor_wan_changes" THEN Append(events, e) ELSE events

Change ==
    /\ changes < MaxChanges
    /\ changes' = changes + 1
    /\ undisturbed' = FALSE
    /\ UNCHANGED <<caller, npc, msgs, best, addrVars, current, faults>>

(* A default route is added, at either end of the dump, or deleted. *)
RouteChanges ==
    /\ \/ \E r \in Candidate \ RouteSet : routes' \in {Append(routes, r), <<r>> \o routes}
       \/ \E i \in DOMAIN routes :
             routes' = [k \in 1 .. Len(routes) - 1 |-> IF k < i THEN routes[k] ELSE routes[k + 1]]
    /\ Notify([type |-> "route", ifindex |-> 0, up |-> FALSE])
    /\ UNCHANGED online
    /\ Change

(* A link goes up or down; its routes stay. *)
LinkChanges(i) ==
    /\ online' = IF i \in online THEN online \ {i} ELSE online \cup {i}
    /\ Notify([type |-> "link", ifindex |-> i, up |-> i \notin online])
    /\ UNCHANGED routes
    /\ Change

-----------------------------------------------------------------------------
(* get_netlink_route_info *)

Call(from, to) == npc = from /\ npc' = to

(* A query failed: the function returns an error. *)
Fails(from, to) ==
    /\ Call(from, to)
    /\ faults' = TRUE
    /\ UNCHANGED <<hostVars, changes, events, caller, msgs, best, addrVars, current, undisturbed>>

Dump ==
    /\ Call("query", "scan")
    /\ msgs' = routes
    /\ best' = NoRoute
    /\ undisturbed' = TRUE
    /\ UNCHANGED <<hostVars, changes, events, caller, addrVars, current, faults>>

(* netlink_is_loopback or netlink_is_pointtopoint, when they get an answer;   *)
(* without one they say no.                                                   *)
Skipped(r, answer) == r.oif # 0 /\ answer /\ Link[r.oif] \in {"loopback", "pointtopoint"}

(* Mutant: a metric as large as the best so far is not looked at. *)
Better_strict(r) == r.oif > 0 /\ r.gateway # 0 /\ r.metric < best.metric

Better(r) == r.oif > 0 /\ r.gateway # 0 /\ r.metric <= best.metric

is_link_online(i) == i \in online

(* One message of the dump; `answer' tells whether the link queries work. *)
Scan(answer) ==
    LET r == Head(msgs)
    IN  /\ npc = "scan" /\ msgs # <<>>
        /\ msgs' = Tail(msgs)
        /\ best' = IF ~Skipped(r, answer) /\ Better(r) /\ is_link_online(r.oif) THEN r ELSE best
        /\ faults' = (faults \/ ~answer)
        /\ UNCHANGED <<hostVars, changes, events, caller, npc, addrVars, current, undisturbed>>

-----------------------------------------------------------------------------
(* get_netlink_addr_info *)

(* Mutant: IFA_ADDRESS, the peer of a point-to-point link, always counts. *)
LocalIp_last(attrs) ==
    LET Ip[i \in 0 .. Len(attrs)] ==
          IF i = 0 THEN 0
          ELSE IF attrs[i].type \in {"IFA_LOCAL", "IFA_ADDRESS"} THEN attrs[i].addr
          ELSE Ip[i - 1]
    IN  Ip[Len(attrs)]

(* The loop over the attributes. *)
LocalIp(attrs) ==
    LET Ip[i \in 0 .. Len(attrs)] ==
          IF i = 0 THEN 0
          ELSE IF attrs[i].type = "IFA_LOCAL" \/ (attrs[i].type = "IFA_ADDRESS" /\ Ip[i - 1] = 0)
               THEN attrs[i].addr
          ELSE Ip[i - 1]
    IN  Ip[Len(attrs)]

BcastIp(attrs) ==
    LET Ip[i \in 0 .. Len(attrs)] ==
          IF i = 0 THEN 0
          ELSE IF attrs[i].type = "IFA_BROADCAST" THEN attrs[i].addr
          ELSE Ip[i - 1]
    IN  Ip[Len(attrs)]

AddrInfo(m) ==
    LET ip == LocalIp(m.attrs)
        msk == IF m.prefixlen > 0 THEN ((2^W - 1) * 2^(W - m.prefixlen)) % 2^W ELSE 0
        bcast == IF BcastIp(m.attrs) # 0 THEN BcastIp(m.attrs)
                 ELSE IF msk = 0 THEN 0
                 ELSE (ip - (ip % 2^(W - m.prefixlen))) + (2^W - 1 - msk)     \* ip | ~mask
    IN  [ip |-> ip, mask |-> msk, bcast |-> bcast]

(* The messages that are taken: the first of them ends the loop. *)
Usable(list) == SelectSeq(list, LAMBDA m : m.scope # "host" /\ LocalIp(m.attrs) # 0)

(* When it finds none, or fails, the client gives up; the monitor does not    *)
(* look at what it returns.                                                    *)
get_netlink_addr_info(dump) ==
    LET list == Usable(dump)
    IN  /\ npc = "addr"
        /\ addrs' = dump
        /\ addr_info' = IF list = <<>> THEN NoAddr ELSE AddrInfo(Head(list))
        /\ npc' = IF list = <<>> /\ caller = "detect_default_wan" THEN "failed" ELSE "link"
        /\ UNCHANGED <<hostVars, changes, events, caller, msgs, best, current, undisturbed, faults>>

-----------------------------------------------------------------------------
(* detect_default_wan *)

Detect == caller = "detect_default_wan"

DetectRoute ==
    /\ Detect /\ npc = "scan" /\ msgs = <<>>
    /\ npc' = IF best = NoRoute THEN "failed" ELSE "addr"
    /\ UNCHANGED <<hostVars, changes, events, caller, msgs, best, addrVars, current, undisturbed, faults>>

(* get_netlink_link_info, whose answer is only printed, and session->wan. *)
DetectDone ==
    /\ Detect /\ Call("link", "done")
    /\ current' = best
    /\ UNCHANGED <<hostVars, changes, events, caller, msgs, best, addrVars, undisturbed, faults>>

DetectFails == Detect /\ (\E p \in {"query", "scan", "link"} : Fails(p, "failed"))

-----------------------------------------------------------------------------
(* monitor_wan_changes *)

Monitor == caller = "monitor_wan_changes"

(* What is tracked follows the best route when interface or gateway differ;  *)
(* it is cleared when no route was found.                                    *)
MonitorRoute ==
    LET differs == best.oif # current.oif \/ best.gateway # current.gateway
    IN  /\ Monitor /\ npc = "scan" /\ msgs = <<>>
        /\ npc' = IF best # NoRoute /\ differs THEN "addr" ELSE "listen"
        /\ current' = IF best = NoRoute \/ differs THEN best ELSE current
        /\ UNCHANGED <<hostVars, changes, events, caller, msgs, best, addrVars, undisturbed, faults>>

(* get_netlink_link_info; what it returns is not looked at. *)
MonitorLink ==
    /\ Monitor /\ Call("link", "listen")
    /\ addrs' = <<>> /\ addr_info' = NoAddr
    /\ UNCHANGED <<hostVars, changes, events, caller, msgs, best, current, undisturbed, faults>>

(* One notification: a change of a default route, or the tracked link down. *)
process_netlink_event ==
    LET e == Head(events)
        wan_changed == e.type = "route" \/ (e.ifindex = current.oif /\ ~e.up)
    IN  /\ Monitor /\ npc = "listen" /\ events # <<>>
        /\ events' = Tail(events)
        /\ npc' = IF wan_changed THEN "query" ELSE "listen"
        /\ UNCHANGED <<hostVars, changes, caller, msgs, best, addrVars, current, undisturbed, faults>>

(* The route query fails: "connection lost". *)
MonitorFails ==
    /\ Monitor /\ npc \in {"query", "scan"} /\ npc' = "listen"
    /\ current' = NoRoute
    /\ faults' = TRUE
    /\ UNCHANGED <<hostVars, changes, events, caller, msgs, best, addrVars, undisturbed>>

-----------------------------------------------------------------------------

Next ==
    \/ RouteChanges \/ \E i \in Iface : LinkChanges(i)
    \/ Dump \/ \E answer \in BOOLEAN : Scan(answer)
    \/ \E dump \in Addresses : get_netlink_addr_info(dump)
    \/ DetectRoute \/ DetectDone \/ DetectFails
    \/ MonitorRoute \/ MonitorLink \/ process_netlink_event \/ MonitorFails

-----------------------------------------------------------------------------
(* Properties *)

Eligible(r) ==
    /\ r.oif \in online /\ r.gateway # 0
    /\ Link[r.oif] \notin {"loopback", "pointtopoint"}

(* When nothing changes and no query fails, the route found is one with the   *)
(* lowest metric of those through an ordinary link that is online, and none   *)
(* is found only if there is none, whatever the order of the dump and however *)
(* large the metrics are.                                                     *)
BestRouteFound ==
    npc = "scan" /\ msgs = <<>> /\ undisturbed /\ ~faults =>
        LET usable == {r \in RouteSet : Eligible(r)}
        IN  IF usable = {} THEN best = NoRoute
            ELSE best \in usable /\ \A r \in usable : best.metric <= r.metric

(* The address found is the interface's own, not its peer's, in whichever     *)
(* order the kernel lists them, and the broadcast address is the last of its  *)
(* subnet unless the kernel names another.                                    *)
OwnAddress ==
    npc \in {"link", "done"} /\ addr_info # NoAddr =>
        \E i \in 1 .. Len(addrs) :
            LET m == addrs[i]
                Has(type, a) == \E k \in 1 .. Len(m.attrs) : m.attrs[k] = [type |-> type, addr |-> a]
                size == 2^(W - m.prefixlen)
            IN  /\ m.scope # "host"
                /\ \/ Has("IFA_LOCAL", addr_info.ip)
                   \/ Has("IFA_ADDRESS", addr_info.ip) /\ \A a \in 1 .. 2^W - 1 : ~Has("IFA_LOCAL", a)
                /\ \/ Has("IFA_BROADCAST", addr_info.bcast)
                   \/ m.prefixlen = 0 /\ addr_info.bcast = 0
                   \/ /\ addr_info.bcast \div size = addr_info.ip \div size
                      /\ (addr_info.bcast + 1) % size = 0
                /\ addr_info.mask = (IF m.prefixlen = 0 THEN 0 ELSE 2^W - size)

(* When the monitor has seen all notifications, the interface it tracks is    *)
(* online and still has the default route, whatever changed while it was      *)
(* asking.                                                                    *)
TrackedIsUsable ==
    Monitor /\ npc = "listen" /\ events = <<>> /\ current # NoRoute =>
        \E r \in RouteSet :
            r.oif = current.oif /\ r.gateway = current.gateway /\ r.oif \in online

(* "Parses a Netlink message stream to determine if WAN routing changed": the *)
(* monitor that has seen all notifications tracks a best route.               *)
TracksBest ==
    Monitor /\ npc = "listen" /\ events = <<>> /\ ~faults =>
        \A r \in RouteSet : Eligible(r) => current.metric <= r.metric
=============================================================================
