---------------------------- MODULE MCHostNetwork ----------------------------
(* Two ordinary links and a point-to-point one, five default routes (one with *)
(* the largest metric, one of a second gateway, one without an interface),    *)
(* and lists of addresses that have their attributes in different orders.     *)
EXTENDS HostNetwork

MCLink == <<"ether", "ether", "pointtopoint">>

Route(i, g, m) == [oif |-> i, gateway |-> g, metric |-> m]
MCCandidate == {Route(1, 1, 1), Route(2, 2, 3), Route(3, 3, 0), Route(1, 2, 3), Route(0, 1, 0)}

Local == [type |-> "IFA_LOCAL", addr |-> 5]
Peer == [type |-> "IFA_ADDRESS", addr |-> 9]
Bcast == [type |-> "IFA_BROADCAST", addr |-> 14]
Addr(s, p, a) == [scope |-> s, prefixlen |-> p, attrs |-> a]
MCAddresses ==
    {<<>>,
     <<Addr("host", 4, <<Local>>), Addr("global", 2, <<Peer, Local>>)>>,
     <<Addr("global", 3, <<Bcast>>), Addr("global", 3, <<Local, Peer, Bcast>>)>>,
     <<Addr("global", 0, <<Peer>>)>>}
=============================================================================
