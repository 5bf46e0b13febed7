------------------------------ MODULE TunDevice ------------------------------
(***************************************************************************)
(* The TUN device of one host: the calls of common/src/tun.c and           *)
(* tun_driver.c, in the order in which the client (process_ctrl_pkt and    *)
(* vpn_engine_cleanup) and the server (setup_tun_interface and             *)
(* vpn_engine_cleanup) make them, each of which may fail.                  *)
(*                                                                         *)
(* The handle (descriptor, name, flags, private data) belongs to the       *)
(* process, which may end at any time.  The device goes with its           *)
(* descriptor; nftables tables and IP forwarding stay on the host.  The    *)
(* kernel names a device tun<n> with the first n that is free, and other   *)
(* programs take and give back names too.                                  *)
(***************************************************************************)
EXTENDS Integers, Sequences

CONSTANTS
    W,              \* bits of an address: 32 in the code
    Mask,           \* the netmasks a configuration may carry
    MaxSessions     \* bound on the sessions explored

VARIABLES
    side,           \* the program that runs on this host
    phase,          \* where the program is with its device
    step,           \* the call of that phase it is at
    sessions,       \* devices created so far
    fd,             \* tun->tun_fd: -1, open, or closed with its number kept
    ifname,         \* tun->ifname
    priv,           \* whether tun->priv_data is set
    sts_flags,      \* tun->sts_flags
    mask,           \* the netmask of the configuration
    conf,           \* what the kernel holds for the device
    tables,         \* the nftables table named after each device name
    forwarding,     \* net.ipv4.ip_forward
    others,         \* device names of other programs
    failed          \* history: calls of this session that did not do their work

place == <<phase, step>>
handle == <<fd, ifname, priv, sts_flags>>
host == <<tables, forwarding>>
vars == <<side, place, sessions, handle, mask, conf, host, others, failed>>

Name == 0 .. 1
NoName == -1
Flag == {"OPEN", "IP_SET", "MASK_SET", "MTU_SET", "UP", "DNS_SET"}
Setting == {"addr", "mask", "mtu", "up", "dns", "domain", "low", "high", "net"}

ASSUME TunAssumption ==
    /\ W \in Nat \ {0}
    /\ Mask \subseteq 0 .. 2^W - 1
    /\ MaxSessions \in Nat

-----------------------------------------------------------------------------
(* Netmasks (common/inc/utils.h), on W bits *)

(* a & b == 0. *)
NoCommonBit(a, b) == \A i \in 0 .. W - 1 : (a \div 2^i) % 2 = 0 \/ (b \div 2^i) % 2 = 0

(* Mutant: zero is looked for in the mask and not in its inverse. *)
validate_mask_inverse(m) ==
    m = 0 \/ NoCommonBit((m + 1) % 2^W, m)

(* The inverse of a mask of leading ones, plus one, is a power of two. *)
validate_mask(m) ==
    LET inverted == 2^W - 1 - m
    IN  m = 0 \/ NoCommonBit((inverted + 1) % 2^W, inverted)

(* The number of bits that are set, or -EINVAL. *)
mask_to_prefix(m) ==
    LET Bits[i \in 0 .. W] == IF i = 0 THEN 0 ELSE Bits[i - 1] + ((m \div 2^(i - 1)) % 2)
    IN  IF validate_mask(m) THEN Bits[W] ELSE -22

-----------------------------------------------------------------------------
(* The calls of each phase *)

(* Mutant: old tables are not looked for. *)
Setup_noclear ==
    [client |-> <<"tun_open", "tun_set_addr", "tun_set_mtu", "tun_set_up",
                  "tun_set_dns", "low", "high", "net", "tun_client_rules_add", "tun_start">>,
     server |-> <<"tun_open", "tun_set_addr", "tun_set_mtu", "tun_set_up", "tun_clear_dns",
                  "tun_set_dns", "net", "forwarding_on", "tun_server_rules_add", "tun_start">>]

(* "low", "high" and "net" are the three tun_add_route calls. *)
Setup ==
    [client |-> <<"tun_open", "tun_set_addr", "tun_set_mtu", "tun_set_up", "tun_rules_clear",
                  "tun_set_dns", "low", "high", "net", "tun_client_rules_add", "tun_start">>,
     server |-> <<"tun_open", "tun_set_addr", "tun_set_mtu", "tun_set_up", "tun_clear_dns",
                  "tun_set_dns", "tun_rules_clear", "net", "forwarding_on",
                  "tun_server_rules_add", "tun_start">>]

(* Mutant: the client keeps its rules. *)
Teardown_rules ==
    [client |-> <<"tun_flush_routes", "tun_clear_dns", "tun_destroy">>,
     server |-> <<"tun_flush_routes", "tun_clear_dns", "tun_rules_clear", "iptables_reset",
                  "forwarding_off", "tun_destroy">>]

(* vpn_engine_cleanup. *)
Teardown ==
    [client |-> <<"tun_flush_routes", "tun_clear_dns", "tun_rules_clear", "tun_destroy">>,
     server |-> <<"tun_flush_routes", "tun_clear_dns", "tun_rules_clear", "iptables_reset",
                  "forwarding_off", "tun_destroy">>]

(* The cleanup: label of process_ctrl_pkt. *)
Undo == <<"tun_flush_routes", "tun_clear_dns", "tun_rules_clear", "tun_set_down", "tun_destroy">>

Calls ==
    CASE phase = "setup" -> Setup[side]
      [] phase = "teardown" -> Teardown[side]
      [] phase = "undo" -> Undo
      [] OTHER -> <<>>

Calling(call) == step \in DOMAIN Calls /\ Calls[step] = call

(* The setup goes on whatever these return. *)
Ignored == {"tun_rules_clear", "tun_clear_dns", "tun_client_rules_add"}

(* After its last call the program has its device, or is done with it. *)
Goes ==
    /\ phase' = IF step < Len(Calls) THEN phase ELSE IF phase = "setup" THEN "ready" ELSE "over"
    /\ step' = IF step < Len(Calls) THEN step + 1 ELSE 0

(* Where a failed call leads: the client undoes its setup, the server exits. *)
Fails ==
    IF phase # "setup" \/ Calls[step] \in Ignored
    THEN Goes
    ELSE IF side = "client"
         THEN phase' = "undo" /\ step' = 1
         ELSE phase' = "exit" /\ step' = 0

Works == Goes /\ UNCHANGED failed
Failed(what) == failed' = failed \cup {what}

-----------------------------------------------------------------------------

Init ==
    /\ side \in {"client", "server"}
    /\ phase = "over" /\ step = 0 /\ sessions = 0
    /\ fd = "-1" /\ ifname = NoName /\ priv = FALSE /\ sts_flags = {}
    /\ mask \in Mask
    /\ conf = {}
    /\ tables = [n \in Name |-> "none"] /\ forwarding = FALSE
    /\ others \in SUBSET Name
    /\ failed = {}

(* A new session: what an earlier one left in a table is old. *)
tun_create ==
    /\ phase = "over" /\ sessions < MaxSessions
    /\ sessions' = sessions + 1
    /\ \/ phase' = "setup" /\ step' = 1
       \/ UNCHANGED place
    /\ fd' = "-1" /\ ifname' = NoName /\ priv' = FALSE /\ sts_flags' = {}
    /\ tables' = [n \in Name |-> IF tables[n] = "none" THEN "none" ELSE "old"]
    /\ failed' = {}
    /\ UNCHANGED <<side, mask, conf, forwarding, others>>

(* The paths of sysctl, ip, iptables, resolvectl and nft: without one of     *)
(* these tools there is no private data.                                     *)
init_priv_data ==
    \/ Works /\ priv' = TRUE /\ sts_flags' = sts_flags \cup {"OPEN"}
    \/ Fails /\ Failed("tun_open") /\ UNCHANGED <<priv, sts_flags>>

(* The device of name n, or a failure: no descriptor, no device (its         *)
(* descriptor is closed and its number kept), or no private data.            *)
tun_open ==
    /\ Calling("tun_open")
    /\ \/ \E n \in Name \ others :
             /\ \A k \in 0 .. n - 1 : k \in others
             /\ ifname' = n /\ fd' = "open"
             /\ init_priv_data
       \/ /\ Fails /\ Failed("tun_open")
          /\ fd' \in {"-1", "closed"}
          /\ UNCHANGED <<ifname, priv, sts_flags>>
    /\ UNCHANGED <<side, sessions, mask, conf, host, others>>

(* A setter that worked sets its flags and the device's settings; one that   *)
(* failed may have made some of the settings.                                *)
Set(call, flags, settings) ==
    /\ Calling(call)
    /\ \/ /\ Works
          /\ sts_flags' = sts_flags \cup flags
          /\ conf' = conf \cup settings
       \/ /\ Fails /\ Failed(call)
          /\ \E made \in SUBSET settings : made # settings /\ conf' = conf \cup made
          /\ UNCHANGED sts_flags
    /\ UNCHANGED <<side, sessions, fd, ifname, priv, mask, host, others>>

(* A netmask the kernel refuses is reported as success. *)
tun_set_addr ==
    /\ Calling("tun_set_addr")
    /\ \/ /\ validate_mask(mask)
          /\ Goes
          /\ sts_flags' = sts_flags \cup {"IP_SET", "MASK_SET"}
          /\ \/ conf' = conf \cup {"addr", "mask"} /\ UNCHANGED failed
             \/ conf' = conf \cup {"addr"} /\ Failed("SIOCSIFNETMASK")
       \/ /\ Fails /\ Failed("tun_set_addr")
          /\ UNCHANGED <<sts_flags, conf>>
    /\ UNCHANGED <<side, sessions, fd, ifname, priv, mask, host, others>>

tun_set_mtu == Set("tun_set_mtu", {"MTU_SET"}, {"mtu"})
tun_set_up == Set("tun_set_up", {"UP"}, {"up"})
tun_add_route == \E r \in {"low", "high", "net"} : Set(r, {}, {r})

(* resolvectl dns, then resolvectl domain. *)
tun_set_dns ==
    /\ Set("tun_set_dns", {"DNS_SET"}, {"dns", "domain"})
    /\ "domain" \in conf' => "dns" \in conf'

(* Without private data nothing is tried; what cannot be undone is logged,   *)
(* and the flag cleared.                                                     *)
Unset(call, flags, settings) ==
    /\ Calling(call)
    /\ IF priv
       THEN /\ \E kept \in SUBSET (settings \cap conf) : conf' = conf \ (settings \ kept)
            /\ sts_flags' = sts_flags \ flags
            /\ Works
       ELSE /\ Fails /\ Failed(call)
            /\ UNCHANGED <<conf, sts_flags>>
    /\ UNCHANGED <<side, sessions, fd, ifname, priv, mask, host, others>>

tun_clear_dns == Unset("tun_clear_dns", {"DNS_SET"}, {"dns", "domain"})
tun_flush_routes == Unset("tun_flush_routes", {}, {"low", "high", "net"})

tun_set_down ==
    /\ Calling("tun_set_down")
    /\ \/ /\ ifname # NoName
          /\ Works
          /\ conf' = conf \ {"up"} /\ sts_flags' = sts_flags \ {"UP"}
       \/ /\ Fails /\ Failed("tun_set_down")
          /\ UNCHANGED <<conf, sts_flags>>
    /\ UNCHANGED <<side, sessions, fd, ifname, priv, mask, host, others>>

-----------------------------------------------------------------------------
(* nftables and sysctl *)

(* A table statement adds to a table that is there. *)
AddRules(call) ==
    /\ Calling(call)
    /\ \/ /\ Works
          /\ tables' = [tables EXCEPT ![ifname] = IF @ = "none" THEN "fresh" ELSE "both"]
       \/ Fails /\ Failed(call) /\ UNCHANGED tables
    /\ UNCHANGED <<side, sessions, handle, mask, conf, forwarding, others>>

tun_client_rules_add == AddRules("tun_client_rules_add")
tun_server_rules_add == AddRules("tun_server_rules_add")

(* destroy table of this device's name. *)
tun_rules_clear ==
    /\ Calling("tun_rules_clear")
    /\ \/ /\ priv
          /\ Works
          /\ tables' = [tables EXCEPT ![ifname] = "none"]
       \/ Fails /\ Failed("tun_rules_clear") /\ UNCHANGED tables
    /\ UNCHANGED <<side, sessions, handle, mask, conf, forwarding, others>>

(* flush ruleset. *)
iptables_reset ==
    /\ Calling("iptables_reset")
    /\ \/ Works /\ tables' = [n \in Name |-> "none"]
       \/ Fails /\ Failed("iptables_reset") /\ UNCHANGED tables
    /\ UNCHANGED <<side, sessions, handle, mask, conf, forwarding, others>>

tun_ip_forwarding(call, enable) ==
    /\ Calling(call)
    /\ \/ Works /\ forwarding' = enable
       \/ Fails /\ Failed(call) /\ UNCHANGED forwarding
    /\ UNCHANGED <<side, sessions, handle, mask, conf, tables, others>>

-----------------------------------------------------------------------------

(* (sts_flags & TUN_STATE_READY) == TUN_STATE_READY. *)
tun_start ==
    /\ Calling("tun_start")
    /\ IF Flag \subseteq sts_flags THEN Works ELSE Fails /\ Failed("tun_start")
    /\ UNCHANGED <<side, sessions, handle, mask, conf, host, others>>

(* sys_tun_cleanup: a failure to bring the device down is only reported. *)
tun_destroy ==
    /\ Calling("tun_destroy")
    /\ Works
    /\ fd' = "-1" /\ conf' = {}
    /\ priv' = FALSE
    /\ UNCHANGED <<side, sessions, ifname, sts_flags, mask, host, others>>

(* The session is stopped. *)
Stop ==
    /\ phase = "ready"
    /\ phase' = "teardown" /\ step' = 1
    /\ UNCHANGED <<side, sessions, handle, mask, conf, host, others, failed>>

(* The process ends: after the server's setup failed, or killed anywhere. *)
ProcessEnds ==
    /\ phase # "over"
    /\ phase' = "over" /\ step' = 0
    /\ fd' = "-1" /\ conf' = {} /\ priv' = FALSE
    /\ failed' = failed \cup {"process"}
    /\ UNCHANGED <<side, sessions, ifname, sts_flags, mask, host, others>>

OtherPrograms ==
    /\ \E n \in Name :
          /\ fd = "open" => n # ifname
          /\ others' = IF n \in others THEN others \ {n} ELSE others \cup {n}
    /\ UNCHANGED <<side, place, sessions, handle, mask, conf, host, failed>>

Next ==
    \/ tun_create \/ tun_open \/ tun_set_addr \/ tun_set_mtu \/ tun_set_up \/ tun_set_down
    \/ tun_set_dns \/ tun_clear_dns \/ tun_add_route \/ tun_flush_routes
    \/ tun_client_rules_add \/ tun_server_rules_add \/ tun_rules_clear \/ iptables_reset
    \/ tun_ip_forwarding("forwarding_on", TRUE) \/ tun_ip_forwarding("forwarding_off", FALSE)
    \/ tun_start \/ tun_destroy \/ Stop \/ ProcessEnds \/ OtherPrograms

Spec == Init /\ [][Next]_vars

-----------------------------------------------------------------------------
(* Properties *)

(* Type invariant of the handle and of what the host keeps. *)
TunTypeOK ==
    /\ side \in {"client", "server"}
    /\ phase \in {"over", "setup", "ready", "undo", "teardown", "exit"}
    /\ step \in 0 .. Len(Calls)
    /\ sessions \in 0 .. MaxSessions
    /\ fd \in {"-1", "open", "closed"}
    /\ ifname \in Name \cup {NoName}
    /\ priv \in BOOLEAN
    /\ sts_flags \subseteq Flag
    /\ mask \in Mask
    /\ conf \subseteq Setting
    /\ tables \in [Name -> {"none", "old", "fresh", "both"}]
    /\ forwarding \in BOOLEAN
    /\ others \subseteq Name

(* The test of validate_mask accepts exactly the masks of leading ones, and *)
(* mask_to_prefix counts those.                                             *)
MasksArePrefixes ==
    LET Prefix == {k \in 0 .. W : mask = 2^W - 2^(W - k)}
    IN  IF validate_mask(mask) THEN Prefix = {mask_to_prefix(mask)} ELSE Prefix = {}

Shows ==
    [OPEN |-> {}, IP_SET |-> {"addr"}, MASK_SET |-> {"mask"}, MTU_SET |-> {"mtu"},
     UP |-> {"up"}, DNS_SET |-> {"dns", "domain"}]

(* A device the program starts to use (session->tun set, TUN_READY) is as   *)
(* the configuration says, whatever failed on the way: flags that the       *)
(* kernel's state does not back never get through tun_start.  The netmask   *)
(* and the client's rules are the exceptions the code makes.  The rules in  *)
(* force are those of this session: a table that a killed process left      *)
(* under the same name was destroyed before, unless tun_rules_clear failed  *)
(* (which the setup ignores).                                               *)
ReadyMeansConfigured ==
    phase = "ready" =>
        /\ fd = "open" /\ priv
        /\ \A f \in Flag \ {"MASK_SET"} : Shows[f] \subseteq conf
        /\ "mask" \in conf \/ "SIOCSIFNETMASK" \in failed
        /\ "net" \in conf /\ (side = "client" => {"low", "high"} \subseteq conf)
        /\ side = "server" => forwarding
        /\ tables[ifname] # "none" \/ "tun_client_rules_add" \in failed
        /\ tables[ifname] \in {"none", "fresh"} \/ "tun_rules_clear" \in failed

(* When the client is done with its device, after a failed setup or a stop, *)
(* nothing of it is left: no descriptor, no setting, and no kill switch     *)
(* that would cut the host off, unless nft failed or the process was killed. *)
NothingLeft ==
    side = "client" /\ phase = "over" =>
        /\ fd = "-1" /\ conf = {} /\ ~priv
        /\ ifname # NoName /\ {"tun_rules_clear", "process"} \cap failed = {}
              => tables[ifname] = "none"

(* A flag of the handle is backed by the device: MASK_SET says that the     *)
(* subnet mask is configured (common/inc/tun_api.h).                        *)
FlagsTruthful ==
    fd = "open" => \A f \in sts_flags : Shows[f] \subseteq conf
=============================================================================
