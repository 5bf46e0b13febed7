----------------------------- MODULE HostProofs -----------------------------
(***************************************************************************)
(* Proofs about HostNetwork: the TUN device, for every number of sessions  *)
(* and set of netmasks, and the search for the interface to the outside,   *)
(* for every set of routes and links and number of changes.                *)
(***************************************************************************)
EXTENDS HostNetwork, TLAPS

-----------------------------------------------------------------------------
(* The TUN device *)

(* What the first k - 1 calls of the setup leave. *)
Table(k, clear, add) ==
    /\ k > clear => tables[ifname] \in (IF k <= add THEN {"none"} ELSE {"none", "fresh"})
                       \/ "tun_rules_clear" \in failed
    /\ k > add => tables[ifname] # "none" \/ "tun_client_rules_add" \in failed

BothDone(k) ==
    /\ k > 1 => fd = "open" /\ priv /\ ifname \in Name
    /\ k > 2 => "addr" \in conf /\ ("mask" \in conf \/ "SIOCSIFNETMASK" \in failed)
    /\ k > 3 => "mtu" \in conf
    /\ k > 4 => "up" \in conf
    /\ k > 6 => {"dns", "domain"} \subseteq conf

ClientDone(k) ==
    /\ BothDone(k)
    /\ Table(k, 5, 10)
    /\ k > 7 => "low" \in conf
    /\ k > 8 => "high" \in conf
    /\ k > 9 => "net" \in conf

ServerDone(k) ==
    /\ BothDone(k)
    /\ Table(k, 7, 10)
    /\ k > 8 => "net" \in conf
    /\ k > 9 => forwarding

Done(k) == IF side = "client" THEN ClientDone(k) ELSE ServerDone(k)

(* What is left of the rules once the client has cleared them. *)
Cleared == ifname = NoName \/ tables[ifname] = "none" \/ "tun_rules_clear" \in failed

(* The inductive invariant of the device. *)
TunInv ==
    /\ TunTypeOK
    /\ priv => ifname \in Name
    /\ phase = "setup" => step > 0 /\ Done(step)
    /\ phase = "ready" => Done(12)
    /\ side = "client" /\ phase \in {"undo", "teardown"} /\ step >= 4 => Cleared
    /\ phase = "over" => fd = "-1" /\ conf = {} /\ ~priv
    /\ phase = "over" /\ side = "client" => Cleared \/ "process" \in failed

(* Where in its phase a call is made. *)
ClientSetup(c) ==
    /\ phase = "setup" /\ side = "client" /\ Len(Calls) = 11
    /\ \/ (step = 1 /\ c = "tun_open") \/ (step = 2 /\ c = "tun_set_addr")
       \/ (step = 3 /\ c = "tun_set_mtu") \/ (step = 4 /\ c = "tun_set_up")
       \/ (step = 5 /\ c = "tun_rules_clear") \/ (step = 6 /\ c = "tun_set_dns")
       \/ (step = 7 /\ c = "low") \/ (step = 8 /\ c = "high") \/ (step = 9 /\ c = "net")
       \/ (step = 10 /\ c = "tun_client_rules_add") \/ (step = 11 /\ c = "tun_start")

ServerSetup(c) ==
    /\ phase = "setup" /\ side = "server" /\ Len(Calls) = 11
    /\ \/ (step = 1 /\ c = "tun_open") \/ (step = 2 /\ c = "tun_set_addr")
       \/ (step = 3 /\ c = "tun_set_mtu") \/ (step = 4 /\ c = "tun_set_up")
       \/ (step = 5 /\ c = "tun_clear_dns") \/ (step = 6 /\ c = "tun_set_dns")
       \/ (step = 7 /\ c = "tun_rules_clear") \/ (step = 8 /\ c = "net")
       \/ (step = 9 /\ c = "forwarding_on") \/ (step = 10 /\ c = "tun_server_rules_add")
       \/ (step = 11 /\ c = "tun_start")

ClientTeardown(c) ==
    /\ phase = "teardown" /\ side = "client" /\ Len(Calls) = 4
    /\ \/ (step = 1 /\ c = "tun_flush_routes") \/ (step = 2 /\ c = "tun_clear_dns")
       \/ (step = 3 /\ c = "tun_rules_clear") \/ (step = 4 /\ c = "tun_destroy")

ServerTeardown(c) ==
    /\ phase = "teardown" /\ side = "server" /\ Len(Calls) = 6
    /\ \/ (step = 1 /\ c = "tun_flush_routes") \/ (step = 2 /\ c = "tun_clear_dns")
       \/ (step = 3 /\ c = "tun_rules_clear") \/ (step = 4 /\ c = "iptables_reset")
       \/ (step = 5 /\ c = "forwarding_off") \/ (step = 6 /\ c = "tun_destroy")

Undoing(c) ==
    /\ phase = "undo" /\ Len(Calls) = 5
    /\ \/ (step = 1 /\ c = "tun_flush_routes") \/ (step = 2 /\ c = "tun_clear_dns")
       \/ (step = 3 /\ c = "tun_rules_clear") \/ (step = 4 /\ c = "tun_set_down")
       \/ (step = 5 /\ c = "tun_destroy")

Site(c) == ClientSetup(c) \/ ServerSetup(c) \/ ClientTeardown(c) \/ ServerTeardown(c) \/ Undoing(c)

Past(c) == c \notin {"tun_start", "tun_destroy"} => step < Len(Calls)

LEMMA Sites ==
    ASSUME side \in {"client", "server"}, NEW c, Calling(c)
    PROVE  /\ Site(c) /\ step \in 1 .. Len(Calls) /\ Calls[step] = c
           /\ c \notin {"tun_start", "tun_destroy"} => step < Len(Calls)
  <1>1. ASSUME phase = "setup" /\ side = "client"
        PROVE  ClientSetup(c) /\ step \in 1 .. Len(Calls) /\ Past(c)
    <2>1. Calls = Setup["client"]
      BY <1>1 DEF Calls
    <2>2. Calls = <<"tun_open", "tun_set_addr", "tun_set_mtu", "tun_set_up", "tun_rules_clear",
                    "tun_set_dns", "low", "high", "net", "tun_client_rules_add", "tun_start">>
      BY <2>1 DEF Setup
    <2>3. Len(Calls) = 11 /\ step \in 1 .. 11 /\ Calls[step] = c
      BY <2>2 DEF Calling
    <2>4. Past(c)
      BY <2>2, <2>3 DEF Past
    <2> QED
      BY <1>1, <2>2, <2>3, <2>4 DEF ClientSetup
  <1>2. ASSUME phase = "setup" /\ side = "server"
        PROVE  ServerSetup(c) /\ step \in 1 .. Len(Calls) /\ Past(c)
    <2>1. Calls = Setup["server"]
      BY <1>2 DEF Calls
    <2>2. Calls = <<"tun_open", "tun_set_addr", "tun_set_mtu", "tun_set_up", "tun_clear_dns",
                    "tun_set_dns", "tun_rules_clear", "net", "forwarding_on",
                    "tun_server_rules_add", "tun_start">>
      BY <2>1 DEF Setup
    <2>3. Len(Calls) = 11 /\ step \in 1 .. 11 /\ Calls[step] = c
      BY <2>2 DEF Calling
    <2>4. Past(c)
      BY <2>2, <2>3 DEF Past
    <2> QED
      BY <1>2, <2>2, <2>3, <2>4 DEF ServerSetup
  <1>3. ASSUME phase = "teardown" /\ side = "client"
        PROVE  ClientTeardown(c) /\ step \in 1 .. Len(Calls) /\ Past(c)
    <2>1. Calls = Teardown["client"]
      BY <1>3 DEF Calls
    <2>2. Calls = <<"tun_flush_routes", "tun_clear_dns", "tun_rules_clear", "tun_destroy">>
      BY <2>1 DEF Teardown
    <2>3. Len(Calls) = 4 /\ step \in 1 .. 4 /\ Calls[step] = c
      BY <2>2 DEF Calling
    <2>4. Past(c)
      BY <2>2, <2>3 DEF Past
    <2> QED
      BY <1>3, <2>2, <2>3, <2>4 DEF ClientTeardown
  <1>4. ASSUME phase = "teardown" /\ side = "server"
        PROVE  ServerTeardown(c) /\ step \in 1 .. Len(Calls) /\ Past(c)
    <2>1. Calls = Teardown["server"]
      BY <1>4 DEF Calls
    <2>2. Calls = <<"tun_flush_routes", "tun_clear_dns", "tun_rules_clear", "iptables_reset",
                    "forwarding_off", "tun_destroy">>
      BY <2>1 DEF Teardown
    <2>3. Len(Calls) = 6 /\ step \in 1 .. 6 /\ Calls[step] = c
      BY <2>2 DEF Calling
    <2>4. Past(c)
      BY <2>2, <2>3 DEF Past
    <2> QED
      BY <1>4, <2>2, <2>3, <2>4 DEF ServerTeardown
  <1>5. ASSUME phase = "undo"
        PROVE  Undoing(c) /\ step \in 1 .. Len(Calls) /\ Past(c)
    <2>1. Calls = Undo
      BY <1>5 DEF Calls
    <2>2. Calls = <<"tun_flush_routes", "tun_clear_dns", "tun_rules_clear", "tun_set_down",
                    "tun_destroy">>
      BY <2>1 DEF Undo
    <2>3. Len(Calls) = 5 /\ step \in 1 .. 5 /\ Calls[step] = c
      BY <2>2 DEF Calling
    <2>4. Past(c)
      BY <2>2, <2>3 DEF Past
    <2> QED
      BY <1>5, <2>2, <2>3, <2>4 DEF Undoing
  <1>6. phase \in {"setup", "teardown", "undo"}
    BY DEF Calling, Calls
  <1>7. Calls[step] = c
    BY DEF Calling
  <1> QED
    BY <1>1, <1>2, <1>3, <1>4, <1>5, <1>6, <1>7 DEF Site, Past

(* Where a call leads. *)
LEMMA Lead ==
    ASSUME TunInv, NEW c, Calling(c), Goes \/ Fails, UNCHANGED side
    PROVE  /\ phase' \in {"over", "setup", "ready", "undo", "teardown", "exit"}
           /\ step' \in 0 .. Len(Calls')
           /\ phase' = "setup" => phase = "setup" /\ step' = step + 1
  <1>1. Site(c) /\ step \in 1 .. Len(Calls) /\ Calls[step] = c
    BY Sites DEF TunInv, TunTypeOK
  <1>2. Len(Calls) \in Nat /\ phase \in {"setup", "undo", "teardown"}
    BY <1>1 DEF Site, ClientSetup, ServerSetup, ClientTeardown, ServerTeardown, Undoing
  <1>3. CASE Goes /\ step < Len(Calls)
    <2>1. phase' = phase /\ step' = step + 1
      BY <1>3 DEF Goes
    <2>2. Calls' = Calls
      BY <2>1 DEF Calls
    <2> QED
      BY <1>1, <1>2, <1>3, <2>1, <2>2
  <1>4. CASE Goes /\ ~(step < Len(Calls))
    <2>1. phase' \in {"ready", "over"} /\ step' = 0
      BY <1>2, <1>4 DEF Goes
    <2>2. Calls' = <<>>
      BY <2>1 DEF Calls
    <2> QED
      BY <2>1, <2>2
  <1>5. CASE Fails /\ ~Goes
    <2>1. (phase' = "undo" /\ step' = 1) \/ (phase' = "exit" /\ step' = 0)
      BY <1>5 DEF Fails
    <2>2. phase' = "undo" => Len(Calls') = 5
      BY DEF Calls, Undo
    <2>3. phase' = "exit" => Len(Calls') = 0
      BY DEF Calls
    <2>4. CASE phase' = "undo" /\ step' = 1
      BY <2>2, <2>4
    <2>5. CASE phase' = "exit" /\ step' = 0
      BY <2>3, <2>5
    <2> QED
      BY <2>1, <2>4, <2>5
  <1> QED
    BY <1>3, <1>4, <1>5

(* A call that is not the last of its phase. *)
LEMMA GoesOn == ASSUME Goes, step < Len(Calls) PROVE phase' = phase /\ step' = step + 1
  BY DEF Goes

(* The setup goes on: what the invariant then asks. *)
LEMMA SetupGoesOn ==
    ASSUME TunTypeOK', phase' = "setup", step' > 0, Done(step)', priv' => ifname' \in Name
    PROVE  TunInv'
  BY DEF TunInv

(* The setup ends early: the client undoes it, the server exits. *)
LEMMA SetupEnds ==
    ASSUME TunTypeOK', phase = "setup", step < Len(Calls), Goes \/ Fails, phase' # "setup",
           priv' => ifname' \in Name
    PROVE  TunInv'
  <1>1. ~Goes
    BY DEF Goes
  <1>2. (phase' = "undo" /\ step' = 1) \/ phase' = "exit"
    BY <1>1 DEF Fails
  <1> QED
    BY <1>2 DEF TunInv

(* What was done stays done while settings and failures are only added. *)
LEMMA DoneStays ==
    ASSUME NEW k \in Nat, Done(k), conf \subseteq conf', failed \subseteq failed',
           UNCHANGED <<side, fd, ifname, priv, tables, forwarding>>
    PROVE  Done(k)'
  <1>1. BothDone(k) => BothDone(k)'
    BY DEF BothDone
  <1>2. \A c, a \in Nat : Table(k, c, a) => Table(k, c, a)'
    BY DEF Table
  <1>3. CASE side = "client"
    BY <1>1, <1>2, <1>3 DEF Done, ClientDone
  <1>4. CASE side # "client"
    BY <1>1, <1>2, <1>4 DEF Done, ServerDone
  <1> QED
    BY <1>3, <1>4

(* The calls that set up the device. *)
LEMMA TunOpenInv == TunInv /\ tun_open => TunInv'
  <1> SUFFICES ASSUME TunInv, tun_open PROVE TunInv'
    OBVIOUS
  <1>1. phase = "setup" /\ step = 1 /\ Len(Calls) = 11 /\ Calls[step] = "tun_open"
    BY Sites DEF TunInv, TunTypeOK, Site, ClientSetup, ServerSetup, ClientTeardown,
       ServerTeardown, Undoing, tun_open, init_priv_data
  <1>2. TunTypeOK'
    BY Lead DEF TunInv, TunTypeOK, Works, Setting, Flag, host, tun_open, init_priv_data
  <1>3. Goes \/ Fails
    BY DEF tun_open, init_priv_data, Works
  <1>4. priv' => ifname' \in Name
    BY DEF TunInv, tun_open, init_priv_data
  <1>5. CASE phase' = "setup"
    <2>1. Works /\ fd' = "open" /\ priv' = TRUE /\ ifname' \in Name
      BY <1>1, <1>5 DEF tun_open, init_priv_data, Fails, Ignored
    <2>2. step' = 2
      BY <1>1, <2>1 DEF Works, Goes
    <2>3. Done(2)'
      BY <2>1 DEF Done, ClientDone, ServerDone, BothDone, Table
    <2> QED
      BY <1>2, <1>4, <1>5, <2>2, <2>3, SetupGoesOn
  <1>6. CASE phase' # "setup"
    BY <1>1, <1>2, <1>3, <1>4, <1>6, SetupEnds
  <1> QED
    BY <1>5, <1>6

LEMMA SetAddrInv == TunInv /\ tun_set_addr => TunInv'
  <1> SUFFICES ASSUME TunInv, tun_set_addr PROVE TunInv'
    OBVIOUS
  <1>1. phase = "setup" /\ step = 2 /\ Len(Calls) = 11 /\ Calls[step] = "tun_set_addr"
    BY Sites DEF TunInv, TunTypeOK, Site, ClientSetup, ServerSetup, ClientTeardown,
       ServerTeardown, Undoing, tun_set_addr
  <1>2. TunTypeOK'
    BY Lead DEF TunInv, TunTypeOK, Works, Setting, Flag, host, tun_set_addr
  <1>3. Goes \/ Fails
    BY DEF tun_set_addr, Works
  <1>4. priv' => ifname' \in Name
    BY DEF TunInv, tun_set_addr
  <1>5. CASE phase' = "setup"
    <2>1. /\ Goes /\ conf \subseteq conf' /\ failed \subseteq failed'
          /\ "addr" \in conf' /\ ("mask" \in conf' \/ "SIOCSIFNETMASK" \in failed')
      BY <1>1, <1>5 DEF tun_set_addr, Fails, Failed, Ignored
    <2>2. step' = 3 /\ UNCHANGED <<side, fd, ifname, priv, tables, forwarding>>
      BY <1>1, <2>1 DEF tun_set_addr, Goes, host
    <2>3. Done(2)
      BY <1>1 DEF TunInv
    <2>4. Done(2)'
      BY <2>1, <2>2, <2>3, DoneStays
    <2>5. Done(3)'
      BY <2>1, <2>4 DEF Done, ClientDone, ServerDone, BothDone, Table
    <2> QED
      BY <1>2, <1>4, <1>5, <2>2, <2>5, SetupGoesOn
  <1>6. CASE phase' # "setup"
    BY <1>1, <1>2, <1>3, <1>4, <1>6, SetupEnds
  <1> QED
    BY <1>5, <1>6

LEMMA SetMtuInv == TunInv /\ tun_set_mtu => TunInv'
  <1> SUFFICES ASSUME TunInv, tun_set_mtu PROVE TunInv'
    OBVIOUS
  <1>1. phase = "setup" /\ step = 3 /\ Len(Calls) = 11 /\ Calls[step] = "tun_set_mtu"
    BY Sites DEF TunInv, TunTypeOK, Site, ClientSetup, ServerSetup, ClientTeardown,
       ServerTeardown, Undoing, tun_set_mtu, Set
  <1>2. TunTypeOK'
    BY Lead DEF TunInv, TunTypeOK, Works, Setting, Flag, host, tun_set_mtu, Set
  <1>3. Goes \/ Fails
    BY DEF tun_set_mtu, Set, Works
  <1>4. priv' => ifname' \in Name
    BY DEF TunInv, tun_set_mtu, Set
  <1>5. CASE phase' = "setup"
    <2>1. Works /\ conf' = conf \cup {"mtu"}
      BY <1>1, <1>5 DEF tun_set_mtu, Set, Fails, Ignored
    <2>2. step' = 4 /\ UNCHANGED <<side, fd, ifname, priv, tables, forwarding, failed>>
      BY <1>1, <2>1 DEF tun_set_mtu, Set, Works, Goes, host
    <2>3. Done(3)
      BY <1>1 DEF TunInv
    <2>4. Done(3)'
      BY <2>1, <2>2, <2>3, DoneStays
    <2>5. Done(4)'
      BY <2>1, <2>4 DEF Done, ClientDone, ServerDone, BothDone, Table
    <2> QED
      BY <1>2, <1>4, <1>5, <2>2, <2>5, SetupGoesOn
  <1>6. CASE phase' # "setup"
    BY <1>1, <1>2, <1>3, <1>4, <1>6, SetupEnds
  <1> QED
    BY <1>5, <1>6

LEMMA SetUpInv == TunInv /\ tun_set_up => TunInv'
  <1> SUFFICES ASSUME TunInv, tun_set_up PROVE TunInv'
    OBVIOUS
  <1>1. phase = "setup" /\ step = 4 /\ Len(Calls) = 11 /\ Calls[step] = "tun_set_up"
    BY Sites DEF TunInv, TunTypeOK, Site, ClientSetup, ServerSetup, ClientTeardown,
       ServerTeardown, Undoing, tun_set_up, Set
  <1>2. TunTypeOK'
    BY Lead DEF TunInv, TunTypeOK, Works, Setting, Flag, host, tun_set_up, Set
  <1>3. Goes \/ Fails
    BY DEF tun_set_up, Set, Works
  <1>4. priv' => ifname' \in Name
    BY DEF TunInv, tun_set_up, Set
  <1>5. CASE phase' = "setup"
    <2>1. Works /\ conf' = conf \cup {"up"}
      BY <1>1, <1>5 DEF tun_set_up, Set, Fails, Ignored
    <2>2. step' = 5 /\ UNCHANGED <<side, fd, ifname, priv, tables, forwarding, failed>>
      BY <1>1, <2>1 DEF tun_set_up, Set, Works, Goes, host
    <2>3. Done(4)
      BY <1>1 DEF TunInv
    <2>4. Done(4)'
      BY <2>1, <2>2, <2>3, DoneStays
    <2>5. Done(5)'
      BY <2>1, <2>4 DEF Done, ClientDone, ServerDone, BothDone, Table
    <2> QED
      BY <1>2, <1>4, <1>5, <2>2, <2>5, SetupGoesOn
  <1>6. CASE phase' # "setup"
    BY <1>1, <1>2, <1>3, <1>4, <1>6, SetupEnds
  <1> QED
    BY <1>5, <1>6

LEMMA SetDnsInv == TunInv /\ tun_set_dns => TunInv'
  <1> SUFFICES ASSUME TunInv, tun_set_dns PROVE TunInv'
    OBVIOUS
  <1>1. phase = "setup" /\ step = 6 /\ Len(Calls) = 11 /\ Calls[step] = "tun_set_dns"
    BY Sites DEF TunInv, TunTypeOK, Site, ClientSetup, ServerSetup, ClientTeardown,
       ServerTeardown, Undoing, tun_set_dns, Set
  <1>2. TunTypeOK'
    BY Lead DEF TunInv, TunTypeOK, Works, Setting, Flag, host, tun_set_dns, Set
  <1>3. Goes \/ Fails
    BY DEF tun_set_dns, Set, Works
  <1>4. priv' => ifname' \in Name
    BY DEF TunInv, tun_set_dns, Set
  <1>5. CASE phase' = "setup"
    <2>1. Works /\ conf' = conf \cup {"dns", "domain"}
      BY <1>1, <1>5 DEF tun_set_dns, Set, Fails, Ignored
    <2>2. step' = 7 /\ UNCHANGED <<side, fd, ifname, priv, tables, forwarding, failed>>
      BY <1>1, <2>1 DEF tun_set_dns, Set, Works, Goes, host
    <2>3. Done(6)
      BY <1>1 DEF TunInv
    <2>4. Done(6)'
      BY <2>1, <2>2, <2>3, DoneStays
    <2>5. Done(7)'
      BY <2>1, <2>4 DEF Done, ClientDone, ServerDone, BothDone, Table
    <2> QED
      BY <1>2, <1>4, <1>5, <2>2, <2>5, SetupGoesOn
  <1>6. CASE phase' # "setup"
    BY <1>1, <1>2, <1>3, <1>4, <1>6, SetupEnds
  <1> QED
    BY <1>5, <1>6

LEMMA ClientRulesInv == TunInv /\ tun_client_rules_add => TunInv'
  <1> SUFFICES ASSUME TunInv, tun_client_rules_add PROVE TunInv'
    OBVIOUS
  <1> USE DEF tun_client_rules_add, AddRules
  <1>1. phase = "setup" /\ step = 10 /\ Len(Calls) = 11 /\ Calls[step] = "tun_client_rules_add"
    BY Sites DEF TunInv, TunTypeOK, Site, ClientSetup, ServerSetup, ClientTeardown,
       ServerTeardown, Undoing
  <1>2. TunTypeOK'
    BY Lead DEF TunInv, TunTypeOK, Works, Setting, Flag, handle
  <1>3. CASE phase' = "setup"
    <2>1. step' = 11
      BY <1>1, <1>3 DEF Works, Fails, Goes, Ignored
    <2>2. failed \subseteq failed' /\ UNCHANGED <<side, fd, ifname, priv, conf, forwarding>>
      BY DEF Works, Failed, handle
    <2>3. Done(10) /\ ifname \in Name /\ tables \in [Name -> {"none", "old", "fresh", "both"}]
      BY <1>1 DEF TunInv, TunTypeOK, Done, ClientDone, ServerDone, BothDone
    <2>4. \/ tables' = [tables EXCEPT ![ifname] = IF @ = "none" THEN "fresh" ELSE "both"]
          \/ UNCHANGED tables /\ "tun_client_rules_add" \in failed'
      BY DEF Failed
    <2>5. BothDone(11)'
      BY <2>2, <2>3 DEF Done, ClientDone, ServerDone, BothDone
    <2>6. \A n \in {5, 7} : Table(10, n, 10) => Table(11, n, 10)'
      BY <2>2, <2>3, <2>4 DEF Table
    <2>7. Done(11)'
      BY <2>2, <2>3, <2>5, <2>6 DEF Done, ClientDone, ServerDone
    <2> QED
      BY <1>2, <1>3, <2>1, <2>2, <2>3, <2>7, SetupGoesOn
  <1>4. CASE phase' # "setup"
    <2>1. Goes \/ Fails
      BY DEF Works
    <2>2. priv' => ifname' \in Name
      BY DEF TunInv, handle
    <2> QED
      BY <1>1, <1>2, <1>4, <2>1, <2>2, SetupEnds
  <1> QED
    BY <1>3, <1>4

LEMMA ServerRulesInv == TunInv /\ tun_server_rules_add => TunInv'
  <1> SUFFICES ASSUME TunInv, tun_server_rules_add PROVE TunInv'
    OBVIOUS
  <1> USE DEF tun_server_rules_add, AddRules
  <1>1. phase = "setup" /\ step = 10 /\ Len(Calls) = 11 /\ Calls[step] = "tun_server_rules_add"
    BY Sites DEF TunInv, TunTypeOK, Site, ClientSetup, ServerSetup, ClientTeardown,
       ServerTeardown, Undoing
  <1>2. TunTypeOK'
    BY Lead DEF TunInv, TunTypeOK, Works, Setting, Flag, handle
  <1>3. CASE phase' = "setup"
    <2>1. Works /\ tables' = [tables EXCEPT ![ifname] = IF @ = "none" THEN "fresh" ELSE "both"]
      BY <1>1, <1>3 DEF Fails, Ignored
    <2>2. step' = 11 /\ UNCHANGED <<side, fd, ifname, priv, conf, forwarding, failed>>
      BY <1>1, <1>3, <2>1 DEF Works, Goes, handle
    <2>3. side = "server" /\ ifname \in Name /\ Done(10)
      <3>1. Site("tun_server_rules_add")
        BY Sites DEF TunInv, TunTypeOK
      <3>2. side = "server"
        BY <1>1, <3>1 DEF Site, ClientSetup, ServerSetup, ClientTeardown, ServerTeardown, Undoing
      <3>3. Done(10)
        BY <1>1 DEF TunInv
      <3> QED
        BY <3>2, <3>3 DEF Done, ServerDone, BothDone
    <2>4. tables'[ifname] = IF tables[ifname] = "none" THEN "fresh" ELSE "both"
      BY <2>1, <2>3 DEF TunInv, TunTypeOK
    <2> QED
      BY <1>2, <1>3, <2>2, <2>3, <2>4 DEF TunInv, Done, ServerDone, BothDone, Table
  <1>4. CASE phase' # "setup"
    <2>1. Goes \/ Fails
      BY DEF Works
    <2>2. priv' => ifname' \in Name
      BY DEF TunInv, handle
    <2> QED
      BY <1>1, <1>2, <1>4, <2>1, <2>2, SetupEnds
  <1> QED
    BY <1>3, <1>4

LEMMA ForwardingOnInv == TunInv /\ tun_ip_forwarding("forwarding_on", TRUE) => TunInv'
  <1> SUFFICES ASSUME TunInv, tun_ip_forwarding("forwarding_on", TRUE) PROVE TunInv'
    OBVIOUS
  <1> USE DEF tun_ip_forwarding
  <1>1. phase = "setup" /\ step = 9 /\ Len(Calls) = 11 /\ Calls[step] = "forwarding_on"
    BY Sites DEF TunInv, TunTypeOK, Site, ClientSetup, ServerSetup, ClientTeardown,
       ServerTeardown, Undoing
  <1>2. TunTypeOK'
    BY Lead DEF TunInv, TunTypeOK, Works, Setting, Flag, handle
  <1>3. CASE phase' = "setup"
    <2>1. Works /\ forwarding' = TRUE
      BY <1>1, <1>3 DEF Fails, Ignored
    <2>2. step' = 10 /\ UNCHANGED <<side, fd, ifname, priv, conf, tables, failed>>
      BY <1>1, <1>3, <2>1 DEF Works, Goes, handle
    <2>3. side = "server" /\ Done(9)
      <3>1. Site("forwarding_on")
        BY Sites DEF TunInv, TunTypeOK
      <3>2. side = "server"
        BY <1>1, <3>1 DEF Site, ClientSetup, ServerSetup, ClientTeardown, ServerTeardown, Undoing
      <3>3. Done(9)
        BY <1>1 DEF TunInv
      <3> QED
        BY <3>2, <3>3
    <2> QED
      BY <1>2, <1>3, <2>1, <2>2, <2>3 DEF TunInv, Done, ServerDone, BothDone, Table
  <1>4. CASE phase' # "setup"
    <2>1. Goes \/ Fails
      BY DEF Works
    <2>2. priv' => ifname' \in Name
      BY DEF TunInv, handle
    <2> QED
      BY <1>1, <1>2, <1>4, <2>1, <2>2, SetupEnds
  <1> QED
    BY <1>3, <1>4

LEMMA TunStartInv == TunInv /\ tun_start => TunInv'
  <1> SUFFICES ASSUME TunInv, tun_start PROVE TunInv'
    OBVIOUS
  <1> USE DEF tun_start
  <1>1. phase = "setup" /\ step = 11 /\ Len(Calls) = 11 /\ Calls[step] = "tun_start"
    BY Sites DEF TunInv, TunTypeOK, Site, ClientSetup, ServerSetup, ClientTeardown,
       ServerTeardown, Undoing
  <1>2. TunTypeOK'
    BY Lead DEF TunInv, TunTypeOK, Works, Setting, Flag, handle, host
  <1>3. UNCHANGED <<side, fd, ifname, priv, conf, tables, forwarding>> /\ failed \subseteq failed'
    BY DEF Works, Failed, handle, host
  <1>4. (phase' = "ready" /\ UNCHANGED failed) \/ (phase' = "undo" /\ step' = 1) \/ phase' = "exit"
    BY <1>1 DEF Works, Goes, Fails, Ignored
  <1>5. Done(11) /\ (priv' => ifname' \in Name)
    BY <1>1, <1>3 DEF TunInv
  <1>6. Done(12)'
    <2>1. Done(11)'
      BY <1>3, <1>5, DoneStays
    <2> QED
      BY <2>1 DEF Done, ClientDone, ServerDone, BothDone, Table
  <1> QED
    BY <1>2, <1>4, <1>5, <1>6 DEF TunInv

LEMMA AddRouteInv == TunInv /\ tun_add_route => TunInv'
  <1> SUFFICES ASSUME TunInv, tun_add_route PROVE TunInv'
    OBVIOUS
  <1> USE DEF tun_add_route, Set
  <1> PICK r \in {"low", "high", "net"} : Set(r, {}, {r})
    OBVIOUS
  <1>1. Site(r) /\ Calls[step] = r
    BY Sites DEF TunInv, TunTypeOK
  <1>2. /\ phase = "setup" /\ Len(Calls) = 11 /\ r \notin Ignored
        /\ side = "client" => \/ step = 7 /\ r = "low"
                              \/ step = 8 /\ r = "high"
                              \/ step = 9 /\ r = "net"
        /\ side = "server" => step = 8 /\ r = "net"
    BY <1>1 DEF Site, ClientSetup, ServerSetup, ClientTeardown, ServerTeardown, Undoing, Ignored
  <1>3. TunTypeOK'
    BY Lead DEF TunInv, TunTypeOK, Works, Setting, Flag, host
  <1>4. CASE phase' = "setup"
    <2>1. Works /\ conf' = conf \cup {r}
      BY <1>1, <1>2, <1>4 DEF Fails
    <2>2. step' = step + 1 /\ UNCHANGED <<side, fd, ifname, priv, tables, forwarding, failed>>
      BY <1>2, <1>4, <2>1 DEF Works, Goes, host
    <2> HIDE DEF tun_add_route, Set
    <2>3. Done(step) /\ step \in {7, 8, 9} /\ (priv => ifname \in Name)
      BY <1>2 DEF TunInv, TunTypeOK
    <2>4. /\ fd = "open" /\ priv /\ ifname \in Name /\ {"addr", "mtu", "up", "dns", "domain"} \subseteq conf
          /\ "mask" \in conf \/ "SIOCSIFNETMASK" \in failed
      BY <2>3 DEF Done, ClientDone, ServerDone, BothDone
    <2>5. BothDone(step)'
      BY <2>1, <2>2, <2>4 DEF BothDone
    <2>6. CASE side = "client"
      <3>1. Table(step, 5, 10) /\ (step > 7 => "low" \in conf) /\ (step > 8 => "high" \in conf)
        BY <2>3, <2>6 DEF Done, ClientDone
      <3>2. Table(step, 5, 10)'
        BY <2>2, <2>3, <3>1 DEF Table
      <3>3. ClientDone(step)'
        BY <1>2, <2>1, <2>2, <2>5, <2>6, <3>1, <3>2 DEF ClientDone
      <3>4. Done(step)'
        BY <2>2, <2>6, <3>3 DEF Done
      <3> QED
        BY <1>3, <1>4, <2>2, <2>3, <3>4, SetupGoesOn
    <2>7. CASE side = "server"
      <3>1. step = 8 /\ r = "net" /\ Table(step, 7, 10)
        BY <1>2, <2>3, <2>7 DEF Done, ServerDone
      <3>2. Table(step, 7, 10)'
        BY <2>2, <3>1 DEF Table
      <3>3. ServerDone(step)'
        BY <2>1, <2>2, <2>5, <3>1, <3>2 DEF ServerDone
      <3>4. Done(step)'
        BY <2>2, <2>7, <3>3 DEF Done
      <3> QED
        BY <1>3, <1>4, <2>2, <2>3, <3>4, SetupGoesOn
    <2> QED
      BY <2>6, <2>7 DEF TunInv, TunTypeOK
  <1>5. CASE phase' # "setup"
    BY <1>1, <1>2, <1>3, <1>5 DEF TunInv, TunTypeOK, Works, Failed, Goes, Fails, host
  <1> QED
    BY <1>4, <1>5

(* The calls that take it down, some of which the setup makes too. *)
LEMMA FlushRoutesInv == TunInv /\ tun_flush_routes => TunInv'
  <1> SUFFICES ASSUME TunInv, tun_flush_routes PROVE TunInv'
    OBVIOUS
  <1> USE DEF tun_flush_routes, Unset
  <1>1. phase \in {"undo", "teardown"} /\ step = 1
    BY Sites DEF TunInv, TunTypeOK, Site, ClientSetup, ServerSetup, ClientTeardown,
       ServerTeardown, Undoing
  <1>2. TunTypeOK'
    BY Lead DEF TunInv, TunTypeOK, Works, Setting, Flag, host
  <1>3. phase' = phase /\ step' = 2
    <2>1. Goes
      BY <1>1 DEF Works, Fails
    <2>2. step < Len(Calls)
      BY Sites DEF TunInv, TunTypeOK
    <2> QED
      BY <1>1, <2>1, <2>2, GoesOn
  <1> QED
    BY <1>1, <1>2, <1>3 DEF TunInv, host

LEMMA ClearDnsInv == TunInv /\ tun_clear_dns => TunInv'
  <1> SUFFICES ASSUME TunInv, tun_clear_dns PROVE TunInv'
    OBVIOUS
  <1>1. Site("tun_clear_dns") /\ Calls[step] = "tun_clear_dns"
    BY Sites DEF TunInv, TunTypeOK, tun_clear_dns, Unset
  <1>2. /\ phase \in {"undo", "teardown"} => step = 2
        /\ phase \notin {"undo", "teardown"} =>
              phase = "setup" /\ side = "server" /\ step = 5 /\ Len(Calls) = 11
    BY <1>1 DEF Site, ClientSetup, ServerSetup, ClientTeardown, ServerTeardown, Undoing
  <1>3. TunTypeOK'
    BY Lead DEF TunInv, TunTypeOK, tun_clear_dns, Unset, Works, Setting, Flag, host
  <1>4. phase' = phase /\ step' = step + 1
    <2>1. Goes
      BY <1>1, <1>2 DEF tun_clear_dns, Unset, Works, Fails, Ignored
    <2>2. step < Len(Calls)
      BY Sites DEF TunInv, TunTypeOK, tun_clear_dns, Unset
    <2> QED
      BY <2>1, <2>2, GoesOn
  <1>5. CASE phase \in {"undo", "teardown"}
    BY <1>2, <1>3, <1>4, <1>5 DEF TunInv, tun_clear_dns, Unset, host
  <1>6. CASE phase \notin {"undo", "teardown"}
    <2>1. \A x \in {"addr", "mask", "mtu", "up"} : x \in conf => x \in conf'
      BY DEF tun_clear_dns, Unset
    <2>2. failed \subseteq failed'
      BY DEF tun_clear_dns, Unset, Works, Failed
    <2>3. UNCHANGED <<side, fd, ifname, priv>>
      BY DEF tun_clear_dns, Unset
    <2>4. Done(5)
      BY <1>2, <1>6 DEF TunInv
    <2>5. Done(6)'
      BY <1>2, <1>6, <2>1, <2>2, <2>3, <2>4 DEF Done, ClientDone, ServerDone, BothDone, Table
    <2> QED
      BY <1>2, <1>3, <1>4, <1>6, <2>3, <2>5 DEF TunInv
  <1> QED
    BY <1>5, <1>6

LEMMA SetDownInv == TunInv /\ tun_set_down => TunInv'
  <1> SUFFICES ASSUME TunInv, tun_set_down PROVE TunInv'
    OBVIOUS
  <1> USE DEF tun_set_down
  <1>1. phase = "undo" /\ step = 4 /\ Len(Calls) = 5
    BY Sites DEF TunInv, TunTypeOK, Site, ClientSetup, ServerSetup, ClientTeardown,
       ServerTeardown, Undoing
  <1>2. TunTypeOK'
    BY Lead DEF TunInv, TunTypeOK, Works, Setting, Flag, host
  <1>3. phase' = "undo" /\ step' = 5 /\ failed \subseteq failed'
    BY <1>1 DEF Works, Goes, Fails, Failed
  <1> QED
    BY <1>1, <1>2, <1>3 DEF TunInv, Cleared, host

LEMMA RulesClearInv == TunInv /\ tun_rules_clear => TunInv'
  <1> SUFFICES ASSUME TunInv, tun_rules_clear PROVE TunInv'
    OBVIOUS
  <1>1. Site("tun_rules_clear") /\ Calls[step] = "tun_rules_clear"
    BY Sites DEF TunInv, TunTypeOK, tun_rules_clear
  <1>2. /\ phase \in {"undo", "teardown"} => step = 3
        /\ phase \notin {"undo", "teardown"} => phase = "setup" /\ Len(Calls) = 11
        /\ phase = "setup" /\ side = "client" => step = 5
        /\ phase = "setup" /\ side = "server" => step = 7
    BY <1>1 DEF Site, ClientSetup, ServerSetup, ClientTeardown, ServerTeardown, Undoing
  <1>3. TunTypeOK'
    BY Lead DEF TunInv, tun_rules_clear, TunTypeOK, Works, Flag, handle, Name
  <1>4. phase' = phase /\ step' = step + 1
    <2>1. Goes
      BY <1>1, <1>2 DEF tun_rules_clear, Works, Fails, Ignored
    <2>2. step < Len(Calls)
      BY Sites DEF TunInv, TunTypeOK, tun_rules_clear
    <2> QED
      BY <2>1, <2>2, GoesOn
  <1>5. (ifname \in Name /\ tables'[ifname] = "none") \/ "tun_rules_clear" \in failed'
    BY DEF TunInv, TunTypeOK, tun_rules_clear, Failed
  <1>6. failed \subseteq failed' /\ UNCHANGED <<side, fd, ifname, priv, conf, forwarding>>
    BY DEF tun_rules_clear, Works, Failed, handle
  <1>7. CASE phase \in {"undo", "teardown"}
    BY <1>2, <1>3, <1>4, <1>5, <1>6, <1>7 DEF TunInv, Cleared
  <1>8. CASE phase \notin {"undo", "teardown"}
    <2>1. Done(step) /\ phase = "setup" /\ (priv => ifname \in Name)
      BY <1>2, <1>8 DEF TunInv
    <2>2. CASE side = "client"
      <3>1. step = 5 /\ step' = 6
        BY <1>2, <1>4, <2>1, <2>2
      <3>2. Done(6)'
        BY <1>5, <1>6, <2>1, <2>2, <3>1 DEF Done, ClientDone, BothDone, Table
      <3> QED
        BY <1>3, <1>4, <1>6, <2>1, <3>1, <3>2, SetupGoesOn
    <2>3. CASE side = "server"
      <3>1. step = 7 /\ step' = 8
        BY <1>2, <1>4, <2>1, <2>3
      <3>2. Done(8)'
        BY <1>5, <1>6, <2>1, <2>3, <3>1 DEF Done, ServerDone, BothDone, Table
      <3> QED
        BY <1>3, <1>4, <1>6, <2>1, <3>1, <3>2, SetupGoesOn
    <2> QED
      BY <2>2, <2>3 DEF TunInv, TunTypeOK
  <1> QED
    BY <1>7, <1>8

LEMMA IptablesResetInv == TunInv /\ iptables_reset => TunInv'
  <1> SUFFICES ASSUME TunInv, iptables_reset PROVE TunInv'
    OBVIOUS
  <1> USE DEF iptables_reset
  <1>1. phase = "teardown" /\ side = "server" /\ step = 4 /\ Len(Calls) = 6
    BY Sites DEF TunInv, TunTypeOK, Site, ClientSetup, ServerSetup, ClientTeardown,
       ServerTeardown, Undoing
  <1>2. TunTypeOK'
    BY Lead DEF TunInv, TunTypeOK, Works, Flag, handle
  <1>3. phase' = "teardown" /\ side' = "server"
    BY <1>1 DEF Works, Goes, Fails
  <1> QED
    BY <1>1, <1>2, <1>3 DEF TunInv, handle

LEMMA ForwardingOffInv == TunInv /\ tun_ip_forwarding("forwarding_off", FALSE) => TunInv'
  <1> SUFFICES ASSUME TunInv, tun_ip_forwarding("forwarding_off", FALSE) PROVE TunInv'
    OBVIOUS
  <1> USE DEF tun_ip_forwarding
  <1>1. phase = "teardown" /\ side = "server" /\ step = 5 /\ Len(Calls) = 6
    BY Sites DEF TunInv, TunTypeOK, Site, ClientSetup, ServerSetup, ClientTeardown,
       ServerTeardown, Undoing
  <1>2. TunTypeOK'
    BY Lead DEF TunInv, TunTypeOK, Works, Flag, handle
  <1>3. phase' = "teardown" /\ side' = "server"
    BY <1>1 DEF Works, Goes, Fails
  <1> QED
    BY <1>1, <1>2, <1>3 DEF TunInv, handle

LEMMA TunDestroyInv == TunInv /\ tun_destroy => TunInv'
  <1> SUFFICES ASSUME TunInv, tun_destroy PROVE TunInv'
    OBVIOUS
  <1> USE DEF tun_destroy
  <1>1. phase \in {"undo", "teardown"} /\ step \in {4, 5, 6} /\ step = Len(Calls)
    <2>1. Site("tun_destroy")
      BY Sites DEF TunInv, TunTypeOK
    <2> QED
      BY <2>1 DEF Site, ClientSetup, ServerSetup, ClientTeardown, ServerTeardown, Undoing
  <1>2. TunTypeOK'
    BY Lead DEF TunInv, TunTypeOK, Works, Flag, host
  <1>3. phase' = "over" /\ UNCHANGED failed
    BY <1>1 DEF Works, Goes
  <1> QED
    BY <1>1, <1>2, <1>3 DEF TunInv, Cleared, host


(* A new session, the end of one, and the rest of the host. *)
LEMMA CreateInv == TunInv /\ tun_create => TunInv'
  <1> SUFFICES ASSUME TunInv, tun_create PROVE TunInv'
    OBVIOUS
  <1>1. sessions' \in 0 .. MaxSessions
    BY TunAssumption DEF TunInv, TunTypeOK, tun_create
  <1>2. tables' \in [Name -> {"none", "old", "fresh", "both"}]
    BY DEF tun_create
  <1>3. CASE phase' = "setup" /\ step' = 1
    <2>1. Len(Calls') = 11
      <3>1. side' \in {"client", "server"} /\ Calls' = Setup[side']
        BY <1>3 DEF TunInv, TunTypeOK, tun_create, Calls
      <3> QED
        BY <3>1 DEF Setup
    <2>2. TunTypeOK'
      <3>1. step' \in 0 .. Len(Calls')
        BY <1>3, <2>1
      <3>2. priv' \in BOOLEAN /\ forwarding' \in BOOLEAN
        BY Zenon DEF TunInv, TunTypeOK, tun_create
      <3>3. fd' \in {"-1", "open", "closed"} /\ ifname' \in Name \cup {NoName} /\ sts_flags' \subseteq Flag
        BY DEF tun_create
      <3>4. /\ side' \in {"client", "server"} /\ mask' \in Mask /\ conf' \subseteq Setting
            /\ others' \subseteq Name
        BY DEF TunInv, TunTypeOK, tun_create
      <3> QED
        BY <1>1, <1>2, <1>3, <3>1, <3>2, <3>3, <3>4 DEF TunTypeOK
    <2> QED
      BY <1>3, <2>2 DEF TunInv, tun_create, Done, ClientDone, ServerDone, BothDone, Table
  <1>4. CASE UNCHANGED place
    <2>1. phase' = "over" /\ Calls' = Calls /\ UNCHANGED step
      BY <1>4 DEF tun_create, place, Calls
    <2>2. TunTypeOK'
      BY <1>1, <1>2, <2>1 DEF TunInv, TunTypeOK, tun_create, Flag
    <2> QED
      BY <2>1, <2>2 DEF TunInv, tun_create, Cleared
  <1> QED
    BY <1>3, <1>4 DEF tun_create

LEMMA StopInv == TunInv /\ Stop => TunInv'
  <1> SUFFICES ASSUME TunInv, Stop PROVE TunInv'
    OBVIOUS
  <1>1. \/ side' = "client" /\ Calls' = Teardown.client
        \/ side' = "server" /\ Calls' = Teardown.server
    BY DEF TunInv, TunTypeOK, Stop, Calls, Teardown
  <1>2. Len(Calls') \in {4, 6}
    <2>1. Len(Teardown.client) = 4
      BY DEF Teardown
    <2>2. Len(Teardown.server) = 6
      BY DEF Teardown
    <2> QED
      BY <1>1, <2>1, <2>2
  <1>3. TunTypeOK'
    <2>1. step' \in 0 .. Len(Calls')
      BY <1>2 DEF Stop
    <2> QED
      BY <2>1 DEF TunInv, TunTypeOK, Stop, handle, host
  <1> QED
    BY <1>3 DEF TunInv, Stop, handle

LEMMA EndsInv == TunInv /\ ProcessEnds => TunInv'
  <1> SUFFICES ASSUME TunInv, ProcessEnds PROVE TunInv'
    OBVIOUS
  <1>1. Len(Calls') = 0
    BY DEF ProcessEnds, Calls
  <1>2. TunTypeOK'
    <2>1. step' \in 0 .. Len(Calls')
      BY <1>1 DEF ProcessEnds
    <2>2. priv' \in BOOLEAN
      BY Zenon DEF ProcessEnds
    <2> QED
      BY <2>1, <2>2 DEF TunInv, TunTypeOK, ProcessEnds, host
  <1> QED
    BY <1>2 DEF TunInv, ProcessEnds

LEMMA OthersInv == TunInv /\ (OtherPrograms \/ UNCHANGED vars) => TunInv'
  <1> SUFFICES ASSUME TunInv, OtherPrograms \/ UNCHANGED vars PROVE TunInv'
    OBVIOUS
  <1>1. UNCHANGED <<side, place, sessions, handle, mask, conf, host, failed>>
    BY DEF OtherPrograms, vars
  <1>2. Calls' = Calls
    BY <1>1 DEF Calls, place
  <1>3. others' \subseteq Name
    BY DEF OtherPrograms, vars, TunInv, TunTypeOK
  <1>4. TunTypeOK'
    BY <1>1, <1>2, <1>3 DEF TunInv, TunTypeOK, place, handle, host
  <1> QED
    BY <1>1, <1>4 DEF TunInv, Done, ClientDone, ServerDone, BothDone, Table, Cleared, place,
       handle, host

LEMMA TunInitInv == Init => TunInv
  <1> SUFFICES ASSUME Init PROVE TunInv
    OBVIOUS
  <1>1. Len(Calls) = 0
    BY DEF Init, Calls
  <1>2. TunTypeOK
    <2>1. step \in 0 .. Len(Calls) /\ sessions \in 0 .. MaxSessions
      BY <1>1, TunAssumption DEF Init
    <2>2. priv \in BOOLEAN /\ forwarding \in BOOLEAN
      BY Zenon DEF Init
    <2>3. tables \in [Name -> {"none", "old", "fresh", "both"}]
      BY DEF Init
    <2> QED
      BY <2>1, <2>2, <2>3 DEF Init, TunTypeOK
  <1> QED
    BY <1>2 DEF Init, TunInv, Cleared

LEMMA TunNextInv == TunInv /\ [Next]_vars => TunInv'
  BY CreateInv, TunOpenInv, SetAddrInv, SetMtuInv, SetUpInv, SetDownInv, SetDnsInv, ClearDnsInv,
     AddRouteInv, FlushRoutesInv, ClientRulesInv, ServerRulesInv, RulesClearInv, IptablesResetInv,
     ForwardingOnInv, ForwardingOffInv, TunStartInv, TunDestroyInv, StopInv, EndsInv, OthersInv,
     Zenon DEF Next

LEMMA TunAlways == HostSpec => []TunInv
  <1>1. HostInit => TunInv
    BY TunInitInv DEF HostInit
  <1>2. [HostNext]_allVars => [Next]_vars
    BY Zenon DEF HostNext, allVars
  <1> QED
    BY <1>1, <1>2, TunNextInv, PTL DEF HostSpec

(* The handle and what the host keeps for it have their types. *)
THEOREM TunTypes == HostSpec => []TunTypeOK
  BY TunAlways, PTL DEF TunInv

(* A device that is put to use is configured, however often and wherever      *)
(* sessions before it were broken off.                                        *)
THEOREM ReadyIsConfigured == HostSpec => []ReadyMeansConfigured
  <1>1. TunInv => ReadyMeansConfigured
    <2> SUFFICES ASSUME TunInv, phase = "ready" PROVE ReadyMeansConfigured
      BY DEF ReadyMeansConfigured
    <2>1. Done(12)
      BY DEF TunInv
    <2>2. \A f \in Flag \ {"MASK_SET"} : Shows[f] \subseteq conf
      BY <2>1 DEF Done, ClientDone, ServerDone, BothDone, Flag, Shows
    <2> QED
      BY <2>1, <2>2 DEF TunInv, TunTypeOK, ReadyMeansConfigured, Done, ClientDone, ServerDone,
         BothDone, Table
  <1> QED
    BY <1>1, TunAlways, PTL

(* When the client is done with its device nothing of it is left on the host. *)
THEOREM NothingIsLeft == HostSpec => []NothingLeft
  <1>1. TunInv => NothingLeft
    BY DEF TunInv, NothingLeft, Cleared
  <1> QED
    BY <1>1, TunAlways, PTL
-----------------------------------------------------------------------------
(* The interface to the outside *)

Event == [type : {"route", "link"}, ifindex : Nat, up : BOOLEAN]

NetTypes ==
    /\ routes \in Seq(Candidate)
    /\ online \subseteq DOMAIN Link
    /\ changes \in 0 .. MaxChanges
    /\ events \in Seq(Event)
    /\ caller \in {"detect_default_wan", "monitor_wan_changes"}
    /\ npc \in {"query", "scan", "addr", "link", "listen", "done", "failed"}
    /\ msgs \in Seq(Candidate)
    /\ undisturbed \in BOOLEAN
    /\ faults \in BOOLEAN

(* After d messages of the dump: what is left of it, and what was found. *)
Scanned(d) ==
    /\ Len(msgs) = Len(routes) - d
    /\ \A i \in 1 .. Len(msgs) : msgs[i] = routes[d + i]
    /\ \/ best = Net!NoRoute /\ \A i \in 1 .. d : ~Net!Eligible(routes[i])
       \/ /\ \E i \in 1 .. d : best = routes[i] /\ Net!Eligible(routes[i])
          /\ \A i \in 1 .. d : Net!Eligible(routes[i]) => best.metric <= routes[i].metric

ScanInv ==
    npc = "scan" /\ undisturbed /\ ~faults => \E d \in 0 .. Len(routes) : Scanned(d)

RoutePending == \E i \in 1 .. Len(events) : events[i].type = "route"
DownPending(x) == \E i \in 1 .. Len(events) : events[i].ifindex = x /\ ~events[i].up

(* A route that is there through a link that is online, or about which there  *)
(* is a notification the monitor has yet to read.                             *)
Backed(x) ==
    \/ \E i \in 1 .. Len(routes) :
          routes[i].oif = x.oif /\ routes[i].gateway = x.gateway /\ routes[i].oif \in online
    \/ RoutePending
    \/ DownPending(x.oif)

TrackInv ==
    caller = "monitor_wan_changes" =>
        /\ npc = "scan" =>
              \A i \in 1 .. Len(msgs) :
                  RoutePending \/ \E k \in 1 .. Len(routes) : msgs[i] = routes[k]
        /\ npc = "scan" /\ best # Net!NoRoute => Backed(best)
        /\ npc \in {"addr", "link", "listen"} /\ current # Net!NoRoute => Backed(current)

NetInv == NetTypes /\ ScanInv /\ TrackInv

(* What the steps that change routes or links do to them. *)
LEMMA RoutesStayTyped ==
  ASSUME NetTypes, Net!RouteChanges
  PROVE  routes' \in Seq(Candidate)
  <1>1. routes \in Seq(Candidate) /\ Len(routes) \in Nat
    BY DEF NetTypes
  <1>2. ASSUME NEW r \in Candidate \ Net!RouteSet, routes' \in {Append(routes, r), <<r>> \o routes}
        PROVE  routes' \in Seq(Candidate)
    <2>1. Append(routes, r) \in Seq(Candidate)
      BY <1>1
    <2>2. <<r>> \in Seq(Candidate)
      OBVIOUS
    <2>3. <<r>> \o routes \in Seq(Candidate)
      BY <1>1, <2>2
    <2> QED
      BY <1>2, <2>1, <2>3
  <1>3. ASSUME NEW i \in DOMAIN routes,
               routes' = [k \in 1 .. Len(routes) - 1 |-> IF k < i THEN routes[k] ELSE routes[k + 1]]
        PROVE  routes' \in Seq(Candidate)
    <2>1. Len(routes) - 1 \in Nat
      BY <1>1, <1>3
    <2>2. \A k \in 1 .. Len(routes) - 1 : routes[k] \in Candidate /\ routes[k + 1] \in Candidate
      BY <1>1
    <2>3. routes' \in [1 .. Len(routes) - 1 -> Candidate]
      BY <1>3, <2>2
    <2> QED
      BY <2>1, <2>3
  <1> QED
    BY <1>2, <1>3 DEF Net!RouteChanges

LEMMA Notified ==
  ASSUME NetTypes, NEW e \in Event, Net!Notify(e)
  PROVE  /\ events' \in Seq(Event)
         /\ Len(events') >= Len(events)
         /\ \A i \in 1 .. Len(events) : events'[i] = events[i]
         /\ caller = "monitor_wan_changes" =>
               Len(events') = Len(events) + 1 /\ events'[Len(events')] = e
  <1>1. events \in Seq(Event) /\ Len(events) \in Nat
    BY DEF NetTypes
  <1>2. CASE caller = "monitor_wan_changes"
    BY <1>1, <1>2 DEF Net!Notify
  <1>3. CASE caller # "monitor_wan_changes"
    BY <1>1, <1>3 DEF Net!Notify
  <1> QED
    BY <1>2, <1>3

LEMMA RouteNotified ==
  ASSUME NetTypes, Net!RouteChanges
  PROVE  events' \in Seq(Event) /\ (caller = "monitor_wan_changes" => RoutePending')
  <1> DEFINE e == [type |-> "route", ifindex |-> 0, up |-> FALSE]
  <1>1. e \in Event
    BY DEF Event
  <1>2. Net!Notify(e)
    BY DEF Net!RouteChanges
  <1> HIDE DEF e
  <1>3. events' \in Seq(Event)
    BY <1>1, <1>2, Notified
  <1>4. ASSUME caller = "monitor_wan_changes" PROVE RoutePending'
    <2>1. Len(events') = Len(events) + 1 /\ events'[Len(events')] = e /\ Len(events) \in Nat
      BY <1>1, <1>2, <1>4, Notified DEF NetTypes
    <2>2. e.type = "route"
      BY DEF e
    <2> QED
      BY <2>1, <2>2 DEF RoutePending
  <1> QED
    BY <1>3, <1>4

LEMMA LinkNotified ==
  ASSUME NetTypes, NEW i \in DOMAIN Link, Net!LinkChanges(i)
  PROVE  /\ events' \in Seq(Event)
         /\ Len(events) \in Nat /\ Len(events') \in Nat /\ Len(events') >= Len(events)
         /\ \A k \in 1 .. Len(events) : events'[k] = events[k]
         /\ caller = "monitor_wan_changes" /\ i \in online => DownPending(i)'
  <1> DEFINE e == [type |-> "link", ifindex |-> i, up |-> i \notin online]
  <1>1. e \in Event
    <2>1. i \in Nat
      BY HostAssumption
    <2> QED
      BY <2>1 DEF Event
  <1>2. Net!Notify(e)
    BY DEF Net!LinkChanges
  <1>3. e.ifindex = i /\ (i \in online => ~e.up)
    OBVIOUS
  <1> HIDE DEF e
  <1>4. Len(events) \in Nat /\ Len(events') \in Nat
    BY <1>1, <1>2, Notified DEF NetTypes
  <1>5. ASSUME caller = "monitor_wan_changes", i \in online PROVE DownPending(i)'
    <2>1. Len(events') = Len(events) + 1 /\ events'[Len(events')] = e
      BY <1>1, <1>2, <1>5, Notified
    <2>2. Len(events') \in 1 .. Len(events')
      BY <1>4, <2>1
    <2> QED
      BY <1>3, <1>5, <2>1, <2>2 DEF DownPending
  <1> QED
    BY <1>1, <1>2, <1>4, <1>5, Notified

LEMMA NetTypesStep ==
  ASSUME NetTypes, Net!Next
  PROVE  NetTypes'
  <1> USE DEF NetTypes, Net!hostVars, Net!addrVars
  <1>1. CASE Net!RouteChanges
    <2>1. changes' \in 0 .. MaxChanges
      BY <1>1, HostAssumption DEF Net!RouteChanges, Net!Change
    <2>2. undisturbed' \in BOOLEAN
      BY <1>1, Zenon DEF Net!RouteChanges, Net!Change
    <2> QED
      BY <1>1, <2>1, <2>2, RoutesStayTyped, RouteNotified DEF Net!RouteChanges, Net!Change
  <1>2. ASSUME NEW i \in Net!Iface, Net!LinkChanges(i) PROVE NetTypes'
    <2>1. changes' \in 0 .. MaxChanges
      BY <1>2, HostAssumption DEF Net!LinkChanges, Net!Change
    <2>2. undisturbed' \in BOOLEAN
      BY <1>2, Zenon DEF Net!LinkChanges, Net!Change
    <2>3. online' \subseteq DOMAIN Link
      BY <1>2 DEF Net!LinkChanges, Net!Iface
    <2>4. events' \in Seq(Event)
      BY <1>2, LinkNotified DEF Net!Iface
    <2> QED
      BY <1>2, <2>1, <2>2, <2>3, <2>4 DEF Net!LinkChanges, Net!Change
  <1>3. CASE Net!Dump
    <2>1. undisturbed' \in BOOLEAN
      BY <1>3, Zenon DEF Net!Dump
    <2> QED
      BY <1>3, <2>1 DEF Net!Dump, Net!Call
  <1>4. ASSUME NEW answer \in BOOLEAN, Net!Scan(answer) PROVE NetTypes'
    <2>1. faults' \in BOOLEAN
      BY <1>4, Zenon DEF Net!Scan
    <2>2. msgs' \in Seq(Candidate)
      BY <1>4 DEF Net!Scan
    <2> QED
      BY <1>4, <2>1, <2>2 DEF Net!Scan
  <1>5. ASSUME NEW dump \in Addresses, Net!get_netlink_addr_info(dump) PROVE NetTypes'
    BY <1>5 DEF Net!get_netlink_addr_info
  <1>6. CASE Net!DetectRoute
    BY <1>6 DEF Net!DetectRoute
  <1>7. CASE Net!DetectDone
    BY <1>7 DEF Net!DetectDone, Net!Call
  <1>8. CASE Net!DetectFails
    <2>1. faults' \in BOOLEAN
      BY <1>8, Zenon DEF Net!DetectFails, Net!Fails
    <2> QED
      BY <1>8, <2>1 DEF Net!DetectFails, Net!Fails, Net!Call
  <1>9. CASE Net!MonitorRoute
    BY <1>9 DEF Net!MonitorRoute
  <1>10. CASE Net!MonitorLink
    BY <1>10 DEF Net!MonitorLink, Net!Call
  <1>11. CASE Net!process_netlink_event
    <2>1. events' \in Seq(Event)
      BY <1>11 DEF Net!process_netlink_event
    <2> QED
      BY <1>11, <2>1 DEF Net!process_netlink_event
  <1>12. CASE Net!MonitorFails
    <2>1. faults' \in BOOLEAN
      BY <1>12, Zenon DEF Net!MonitorFails
    <2> QED
      BY <1>12, <2>1 DEF Net!MonitorFails
  <1> QED
    BY <1>1, <1>2, <1>3, <1>4, <1>5, <1>6, <1>7, <1>8, <1>9, <1>10, <1>11, <1>12 DEF Net!Next

(* The scan: a step that leaves the routes and links alone. *)
LEMMA ScanningStep ==
  ASSUME NetTypes, ScanInv, NEW answer \in BOOLEAN, Net!Scan(answer), undisturbed', ~faults'
  PROVE  \E d \in 0 .. Len(routes') : Scanned(d)'
  <1>1. /\ npc = "scan" /\ undisturbed /\ ~faults /\ answer
        /\ UNCHANGED <<routes, online>>
        /\ msgs # <<>> /\ msgs' = Tail(msgs)
    BY DEF Net!Scan, Net!hostVars
  <1>2. PICK d \in 0 .. Len(routes) : Scanned(d)
    BY <1>1 DEF ScanInv
  <1>3. /\ Len(msgs) \in Nat \ {0} /\ Len(routes) \in Nat /\ d + 1 \in 1 .. Len(routes)
        /\ Len(msgs') = Len(msgs) - 1
        /\ \A i \in 1 .. Len(msgs') : msgs'[i] = msgs[i + 1]
        /\ Head(msgs) = msgs[1]
    BY <1>1, <1>2 DEF NetTypes, Scanned
  <1> DEFINE r == routes[d + 1]
  <1>4. r = Head(msgs) /\ r \in Candidate
    BY <1>2, <1>3 DEF Scanned, NetTypes
  <1>5. r.oif \in Nat /\ r.gateway \in Nat /\ r.metric \in 0 .. UINT32_MAX /\ UINT32_MAX \in Nat
    BY <1>4, HostAssumption
  <1>6. /\ \A x \in online : x # 0 /\ x \in Nat
        /\ \A i \in 1 .. Len(routes) : routes[i].metric \in Int
    <2>1. \A i \in 1 .. Len(routes) : routes[i] \in Candidate
      BY DEF NetTypes
    <2> QED
      BY <2>1, HostAssumption DEF NetTypes
  <1>7. /\ Len(msgs') = Len(routes') - (d + 1)
        /\ \A i \in 1 .. Len(msgs') : msgs'[i] = routes'[d + 1 + i]
    <2>1. Len(msgs') = Len(routes') - (d + 1)
      BY <1>1, <1>2, <1>3 DEF Scanned
    <2>2. ASSUME NEW i \in 1 .. Len(msgs') PROVE msgs'[i] = routes'[d + 1 + i]
      <3>1. i + 1 \in 1 .. Len(msgs) /\ d + (i + 1) = d + 1 + i
        BY <1>3
      <3> QED
        BY <1>1, <1>2, <1>3, <3>1 DEF Scanned
    <2> QED
      BY <2>1, <2>2
  <1>8. \A x : Net!Eligible(x)' <=> Net!Eligible(x)
    BY <1>1 DEF Net!Eligible
  <1> HIDE DEF r
  <1>9. best = Net!NoRoute \/ best.metric \in Int
    BY <1>2, <1>6 DEF Scanned
  <1>10. Net!Eligible(r) <=> ~Net!Skipped(r, answer) /\ r.oif > 0 /\ r.gateway # 0 /\ r.oif \in online
    BY <1>1, <1>5, <1>6 DEF Net!Eligible, Net!Skipped
  <1>11. best' = IF Net!Eligible(r) /\ r.metric <= best.metric THEN r ELSE best
    BY <1>4, <1>10 DEF Net!Scan, Net!Better, Net!is_link_online
  <1>12. Net!NoRoute.metric = UINT32_MAX
    BY DEF Net!NoRoute
  <1>13. r = routes[d + 1]
    BY DEF r
  <1>14. \/ best' = Net!NoRoute /\ \A i \in 1 .. d + 1 : ~Net!Eligible(routes[i])
         \/ /\ \E i \in 1 .. d + 1 : best' = routes[i] /\ Net!Eligible(routes[i])
            /\ \A i \in 1 .. d + 1 : Net!Eligible(routes[i]) => best'.metric <= routes[i].metric
    <2>1. \A i \in 1 .. d + 1 : i \in 1 .. d \/ i = d + 1
      BY <1>3
    <2>2. 1 .. d \subseteq 1 .. d + 1 /\ d + 1 \in 1 .. d + 1 /\ 1 .. d \subseteq 1 .. Len(routes)
      BY <1>2, <1>3
    <2>3. CASE ~Net!Eligible(r)
      <3>1. best' = best
        BY <1>11, <2>3
      <3> QED
        BY <1>2, <1>13, <2>1, <2>2, <2>3, <3>1 DEF Scanned
    <2>4. CASE Net!Eligible(r) /\ best = Net!NoRoute /\ \A i \in 1 .. d : ~Net!Eligible(routes[i])
      <3>1. best' = r
        BY <1>5, <1>11, <1>12, <2>4
      <3> QED
        BY <1>5, <1>13, <2>1, <2>2, <2>4, <3>1
    <2>5. CASE /\ Net!Eligible(r)
               /\ \E i \in 1 .. d : best = routes[i] /\ Net!Eligible(routes[i])
               /\ \A i \in 1 .. d : Net!Eligible(routes[i]) => best.metric <= routes[i].metric
      <3>1. best.metric \in Int
        BY <1>6, <2>2, <2>5
      <3>2. CASE r.metric <= best.metric
        <4>1. best' = r
          BY <1>11, <2>5, <3>2
        <4>2. ASSUME NEW i \in 1 .. d + 1, Net!Eligible(routes[i]) PROVE r.metric <= routes[i].metric
          <5>1. routes[i].metric \in Int
            BY <1>6, <2>1, <2>2, <1>3
          <5>2. CASE i = d + 1
            BY <1>5, <1>13, <5>1, <5>2
          <5>3. CASE i \in 1 .. d
            <6>1. best.metric <= routes[i].metric
              BY <2>5, <4>2, <5>3
            <6> QED
              BY <1>5, <3>1, <3>2, <5>1, <6>1
          <5> QED
            BY <2>1, <5>2, <5>3
        <4> QED
          BY <1>13, <2>2, <2>5, <4>1, <4>2
      <3>3. CASE ~(r.metric <= best.metric)
        <4>1. best' = best
          BY <1>11, <3>3
        <4>2. best.metric <= r.metric
          BY <1>5, <3>1, <3>3
        <4> QED
          BY <1>13, <2>1, <2>2, <2>5, <4>1, <4>2
      <3> QED
        BY <3>2, <3>3
    <2> QED
      BY <1>2, <2>3, <2>4, <2>5 DEF Scanned
  <1>15. Scanned(d + 1)'
    BY <1>1, <1>7, <1>8, <1>14 DEF Scanned, Net!NoRoute
  <1>16. d + 1 \in 0 .. Len(routes')
    BY <1>1, <1>3
  <1> QED
    BY <1>15, <1>16

LEMMA ScanStep ==
  ASSUME NetTypes, ScanInv, Net!Next
  PROVE  ScanInv'
  <1> SUFFICES ASSUME npc' = "scan", undisturbed', ~faults'
               PROVE  \E d \in 0 .. Len(routes') : Scanned(d)'
    BY DEF ScanInv
  <1>1. CASE Net!RouteChanges
    BY <1>1 DEF Net!RouteChanges, Net!Change
  <1>2. CASE \E i \in Net!Iface : Net!LinkChanges(i)
    BY <1>2 DEF Net!LinkChanges, Net!Change
  <1>3. CASE Net!Dump
    <2>1. msgs' = routes' /\ best' = Net!NoRoute' /\ Len(routes') \in Nat
      BY <1>3 DEF Net!Dump, Net!hostVars, Net!NoRoute, NetTypes
    <2>2. Scanned(0)'
      BY <2>1 DEF Scanned
    <2> QED
      BY <2>1, <2>2
  <1>4. CASE \E answer \in BOOLEAN : Net!Scan(answer)
    BY <1>4, ScanningStep
  <1>5. CASE \E dump \in Addresses : Net!get_netlink_addr_info(dump)
    BY <1>5 DEF Net!get_netlink_addr_info
  <1>6. CASE Net!DetectRoute
    BY <1>6 DEF Net!DetectRoute
  <1>7. CASE Net!DetectDone
    BY <1>7 DEF Net!DetectDone, Net!Call
  <1>8. CASE Net!DetectFails
    BY <1>8 DEF Net!DetectFails, Net!Fails, Net!Call
  <1>9. CASE Net!MonitorRoute
    BY <1>9 DEF Net!MonitorRoute
  <1>10. CASE Net!MonitorLink
    BY <1>10 DEF Net!MonitorLink, Net!Call
  <1>11. CASE Net!process_netlink_event
    BY <1>11 DEF Net!process_netlink_event
  <1>12. CASE Net!MonitorFails
    BY <1>12 DEF Net!MonitorFails
  <1> QED
    BY <1>1, <1>2, <1>3, <1>4, <1>5, <1>6, <1>7, <1>8, <1>9, <1>10, <1>11, <1>12 DEF Net!Next

(* A change takes nothing away without telling the monitor. *)
LEMMA ChangeKeepsBacked ==
  ASSUME NetTypes, caller = "monitor_wan_changes", NEW i \in DOMAIN Link, Net!LinkChanges(i),
         NEW x, Backed(x)
  PROVE  Backed(x)'
  <1>1. /\ Len(events) \in Nat /\ Len(events') \in Nat /\ Len(events') >= Len(events)
        /\ \A k \in 1 .. Len(events) : events'[k] = events[k]
        /\ i \in online => DownPending(i)'
    BY LinkNotified
  <1>2. 1 .. Len(events) \subseteq 1 .. Len(events')
    BY <1>1
  <1>3. RoutePending => RoutePending'
    BY <1>1, <1>2 DEF RoutePending
  <1>4. DownPending(x.oif) => DownPending(x.oif)'
    BY <1>1, <1>2 DEF DownPending
  <1>5. ASSUME NEW k \in 1 .. Len(routes),
               routes[k].oif = x.oif, routes[k].gateway = x.gateway, routes[k].oif \in online
        PROVE  Backed(x)'
    <2>1. routes' = routes
      BY DEF Net!LinkChanges
    <2>2. CASE x.oif = i
      BY <1>1, <1>5, <2>2 DEF Backed
    <2>3. CASE x.oif # i
      <3>1. routes[k].oif \in online'
        BY <1>5, <2>3 DEF Net!LinkChanges
      <3> QED
        BY <1>5, <2>1, <3>1 DEF Backed
    <2> QED
      BY <2>2, <2>3
  <1> QED
    BY <1>3, <1>4, <1>5 DEF Backed

(* The state that Backed depends on. *)
LEMMA BackedSame ==
  ASSUME UNCHANGED <<routes, online, events>>
  PROVE  /\ RoutePending' <=> RoutePending
         /\ \A x : Backed(x)' <=> Backed(x)
  BY DEF Backed, RoutePending, DownPending

(* A message of the dump that is taken to be the best route. *)
LEMMA TakenIsBacked ==
  ASSUME NetTypes, TrackInv, caller = "monitor_wan_changes", NEW answer \in BOOLEAN, Net!Scan(answer)
  PROVE  TrackInv'
  <1>1. /\ npc = "scan" /\ npc' = "scan" /\ caller' = caller
        /\ UNCHANGED <<routes, online, events>>
        /\ msgs # <<>> /\ msgs' = Tail(msgs)
    BY DEF Net!Scan, Net!hostVars
  <1>2. /\ Len(msgs) \in Nat \ {0} /\ Len(msgs') = Len(msgs) - 1 /\ Head(msgs) = msgs[1]
        /\ \A i \in 1 .. Len(msgs') : msgs'[i] = msgs[i + 1] /\ i + 1 \in 1 .. Len(msgs)
    BY <1>1 DEF NetTypes
  <1>3. \A i \in 1 .. Len(msgs) :
           RoutePending \/ \E k \in 1 .. Len(routes) : msgs[i] = routes[k]
    BY <1>1 DEF TrackInv
  <1>4. \A i \in 1 .. Len(msgs') :
           RoutePending' \/ \E k \in 1 .. Len(routes') : msgs'[i] = routes'[k]
    BY <1>1, <1>2, <1>3, BackedSame
  <1>5. best' # Net!NoRoute => Backed(best')
    <2>1. CASE best' = best
      BY <1>1, <2>1 DEF TrackInv
    <2>2. CASE best' = Head(msgs) /\ Head(msgs).oif \in online
      <3>1. RoutePending \/ \E k \in 1 .. Len(routes) : Head(msgs) = routes[k]
        BY <1>2, <1>3
      <3> QED
        BY <2>2, <3>1 DEF Backed
    <2> QED
      BY <2>1, <2>2 DEF Net!Scan, Net!is_link_online
  <1>6. Backed(best)' <=> Backed(best')
    BY <1>1 DEF Backed, RoutePending, DownPending
  <1>7. Net!NoRoute' = Net!NoRoute
    BY DEF Net!NoRoute
  <1> QED
    BY <1>1, <1>4, <1>5, <1>6, <1>7 DEF TrackInv

(* The monitor reads a notification that is not about what it tracks. *)
LEMMA ReadKeepsBacked ==
  ASSUME NetTypes, TrackInv, Net!process_netlink_event
  PROVE  TrackInv'
  <1> DEFINE e == Head(events)
  <1>1. /\ caller = "monitor_wan_changes" /\ npc = "listen" /\ events # <<>>
        /\ events' = Tail(events)
        /\ UNCHANGED <<routes, online, caller, current>>
        /\ npc' = "query" \/ (npc' = "listen" /\ e.type # "route" /\ ~(e.ifindex = current.oif /\ ~e.up))
    <2> DEFINE wan_changed == e.type = "route" \/ (e.ifindex = current.oif /\ ~e.up)
    <2>1. npc' = IF wan_changed THEN "query" ELSE "listen"
      BY Zenon DEF Net!process_netlink_event
    <2>2. npc' = "query" \/ (npc' = "listen" /\ e.type # "route" /\ ~(e.ifindex = current.oif /\ ~e.up))
      <3>1. CASE wan_changed
        BY <2>1, <3>1, Zenon
      <3>2. CASE ~wan_changed
        BY <2>1, <3>2, Zenon
      <3> QED
        BY <3>1, <3>2, Zenon
    <2> QED
      BY <2>2, Zenon DEF Net!process_netlink_event, Net!Monitor, Net!hostVars
  <1>2. /\ Len(events) \in Nat \ {0} /\ Len(events') = Len(events) - 1 /\ e = events[1]
        /\ \A i \in 1 .. Len(events') : events'[i] = events[i + 1]
    BY <1>1 DEF NetTypes
  <1> HIDE DEF e
  <1>3. ASSUME npc' = "listen", current # Net!NoRoute PROVE Backed(current)'
    <2>1. Backed(current)
      BY <1>1, <1>3 DEF TrackInv
    <2>2. e.type # "route" /\ ~(e.ifindex = current.oif /\ ~e.up)
      BY <1>1, <1>3
    <2>3. \A k \in 1 .. Len(events) : k = 1 \/ (k - 1 \in 1 .. Len(events') /\ events'[k - 1] = events[k])
      <3> TAKE k \in 1 .. Len(events)
      <3>1. CASE k # 1
        <4>1. k - 1 \in 1 .. Len(events') /\ (k - 1) + 1 = k
          BY <1>2, <3>1
        <4> QED
          BY <1>2, <4>1
      <3> QED
        BY <3>1
    <2>4. RoutePending => RoutePending'
      BY <1>2, <2>2, <2>3 DEF RoutePending
    <2>5. DownPending(current.oif) => DownPending(current.oif)'
      <3> SUFFICES ASSUME NEW k \in 1 .. Len(events), events[k].ifindex = current.oif, ~events[k].up
                   PROVE  DownPending(current.oif)'
        BY Zenon DEF DownPending
      <3>1. k # 1
        BY <1>2, <2>2, Zenon
      <3>2. k - 1 \in 1 .. Len(events') /\ events'[k - 1] = events[k]
        BY <2>3, <3>1
      <3>3. events'[k - 1].ifindex = current.oif /\ ~events'[k - 1].up
        BY <3>2, Zenon
      <3> QED
        BY <1>1, <3>2, <3>3, Zenon DEF DownPending
    <2> QED
      BY <1>1, <2>1, <2>4, <2>5 DEF Backed
  <1> QED
    BY <1>1, <1>3 DEF TrackInv, Net!NoRoute

LEMMA TrackStep ==
  ASSUME NetTypes, TrackInv, Net!Next
  PROVE  TrackInv'
  <1>1. caller' = caller
    <2>1. Net!RouteChanges \/ (\E i \in Net!Iface : Net!LinkChanges(i)) => caller' = caller
      BY DEF Net!RouteChanges, Net!LinkChanges, Net!Change
    <2>2. (\E answer \in BOOLEAN : Net!Scan(answer)) => caller' = caller
      BY DEF Net!Scan
    <2>3. (\E dump \in Addresses : Net!get_netlink_addr_info(dump)) => caller' = caller
      BY DEF Net!get_netlink_addr_info
    <2>4. Net!Dump \/ Net!DetectRoute \/ Net!DetectDone \/ Net!DetectFails => caller' = caller
      BY DEF Net!Dump, Net!DetectRoute, Net!DetectDone, Net!DetectFails, Net!Fails
    <2>5. Net!MonitorRoute \/ Net!MonitorLink \/ Net!process_netlink_event \/ Net!MonitorFails
            => caller' = caller
      BY DEF Net!MonitorRoute, Net!MonitorLink, Net!process_netlink_event, Net!MonitorFails
    <2> QED
      BY <2>1, <2>2, <2>3, <2>4, <2>5 DEF Net!Next
  <1> SUFFICES ASSUME caller = "monitor_wan_changes" PROVE TrackInv'
    BY <1>1 DEF TrackInv
  <1>2. Net!NoRoute' = Net!NoRoute
    BY DEF Net!NoRoute
  <1>3. CASE Net!RouteChanges
    <2>1. RoutePending'
      BY <1>3, RouteNotified
    <2> QED
      BY <2>1 DEF TrackInv, Backed
  <1>4. ASSUME NEW i \in Net!Iface, Net!LinkChanges(i) PROVE TrackInv'
    <2>1. UNCHANGED <<routes, npc, msgs, best, current>>
      BY <1>4 DEF Net!LinkChanges, Net!Change
    <2>2. RoutePending => RoutePending'
      BY <1>4, LinkNotified DEF RoutePending, Net!Iface
    <2>3. Backed(best) => Backed(best)'
      <3>1. Backed(best) => Backed(best')
        BY <2>1
      <3> QED
        BY <1>4, <2>1, ChangeKeepsBacked DEF Net!Iface
    <2>4. Backed(current) => Backed(current)'
      BY <1>4, <2>1, ChangeKeepsBacked DEF Net!Iface
    <2> QED
      BY <1>2, <2>1, <2>2, <2>3, <2>4 DEF TrackInv
  <1>5. CASE Net!Dump
    <2>1. msgs' = routes' /\ best' = Net!NoRoute /\ npc' = "scan"
      BY <1>5 DEF Net!Dump, Net!hostVars, Net!Call
    <2> QED
      BY <1>2, <2>1 DEF TrackInv
  <1>6. CASE \E answer \in BOOLEAN : Net!Scan(answer)
    BY <1>6, TakenIsBacked
  <1>7. CASE \E dump \in Addresses : Net!get_netlink_addr_info(dump)
    <2>1. npc = "addr" /\ npc' = "link" /\ UNCHANGED <<routes, online, events, current>>
      BY <1>7 DEF Net!get_netlink_addr_info, Net!hostVars
    <2>2. Backed(current)' <=> Backed(current)
      BY <2>1 DEF Backed, RoutePending, DownPending
    <2> QED
      BY <1>2, <2>1, <2>2 DEF TrackInv
  <1>8. CASE Net!DetectRoute \/ Net!DetectDone \/ Net!DetectFails
    BY <1>8 DEF Net!DetectRoute, Net!DetectDone, Net!DetectFails, Net!Detect
  <1>9. CASE Net!MonitorRoute
    <2>1. /\ npc = "scan" /\ npc' \in {"addr", "listen"}
          /\ UNCHANGED <<routes, online, events, best>>
          /\ \/ current' = best
             \/ current' = current /\ best # Net!NoRoute
                /\ best.oif = current.oif /\ best.gateway = current.gateway
      BY <1>9 DEF Net!MonitorRoute, Net!hostVars
    <2>2. current' # Net!NoRoute => Backed(current')
      BY <2>1 DEF TrackInv, Backed
    <2>3. Backed(current)' <=> Backed(current')
      BY <2>1 DEF Backed, RoutePending, DownPending
    <2> QED
      BY <1>2, <2>1, <2>2, <2>3 DEF TrackInv
  <1>10. CASE Net!MonitorLink
    <2>1. npc = "link" /\ npc' = "listen" /\ UNCHANGED <<routes, online, events, current>>
      BY <1>10 DEF Net!MonitorLink, Net!Call, Net!hostVars
    <2>2. Backed(current)' <=> Backed(current)
      BY <2>1 DEF Backed, RoutePending, DownPending
    <2> QED
      BY <1>2, <2>1, <2>2 DEF TrackInv
  <1>11. CASE Net!process_netlink_event
    BY <1>11, ReadKeepsBacked
  <1>12. CASE Net!MonitorFails
    BY <1>2, <1>12 DEF Net!MonitorFails, TrackInv
  <1> QED
    BY <1>3, <1>4, <1>5, <1>6, <1>7, <1>8, <1>9, <1>10, <1>11, <1>12 DEF Net!Next

LEMMA NetInitInv == Net!Init => NetInv
  <1> SUFFICES ASSUME Net!Init PROVE NetInv
    OBVIOUS
  <1>1. routes \in Seq(Candidate)
    <2>1. PICK r \in Candidate, s \in Candidate :
             routes \in {<<>>, <<r>>} \cup (IF r = s THEN {} ELSE {<<r, s>>})
      BY DEF Net!Init
    <2>2. <<>> \in Seq(Candidate) /\ <<r>> \in Seq(Candidate) /\ <<r, s>> \in Seq(Candidate)
      OBVIOUS
    <2> QED
      BY <2>1, <2>2
  <1>2. undisturbed \in BOOLEAN /\ faults \in BOOLEAN
    BY Zenon DEF Net!Init
  <1>3. changes \in 0 .. MaxChanges
    BY HostAssumption DEF Net!Init
  <1>4. NetTypes
    BY <1>1, <1>2, <1>3 DEF Net!Init, Net!Iface, NetTypes
  <1> QED
    BY <1>4 DEF Net!Init, NetInv, ScanInv, TrackInv

LEMMA NetSame == NetInv /\ UNCHANGED wanVars => NetInv'
  <1> SUFFICES ASSUME NetInv, UNCHANGED wanVars PROVE NetInv'
    OBVIOUS
  <1> USE DEF wanVars
  <1>1. NetTypes'
    BY DEF NetInv, NetTypes
  <1>2. \A x : Net!Eligible(x)' <=> Net!Eligible(x)
    BY DEF Net!Eligible
  <1>3. \A d : Scanned(d)' <=> Scanned(d)
    BY <1>2 DEF Scanned, Net!NoRoute
  <1>4. ScanInv'
    BY <1>3 DEF NetInv, ScanInv
  <1>5. /\ RoutePending' <=> RoutePending
        /\ Backed(best)' <=> Backed(best)
        /\ Backed(current)' <=> Backed(current)
    BY DEF Backed, RoutePending, DownPending
  <1>6. TrackInv'
    BY <1>5 DEF NetInv, TrackInv, Net!NoRoute
  <1> QED
    BY <1>1, <1>4, <1>6 DEF NetInv

LEMMA NetAlways == HostSpec => []NetInv
  <1>1. HostInit => NetInv
    BY NetInitInv DEF HostInit
  <1>2. NetInv /\ [HostNext]_allVars => NetInv'
    <2>1. NetInv /\ Net!Next => NetInv'
      BY NetTypesStep, ScanStep, TrackStep DEF NetInv
    <2>2. [HostNext]_allVars => Net!Next \/ UNCHANGED wanVars
      BY Zenon DEF HostNext, allVars
    <2> QED
      BY <2>1, <2>2, NetSame
  <1> QED
    BY <1>1, <1>2, PTL DEF HostSpec

(* get_netlink_route_info finds a route with the lowest metric of those       *)
(* through an ordinary link that is online, for every table of routes of any  *)
(* length, in any order, and every metric of 32 bits, as long as nothing      *)
(* changes and no query fails.                                                *)
THEOREM BestRouteIsFound == HostSpec => []BestRouteFound
  <1>1. NetInv => BestRouteFound
    <2> SUFFICES ASSUME NetInv, npc = "scan", msgs = <<>>, undisturbed, ~faults,
                        NEW usable, usable = {r \in Net!RouteSet : Net!Eligible(r)}
                 PROVE  IF usable = {} THEN best = Net!NoRoute
                        ELSE best \in usable /\ \A r \in usable : best.metric <= r.metric
      BY DEF BestRouteFound, Net!BestRouteFound
    <2>1. PICK d \in 0 .. Len(routes) : Scanned(d)
      BY DEF NetInv, ScanInv
    <2>2. Len(routes) \in Nat /\ DOMAIN routes = 1 .. Len(routes)
      BY DEF NetInv, NetTypes
    <2>3. d = Len(routes)
      BY <2>1, <2>2 DEF Scanned
    <2>4. \A r : r \in usable <=> \E i \in 1 .. d : r = routes[i] /\ Net!Eligible(routes[i])
      BY <2>2, <2>3 DEF Net!RouteSet
    <2> QED
      BY <2>1, <2>4 DEF Scanned
  <1> QED
    BY <1>1, NetAlways, PTL

(* When monitor_wan_changes has read every notification, what it tracks is    *)
(* online and has its default route, however often routes and links changed   *)
(* while it was asking: a change it did not see is one it was told about.     *)
THEOREM TrackedStaysUsable == HostSpec => []TrackedIsUsable
  <1>1. NetInv => TrackedIsUsable
    <2> SUFFICES ASSUME NetInv, Net!Monitor, npc = "listen", events = <<>>, current # Net!NoRoute
                 PROVE  \E r \in Net!RouteSet :
                           r.oif = current.oif /\ r.gateway = current.gateway /\ r.oif \in online
      BY DEF TrackedIsUsable, Net!TrackedIsUsable
    <2>1. Backed(current)
      BY DEF NetInv, TrackInv, Net!Monitor
    <2>2. ~RoutePending /\ ~DownPending(current.oif)
      BY DEF RoutePending, DownPending
    <2>3. PICK i \in 1 .. Len(routes) : /\ routes[i].oif = current.oif
                                        /\ routes[i].gateway = current.gateway
                                        /\ routes[i].oif \in online
      BY <2>1, <2>2 DEF Backed
    <2>4. routes[i] \in Net!RouteSet
      BY DEF NetInv, NetTypes, Net!RouteSet
    <2> QED
      BY <2>3, <2>4
  <1> QED
    BY <1>1, NetAlways, PTL

=============================================================================
