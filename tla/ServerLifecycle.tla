--------------------------- MODULE ServerLifecycle ---------------------------
(***************************************************************************)
(* The life of the server process: main and its start steps, the signal    *)
(* thread, and vpn_engine_cleanup (server/src/engine/vpn_server_engine.c,  *)
(* session.c).  What the callbacks do with the tables is in ServerConn and *)
(* its extensions; here it counts that connections have callbacks to come. *)
(*                                                                         *)
(* The cleanup runs on the signal thread whenever a signal comes, from the *)
(* first start step on, and on the main thread after a start step failed;  *)
(* both may run it at once.  msquic's callbacks run from ListenerStart to  *)
(* the end of the process, which is always exit(0) inside the cleanup.     *)
(* What works on freed memory may end the process ("crashed").             *)
(***************************************************************************)
VARIABLES
    main,           \* the main thread: start steps, "loop", or "err"
    cleaner,        \* cleaner[t]: the cleanup step thread t is at, or "none"
    orderly,        \* whether the signal came when the server was up
    wan,            \* session->wan
    tun,            \* session->tun
    host,           \* what the start has changed on the host
    tables,         \* ip_pool, client_pool and client_list
    packets,        \* the packet pools and the queue
    listening,      \* whether the listener was started
    MsQuic,         \* session->MsQuic
    flagged,        \* the packet threads whose running_ flag is set
    worker,         \* worker[k]: packet thread k
    clients,        \* whether connections have callbacks to come
    process

memVars == <<wan, tun, host, tables, packets>>
threadVars == <<flagged, worker>>
quicVars == <<listening, MsQuic, clients>>
vars == <<main, cleaner, orderly, memVars, quicVars, threadVars, process>>

Kind == {"send", "recv"}
Cleaner == {"main", "signal"}

Start ==
    {"session", "attach", "wan", "device", "forwarding", "rules", "assign", "ip_pool",
     "clients", "create", "register", "address", "credentials", "parameters", "listener",
     "msquic", "send_flag", "send", "recv_flag", "recv"}

Cleanup ==
    {"c_wan", "c_send", "c_send_flag", "c_send_join", "c_recv", "c_recv_flag", "c_recv_push",
     "c_recv_join", "c_tun", "c_packets", "c_tables", "c_exit"}

(* Type invariant of the process. *)
LifeTypeOK ==
    /\ main \in Start \cup {"loop", "err", "returned"}
    /\ cleaner \in [Cleaner -> Cleanup \cup {"none", "sigwait", "c_full"}]
    /\ orderly \in BOOLEAN
    /\ wan \in {"NULL", "set", "freed"}
    /\ tun \in {"NULL", "set"}
    /\ host \subseteq {"device", "forwarding", "rules"}
    /\ tables \in {"none", "addresses", "ready", "destroyed"}
    /\ packets \in {"none", "ready", "destroyed"}
    /\ listening \in BOOLEAN
    /\ MsQuic \in {"NULL", "set"}
    /\ clients \in BOOLEAN
    /\ flagged \subseteq Kind
    /\ worker \in [Kind -> {"none", "run", "done", "joined"}]
    /\ process \in {"running", "exited", "aborted", "crashed"}

Init ==
    /\ main = "session"
    /\ cleaner = [t \in Cleaner |-> "none"]
    /\ orderly = FALSE
    /\ wan = "NULL" /\ tun = "NULL" /\ host = {}
    /\ tables = "none" /\ packets = "none"
    /\ listening = FALSE /\ MsQuic = "NULL" /\ clients = FALSE
    /\ flagged = {} /\ worker = [k \in Kind |-> "none"]
    /\ process = "running"

Live == process = "running"

-----------------------------------------------------------------------------
(* main *)

MainGo(from, to) == Live /\ main = from /\ main' = to

(* A failed step leaves for the cleanup; what it made is kept. *)
MainFails ==
    /\ Live
    /\ main \in Start \ {"session", "assign", "msquic", "send_flag", "recv_flag"}
    /\ main' = "err"
    /\ cleaner' = [cleaner EXCEPT !["main"] = "c_wan"]
    /\ UNCHANGED <<orderly, memVars, quicVars, threadVars, process>>

(* Without a session the cleanup does nothing, and main returns. *)
create_session ==
    /\ \/ MainGo("session", "attach") /\ packets' = "ready" /\ UNCHANGED process
       \/ MainGo("session", "returned") /\ process' = "exited" /\ UNCHANGED packets
    /\ UNCHANGED <<cleaner, orderly, wan, tun, host, tables, quicVars, threadVars>>

attach_signal ==
    /\ MainGo("attach", "wan")
    /\ cleaner' = [cleaner EXCEPT !["signal"] = "sigwait"]
    /\ UNCHANGED <<orderly, memVars, quicVars, threadVars, process>>

detect_default_wan ==
    /\ MainGo("wan", "device")
    /\ wan' = "set"
    /\ UNCHANGED <<cleaner, orderly, tun, host, tables, packets, quicVars, threadVars, process>>

(* The device with its address, then forwarding, then the rules; session->tun *)
(* is set at the end, and nothing is undone when a step fails.               *)
setup_tun_interface ==
    /\ \/ MainGo("device", "forwarding") /\ host' = host \cup {"device"} /\ UNCHANGED tun
       \/ MainGo("forwarding", "rules") /\ host' = host \cup {"forwarding"} /\ UNCHANGED tun
       \/ MainGo("rules", "assign") /\ host' = host \cup {"rules"} /\ UNCHANGED tun
       \/ MainGo("assign", "ip_pool") /\ tun' = "set" /\ UNCHANGED host
    /\ UNCHANGED <<cleaner, orderly, wan, tables, packets, quicVars, threadVars, process>>

(* Fails when the device is gone again. *)
setup_ip_pool_manager ==
    /\ tun = "set"
    /\ MainGo("ip_pool", "clients")
    /\ tables' = "addresses"
    /\ UNCHANGED <<cleaner, orderly, wan, tun, host, packets, quicVars, threadVars, process>>

(* The list does not replace a destroyed address pool. *)
init_client_manager ==
    /\ MainGo("clients", "create")
    /\ tables' = IF tables = "destroyed" THEN "destroyed" ELSE "ready"
    /\ UNCHANGED <<cleaner, orderly, wan, tun, host, packets, quicVars, threadVars, process>>

(* What is prepared is in a local context nobody else sees. *)
Prepares(from, to) ==
    /\ MainGo(from, to)
    /\ UNCHANGED <<cleaner, orderly, memVars, quicVars, threadVars, process>>

MsQuicCreate == Prepares("create", "register")
MsQuicRegister == Prepares("register", "address")
MsQuicConfigLocalAddr == Prepares("address", "credentials")
MsQuicConfigCredentials == Prepares("credentials", "parameters")
MsQuicConfigParameters == Prepares("parameters", "listener")

MsQuicListenerStart ==
    /\ MainGo("listener", "msquic")
    /\ listening' = TRUE
    /\ UNCHANGED <<cleaner, orderly, memVars, MsQuic, clients, threadVars, process>>

(* session->MsQuic is set after the listener was started. *)
setup_msquic ==
    \/ MsQuicCreate \/ MsQuicRegister \/ MsQuicConfigLocalAddr
    \/ MsQuicConfigCredentials \/ MsQuicConfigParameters \/ MsQuicListenerStart
    \/ /\ MainGo("msquic", "send_flag")
       /\ MsQuic' = "set"
       /\ UNCHANGED <<cleaner, orderly, memVars, listening, clients, threadVars, process>>

(* The flag of a thread is set before the thread is created. *)
start_threads ==
    /\ \/ MainGo("send_flag", "send") /\ flagged' = flagged \cup {"send"} /\ UNCHANGED worker
       \/ MainGo("send", "recv_flag") /\ worker' = [worker EXCEPT !["send"] = "run"]
                                      /\ UNCHANGED flagged
       \/ MainGo("recv_flag", "recv") /\ flagged' = flagged \cup {"recv"} /\ UNCHANGED worker
       \/ MainGo("recv", "loop") /\ worker' = [worker EXCEPT !["recv"] = "run"]
                                 /\ UNCHANGED flagged
    /\ UNCHANGED <<cleaner, orderly, memVars, quicVars, process>>

server_main ==
    \/ create_session \/ attach_signal \/ detect_default_wan \/ setup_tun_interface
    \/ setup_ip_pool_manager \/ init_client_manager \/ setup_msquic \/ start_threads

-----------------------------------------------------------------------------
(* The signal thread *)

signal_handler_thread ==
    /\ Live
    /\ cleaner["signal"] = "sigwait"
    /\ cleaner' = [cleaner EXCEPT !["signal"] = "c_wan"]
    /\ orderly' = (main = "loop")
    /\ UNCHANGED <<main, memVars, quicVars, threadVars, process>>

-----------------------------------------------------------------------------
(* vpn_engine_cleanup *)

CleanGo(t, from, to) ==
    /\ Live
    /\ cleaner[t] = from
    /\ cleaner' = [cleaner EXCEPT ![t] = to]

(* What is destroyed a second time may end the process. *)
Again(already) == process' \in IF already THEN {"running", "crashed"} ELSE {"running"}

FreeWan(t) ==
    /\ CleanGo(t, "c_wan", "c_send")
    /\ wan' = IF wan = "NULL" THEN "NULL" ELSE "freed"
    /\ Again(wan = "freed")
    /\ UNCHANGED <<main, orderly, tun, host, tables, packets, quicVars, threadVars>>

(* if (running_): the flag is read, cleared with a wake-up, and the thread  *)
(* joined; joining a thread that was not created or was joined is undefined. *)
ReadFlag(t, k, from, stop, next) ==
    /\ CleanGo(t, from, IF k \in flagged THEN stop ELSE next)
    /\ UNCHANGED <<main, orderly, memVars, quicVars, threadVars, process>>

ClearFlag(t, k, from, to) ==
    /\ CleanGo(t, from, to)
    /\ flagged' = flagged \ {k}
    /\ UNCHANGED <<main, orderly, memVars, quicVars, worker, process>>

(* queue_wait_push of the sentinel.  When clients have filled the queue and *)
(* its reader, which saw the flag first, is gone, it waits for ever.        *)
PushNull(t, from, to) ==
    /\ \/ CleanGo(t, from, to)
       \/ listening /\ worker["recv"] # "run" /\ CleanGo(t, from, "c_full")
    /\ UNCHANGED <<main, orderly, memVars, quicVars, threadVars, process>>

(* Mutant: the thread is not waited for. *)
Join_early(t, k, from, to) ==
    /\ CleanGo(t, from, to)
    /\ UNCHANGED <<main, orderly, memVars, quicVars, threadVars, process>>

Join(t, k, from, to) ==
    /\ worker[k] # "run"
    /\ CleanGo(t, from, to)
    /\ worker' = [worker EXCEPT ![k] = "joined"]
    /\ Again(worker[k] # "done")
    /\ UNCHANGED <<main, orderly, memVars, quicVars, flagged>>

StopThreads(t) ==
    \/ ReadFlag(t, "send", "c_send", "c_send_flag", "c_recv")
    \/ ClearFlag(t, "send", "c_send_flag", "c_send_join")
    \/ Join(t, "send", "c_send_join", "c_recv")
    \/ ReadFlag(t, "recv", "c_recv", "c_recv_flag", "c_tun")
    \/ ClearFlag(t, "recv", "c_recv_flag", "c_recv_push")
    \/ PushNull(t, "c_recv_push", "c_recv_join")
    \/ Join(t, "recv", "c_recv_join", "c_tun")

(* Mutant: forwarding stays on. *)
TunTeardown_forwards(t) ==
    /\ CleanGo(t, "c_tun", "c_packets")
    /\ tun' = "NULL"
    /\ host' = IF tun = "set" THEN host \cap {"forwarding"} ELSE host
    /\ UNCHANGED <<main, orderly, wan, tables, packets, quicVars, threadVars, process>>

(* Routes, DNS, rules, forwarding and device are undone through session->tun. *)
TunTeardown(t) ==
    /\ CleanGo(t, "c_tun", "c_packets")
    /\ tun' = "NULL"
    /\ host' = IF tun = "set" THEN {} ELSE host
    /\ UNCHANGED <<main, orderly, wan, tables, packets, quicVars, threadVars, process>>

DestroyPackets(t) ==
    /\ CleanGo(t, "c_packets", "c_tables")
    /\ packets' = "destroyed"
    /\ Again(packets = "destroyed")
    /\ UNCHANGED <<main, orderly, wan, tun, host, tables, quicVars, threadVars>>

(* ip_pool_destroy, pool_destroy and free accept what is still NULL. *)
DestroyTables(t) ==
    /\ CleanGo(t, "c_tables", "c_exit")
    /\ tables' = IF tables = "none" THEN "none" ELSE "destroyed"
    /\ Again(tables = "destroyed")
    /\ UNCHANGED <<main, orderly, wan, tun, host, packets, quicVars, threadVars>>

(* Mutant: the thread waits for main, which sleeps for ever. *)
Exit_waits(t) ==
    /\ CleanGo(t, "c_exit", "c_exit")
    /\ UNCHANGED <<main, orderly, memVars, quicVars, threadVars, process>>

(* exit(0): the descriptor goes, and with it the device. *)
Exit(t) ==
    /\ Live /\ cleaner[t] = "c_exit"
    /\ process' = "exited"
    /\ host' = host \ {"device"}
    /\ UNCHANGED <<main, cleaner, orderly, wan, tun, tables, packets, quicVars, threadVars>>

vpn_engine_cleanup(t) ==
    \/ FreeWan(t) \/ StopThreads(t) \/ TunTeardown(t) \/ DestroyPackets(t)
    \/ DestroyTables(t) \/ Exit(t)

-----------------------------------------------------------------------------
(* Packet threads, callbacks, and what they find *)

ThreadEnds(k) ==
    /\ Live
    /\ worker[k] = "run" /\ k \notin flagged
    /\ worker' = [worker EXCEPT ![k] = "done"]
    /\ UNCHANGED <<main, cleaner, orderly, memVars, quicVars, flagged, process>>

(* One failed read ends the sending thread. *)
ReadFails ==
    /\ Live
    /\ worker["send"] = "run"
    /\ worker' = [worker EXCEPT !["send"] = "done"]
    /\ UNCHANGED <<main, cleaner, orderly, memVars, quicVars, flagged, process>>

(* NEW_CONNECTION finds its tables, and the last connection has shut down. *)
ClientsChange ==
    /\ Live /\ listening /\ MsQuic = "set" /\ tables # "destroyed"
    /\ clients' = ~clients
    /\ UNCHANGED <<main, cleaner, orderly, memVars, listening, MsQuic, threadVars, process>>

(* assert(MsQuic) of ServerListenerCallback. *)
AssertFails ==
    /\ Live /\ listening /\ MsQuic = "NULL"
    /\ process' = "aborted"
    /\ UNCHANGED <<main, cleaner, orderly, memVars, quicVars, threadVars>>

(* main reads wan->ifname; threads use packet pools and queue. *)
UsesFreed ==
    /\ Live
    /\ \/ wan = "freed" /\ main = "device"
       \/ packets = "destroyed" /\ \E k \in Kind : worker[k] = "run"
    /\ process' = "crashed"
    /\ UNCHANGED <<main, cleaner, orderly, memVars, quicVars, threadVars>>

(* A client's datagram needs the packets, a new client the tables. *)
CallbackUsesFreed ==
    /\ Live /\ listening /\ MsQuic = "set"
    /\ \/ packets = "destroyed" /\ clients
       \/ tables = "destroyed"
    /\ process' = "crashed" /\ clients' = TRUE
    /\ UNCHANGED <<main, cleaner, orderly, memVars, listening, MsQuic, threadVars>>

-----------------------------------------------------------------------------

(* The process is gone, or a cleanup waits for ever. *)
Terminated ==
    /\ ~Live \/ \E t \in Cleaner : cleaner[t] = "c_full"
    /\ UNCHANGED vars

Next ==
    \/ server_main \/ MainFails
    \/ signal_handler_thread
    \/ \E t \in Cleaner : vpn_engine_cleanup(t)
    \/ \E k \in Kind : ThreadEnds(k)
    \/ ReadFails
    \/ ClientsChange
    \/ AssertFails
    \/ UsesFreed
    \/ CallbackUsesFreed
    \/ Terminated

(* Threads are scheduled.  Signals and clients may never come. *)
Fairness ==
    /\ WF_vars(server_main)
    /\ \A t \in Cleaner : WF_vars(vpn_engine_cleanup(t))
    /\ \A k \in Kind : WF_vars(ThreadEnds(k))

Spec == Init /\ [][Next]_vars /\ Fairness

-----------------------------------------------------------------------------
(* Properties *)

Cleaning == {t \in Cleaner : cleaner[t] \in Cleanup}

(* A server that is up when the signal comes undoes its setup: no device,   *)
(* rules or forwarding are left when the process has exited.                *)
HostRestored ==
    process = "exited" /\ orderly => host = {}

(* assert(MsQuic) of ServerListenerCallback (server/src/engine/quic.c) holds *)
(* whenever a connection comes.                                             *)
AssertHolds == process # "aborted"

(* The order of start and cleanup is right by itself.  The listener is      *)
(* started last: as long as nobody cleans up, a callback finds the address  *)
(* pool, the client list and the packet queue.  And the process crashes     *)
(* only when clients are there or come, when both threads clean up, or when *)
(* the cleanup begins before the server is up.                              *)
CrashNeedsRace ==
    /\ listening /\ Cleaning = {} => tables = "ready" /\ packets = "ready"
    /\ process = "crashed" => clients \/ Cleaning = Cleaner \/ ~orderly

(* Once a signal is taken the process ends, whatever start, threads and     *)
(* callbacks are doing, unless the sentinel finds the queue full and the    *)
(* receiving thread gone.                                                   *)
SignalEnds ==
    cleaner["signal"] \in Cleanup ~> ~Live \/ cleaner["signal"] = "c_full"
=============================================================================
