---------------------------- MODULE ClientEngine ----------------------------
(***************************************************************************)
(* The client's engine: vpn_engine_start and vpn_engine_cleanup            *)
(* (client/src/engine/vpn_client_engine.c) on the engine thread, and the   *)
(* msquic callbacks of the connection and its control stream               *)
(* (client/src/engine/quic.c) on an msquic worker, for one session.        *)
(*                                                                         *)
(* The two meet in the three state_sync_t of session.h, in session->tun    *)
(* and in MsQuic->ConnectionHandle.  Each state_sync call is one step.     *)
(* The callbacks of a connection and its streams run one at a time; worker *)
(* is the place inside one of those that take several steps.  What msquic  *)
(* and the server do is in quic, stream and reply.                         *)
(***************************************************************************)
VARIABLES
    engine,             \* the engine thread: start steps, "running", cleanup steps
    worker,             \* the msquic worker, "none" between two events
    con_state,          \* session->con_state
    stream_state,       \* session->stream_state
    tun_state,          \* session->tun_state
    ConnectionHandle,   \* MsQuic->ConnectionHandle: "open" or "NULL"
    MsQuic,             \* session->MsQuic: "set" or "NULL"
    handles,            \* the msquic objects that are open, and the memory lent or kept
    tun,                \* session->tun: "set" or "NULL"
    device,             \* the TUN device with its address, routes, DNS and rules
    running,            \* the packet threads whose running_ flag is set
    thread,             \* thread[k]: packet thread k
    quic,               \* the connection as msquic has it
    stream,             \* the control stream as msquic has it
    reply               \* the server's answer to CONFIG_REQ

syncVars == <<con_state, stream_state, tun_state>>
threadVars == <<running, thread>>
objects == <<MsQuic, handles>>
quicVars == <<quic, stream, reply>>
vars == <<engine, worker, syncVars, ConnectionHandle, objects, tun, device, threadVars,
          quicVars>>

-----------------------------------------------------------------------------

Kind == {"send", "recv"}

Starting ==
    {"wan", "create", "register", "address", "parameters", "credentials", "connect", "started", "connecting", "stream", "stream_open",
     "stream_started", "opening", "request", "wait_tun", "threads", "threads_recv"}

CleaningUp ==
    {"c_send", "c_join_send", "c_recv", "c_push", "c_join_recv", "c_tun", "c_quic", "c_close"}

(* Type invariant of the session and of the two threads that work on it. *)
ClientTypeOK ==
    /\ engine \in Starting \cup CleaningUp \cup {"none", "running", "c_full", "freed", "crashed"}
    /\ worker \in {"none", "setup", "assign", "set_ready", "undo", "set_fail", "clear"}
    /\ con_state \in {"DISCONNECTED", "CONNECTING", "CONNECTED", "destroyed"}
    /\ stream_state \in {"CLOSED", "OPENING", "OPEN", "destroyed"}
    /\ tun_state \in {"CLOSED", "READY", "FAIL", "destroyed"}
    /\ ConnectionHandle \in {"NULL", "open"}
    /\ MsQuic \in {"NULL", "set"}
    /\ handles \subseteq {"Api", "Registration", "Configuration", "quic_buf", "ticket"}
    /\ tun \in {"NULL", "set"}
    /\ device \in {"absent", "partial", "ready"}
    /\ running \subseteq Kind
    /\ thread \in [Kind -> {"none", "run", "done"}]
    /\ quic \in {"none", "handshake", "connected", "shutdown", "closed"}
    /\ stream \in {"none", "started", "open", "refused", "closed"}
    /\ reply \in {"none", "due", "given"}

Init ==
    /\ engine = "none" /\ worker = "none"
    /\ con_state = "destroyed" /\ stream_state = "destroyed" /\ tun_state = "destroyed"
    /\ ConnectionHandle = "NULL" /\ MsQuic = "NULL" /\ handles = {}
    /\ tun = "NULL" /\ device = "absent"
    /\ running = {} /\ thread = [k \in Kind |-> "none"]
    /\ quic = "none" /\ stream = "none" /\ reply = "none"

(* A new session; a device that an earlier one left is not its concern. *)
session_create ==
    /\ engine' = "wan" /\ worker' = "none"
    /\ con_state' = "DISCONNECTED" /\ stream_state' = "CLOSED" /\ tun_state' = "CLOSED"
    /\ ConnectionHandle' = "NULL" /\ MsQuic' = "NULL" /\ tun' = "NULL"
    /\ handles' = {}
    /\ running' = {} /\ thread' = [k \in Kind |-> "none"]
    /\ quic' = "none" /\ stream' = "none" /\ reply' = "none"

Go(from, to) == engine = from /\ engine' = to

(* Every error of vpn_engine_start goes to the cleanup. *)
Err(from) == Go(from, "c_send")

(* state_sync_set; a destroyed instance is left as it is. *)
Set(state, new) == IF state = "destroyed" THEN "destroyed" ELSE new

-----------------------------------------------------------------------------
(* vpn_engine_start *)

(* A step that opens some msquic objects; it may fail before it opens one. *)
Opens(from, to, opened) ==
    /\ \/ Go(from, to) /\ handles' = handles \cup opened
       \/ Err(from) /\ \E some \in SUBSET opened :
                          some # opened /\ handles' = handles \cup some
    /\ UNCHANGED <<MsQuic, worker, syncVars, ConnectionHandle, tun, device, threadVars, quicVars>>

detect_default_wan == Opens("wan", "create", {})

(* The context is stored in the session at once. *)
MsQuicCreate ==
    /\ \/ Go("create", "register") /\ MsQuic' = "set"
       \/ Err("create") /\ UNCHANGED MsQuic
    /\ UNCHANGED <<handles, worker, syncVars, ConnectionHandle, tun, device, threadVars, quicVars>>

(* MsQuicOpen2, then RegistrationOpen. *)
MsQuicRegister ==
    /\ Opens("register", "address", {"Api", "Registration"})
    /\ "Registration" \in handles' => "Api" \in handles'

MsQuicConfigAddr == Opens("address", "parameters", {})
MsQuicConfigParameters == Opens("parameters", "credentials", {"Configuration"})
MsQuicConfigCredentials == Opens("credentials", "connect", {})

setup_msquic ==
    \/ MsQuicCreate \/ MsQuicRegister
    \/ MsQuicConfigAddr \/ MsQuicConfigParameters \/ MsQuicConfigCredentials

(* ConnectionOpen to ConnectionStart; an error on the way closes the handle. *)
MsQuicConnectionStart ==
    /\ \/ /\ Go("connect", "started")
          /\ ConnectionHandle' = "open"
          /\ quic' = "handshake"
       \/ /\ Err("connect")
          /\ UNCHANGED <<ConnectionHandle, quic>>
    /\ UNCHANGED <<objects, worker, syncVars, tun, device, threadVars, stream, reply>>

(* The handshake is under way when CONNECTING is stored. *)
SetConnecting ==
    /\ Go("started", "connecting")
    /\ con_state' = Set(con_state, "CONNECTING")
    /\ UNCHANGED <<objects, worker, stream_state, tun_state, ConnectionHandle, tun, device,
                   threadVars, quicVars>>

(* state_sync_wait_ms_abort: CONNECTED, the abort state, or the timeout. *)
WaitConnected ==
    /\ \/ con_state = "CONNECTED" /\ Go("connecting", "stream")
       \/ con_state # "CONNECTED" /\ Err("connecting")
    /\ UNCHANGED <<objects, worker, syncVars, ConnectionHandle, tun, device, threadVars, quicVars>>

MsQuicStreamStart ==
    /\ \/ con_state = "CONNECTED" /\ Go("stream", "stream_open")
       \/ con_state # "CONNECTED" /\ Err("stream")
    /\ UNCHANGED <<objects, worker, syncVars, ConnectionHandle, tun, device, threadVars, quicVars>>

(* StreamOpen and StreamStart, by the handle read after the check. *)
StreamStart ==
    /\ \/ /\ Go("stream_open", "stream_started")
          /\ ConnectionHandle = "open" /\ quic = "connected"
          /\ stream' = "started"
          /\ UNCHANGED stream_state
       \/ /\ Err("stream_open")
          /\ stream_state' = Set(stream_state, "CLOSED")
          /\ UNCHANGED stream
    /\ UNCHANGED <<objects, worker, con_state, tun_state, ConnectionHandle, tun, device,
                   threadVars, quic, reply>>

SetOpening ==
    /\ Go("stream_started", "opening")
    /\ stream_state' = Set(stream_state, "OPENING")
    /\ UNCHANGED <<objects, worker, con_state, tun_state, ConnectionHandle, tun, device,
                   threadVars, quicVars>>

WaitOpen ==
    /\ \/ stream_state = "OPEN" /\ Go("opening", "request")
       \/ stream_state # "OPEN" /\ Err("opening")
    /\ UNCHANGED <<objects, worker, syncVars, ConnectionHandle, tun, device, threadVars, quicVars>>

(* CONFIG_REQ: StreamSend takes a buffer until SEND_COMPLETE, or it is freed. *)
(* A packet or QUIC_BUFFER that cannot be allocated ends the process.         *)
MsQuicStreamSend ==
    /\ \/ /\ stream = "open" /\ Go("request", "wait_tun")
          /\ reply' = "due"
          /\ handles' = handles \cup {"quic_buf"}
       \/ /\ Err("request") \/ Go("request", "crashed")
          /\ UNCHANGED <<reply, handles>>
    /\ UNCHANGED <<MsQuic, worker, syncVars, ConnectionHandle, tun, device, threadVars, quic, stream>>

(* state_sync_wait_ms: the state is not looked at again after the timeout. *)
WaitTun ==
    /\ \/ tun_state = "READY" /\ Go("wait_tun", "threads")
       \/ Err("wait_tun")
    /\ UNCHANGED <<objects, worker, syncVars, ConnectionHandle, tun, device, threadVars, quicVars>>

request_virtip == MsQuicStreamSend \/ WaitTun

(* start_threads: the flag is set before pthread_create, which may fail. *)
StartThread(k, from, to) ==
    /\ running' = running \cup {k}
    /\ \/ Go(from, to) /\ thread' = [thread EXCEPT ![k] = "run"]
       \/ Err(from) /\ UNCHANGED thread
    /\ UNCHANGED <<objects, worker, syncVars, ConnectionHandle, tun, device, quicVars>>

start_threads ==
    \/ StartThread("send", "threads", "threads_recv")
    \/ StartThread("recv", "threads_recv", "running")

-----------------------------------------------------------------------------
(* vpn_engine_cleanup *)

(* The application stops the engine. *)
Stop ==
    /\ Go("running", "c_send")
    /\ UNCHANGED <<objects, worker, syncVars, ConnectionHandle, tun, device, threadVars, quicVars>>

(* running_ flag down, and for the sending thread the eventfd written. *)
Signal(k, from, stop, next) ==
    /\ \/ k \in running /\ Go(from, stop)
       \/ k \notin running /\ Go(from, next)
    /\ running' = running \ {k}
    /\ UNCHANGED <<objects, worker, syncVars, ConnectionHandle, tun, device, thread, quicVars>>

(* queue_wait_push of the sentinel.  When the queue is full and its reader,   *)
(* which saw the flag first, is gone, it waits for ever ("c_full").           *)
PushNull ==
    /\ \/ Go("c_push", "c_join_recv")
       \/ thread["recv"] # "run" /\ Go("c_push", "c_full")
    /\ UNCHANGED <<objects, worker, syncVars, ConnectionHandle, tun, device, threadVars, quicVars>>

(* pthread_join; of a thread that was never created it is undefined. *)
Join(k, from, to) ==
    /\ \/ thread[k] = "done" /\ Go(from, to)
       \/ thread[k] = "none" /\ Go(from, to)
       \/ thread[k] = "none" /\ Go(from, "crashed")
    /\ UNCHANGED <<objects, worker, syncVars, ConnectionHandle, tun, device, threadVars, quicVars>>

(* Mutant: the threads are told to stop, and not joined. *)
StopThreads_nojoin ==
    \/ Signal("send", "c_send", "c_recv", "c_recv")
    \/ Signal("recv", "c_recv", "c_tun", "c_tun")

StopThreads ==
    \/ Signal("send", "c_send", "c_join_send", "c_recv")
    \/ Join("send", "c_join_send", "c_recv")
    \/ Signal("recv", "c_recv", "c_push", "c_tun")
    \/ PushNull
    \/ Join("recv", "c_join_recv", "c_tun")

(* The TUN device and tun_state go, if the callback has stored session->tun. *)
TunTeardown ==
    /\ Go("c_tun", "c_quic")
    /\ IF tun = "set"
       THEN tun' = "NULL" /\ device' = "absent" /\ tun_state' = "destroyed"
       ELSE UNCHANGED <<tun, device, tun_state>>
    /\ UNCHANGED <<objects, worker, con_state, stream_state, ConnectionHandle, threadVars, quicVars>>

(* ConnectionClose: msquic shuts the connection down and delivers the last  *)
(* events of its stream and its own.                                        *)
MsQuicShutdown ==
    /\ Go("c_quic", "c_close")
    /\ quic' = IF ConnectionHandle = "open" /\ quic # "closed" THEN "shutdown" ELSE quic
    /\ UNCHANGED <<objects, worker, syncVars, ConnectionHandle, tun, device, threadVars, stream, reply>>

(* Mutant: the session goes without waiting for RegistrationClose. *)
FreeSession_early ==
    /\ Go("c_close", "freed")
    /\ con_state' = "destroyed"
    /\ stream_state' = "destroyed"
    /\ MsQuic' = "NULL" /\ handles' = handles \cap {"ticket"}
    /\ UNCHANGED <<worker, tun_state, ConnectionHandle, tun, device, threadVars, quicVars>>

(* ConnectionClose and RegistrationClose return when the callbacks are over; *)
(* then the session's parts are destroyed and it is freed.                   *)
FreeSession ==
    /\ worker = "none" /\ quic \in {"none", "closed"} /\ stream \in {"none", "closed"}
    /\ Go("c_close", "freed")
    /\ con_state' = "destroyed"
    /\ stream_state' = "destroyed"
    /\ MsQuic' = "NULL"
    /\ handles' = IF MsQuic = "set" THEN handles \cap {"quic_buf", "ticket"} ELSE handles
    /\ UNCHANGED <<worker, tun_state, ConnectionHandle, tun, device, threadVars, quicVars>>

-----------------------------------------------------------------------------
(* The packet threads end when their flag is down and they were woken. *)

ThreadEnds(k) ==
    /\ k \notin running
    /\ thread[k] = "run"
    /\ thread' = [thread EXCEPT ![k] = "done"]
    /\ UNCHANGED <<objects, engine, worker, syncVars, ConnectionHandle, tun, device, running, quicVars>>

-----------------------------------------------------------------------------
(* msquic_connect_callback and msquic_stream_callback *)

Connected ==
    /\ worker = "none" /\ quic = "handshake"
    /\ quic' = "connected"
    /\ con_state' = Set(con_state, "CONNECTED")
    /\ UNCHANGED <<objects, engine, worker, stream_state, tun_state, ConnectionHandle, tun, device,
                   threadVars, stream, reply>>

(* The ticket replaces the one before, unless there is no memory for it. *)
ResumptionTicketReceived ==
    /\ worker = "none" /\ quic = "connected"
    /\ \/ handles' = handles \cup {"ticket"}
       \/ handles' = handles \ {"ticket"}
    /\ UNCHANGED <<engine, MsQuic, worker, syncVars, ConnectionHandle, tun, device, threadVars,
                   quicVars>>

StartComplete ==
    /\ worker = "none" /\ stream = "started"
    /\ \/ /\ quic = "connected"
          /\ stream' = "open"
          /\ stream_state' = Set(stream_state, "OPEN")
       \/ /\ stream' = "refused"
          /\ stream_state' = Set(stream_state, "CLOSED")
    /\ UNCHANGED <<objects, engine, worker, con_state, tun_state, ConnectionHandle, tun, device,
                   threadVars, quic, reply>>

SendComplete ==
    /\ worker = "none" /\ "quic_buf" \in handles
    /\ handles' = handles \ {"quic_buf"}
    /\ UNCHANGED <<engine, MsQuic, worker, syncVars, ConnectionHandle, tun, device, threadVars,
                   quicVars>>

(* RECEIVE with the CONFIG_RESP the request asked for. *)
Receive ==
    /\ worker = "none" /\ stream = "open" /\ quic = "connected" /\ reply = "due"
    /\ worker' = "setup"
    /\ reply' = "given"
    /\ UNCHANGED <<objects, engine, syncVars, ConnectionHandle, tun, device, threadVars, quic, stream>>

(* tun_create to tun_start, any of which may fail. *)
TunSetup ==
    /\ worker = "setup"
    /\ \/ device' = "ready" /\ worker' = "assign"
       \/ device' = "partial" /\ worker' = "undo"
    /\ UNCHANGED <<objects, engine, syncVars, ConnectionHandle, tun, threadVars, quicVars>>

AssignTun ==
    /\ worker = "assign"
    /\ tun' = "set"
    /\ worker' = "set_ready"
    /\ UNCHANGED <<objects, engine, syncVars, ConnectionHandle, device, threadVars, quicVars>>

SetReady ==
    /\ worker = "set_ready"
    /\ tun_state' = Set(tun_state, "READY")
    /\ worker' = "none"
    /\ UNCHANGED <<objects, engine, con_state, stream_state, ConnectionHandle, tun, device,
                   threadVars, quicVars>>

(* The error path of process_ctrl_pkt. *)
UndoSetup ==
    /\ worker = "undo"
    /\ device' = "absent"
    /\ worker' = "set_fail"
    /\ UNCHANGED <<objects, engine, syncVars, ConnectionHandle, tun, threadVars, quicVars>>

SetFail ==
    /\ worker = "set_fail"
    /\ tun_state' = Set(tun_state, "FAIL")
    /\ worker' = "none"
    /\ UNCHANGED <<objects, engine, con_state, stream_state, ConnectionHandle, tun, device,
                   threadVars, quicVars>>

process_ctrl_pkt == TunSetup \/ AssignTun \/ SetReady \/ UndoSetup \/ SetFail

(* Mutant: the connection is kept when its stream is gone. *)
StreamShutdownComplete_keeps ==
    /\ worker = "none" /\ stream \in {"started", "open", "refused"}
    /\ "quic_buf" \notin handles
    /\ stream' = "closed"
    /\ stream_state' = Set(stream_state, "CLOSED")
    /\ UNCHANGED <<objects, engine, worker, con_state, tun_state, ConnectionHandle, tun, device,
                   threadVars, quic, reply>>

(* The stream's SHUTDOWN_COMPLETE, which comes after that of its sends, also  *)
(* shuts the connection down.                                                *)
StreamShutdownComplete ==
    /\ worker = "none" /\ stream \in {"started", "open", "refused"}
    /\ "quic_buf" \notin handles
    /\ stream' = "closed"
    /\ stream_state' = Set(stream_state, "CLOSED")
    /\ quic' = IF ConnectionHandle = "open" THEN "shutdown" ELSE quic
    /\ UNCHANGED <<objects, engine, worker, con_state, tun_state, ConnectionHandle, tun, device,
                   threadVars, reply>>

(* The connection's SHUTDOWN_COMPLETE: a failed handshake, a lost peer or a   *)
(* shutdown that was asked for.  Its streams are shut down before it.         *)
ShutdownComplete ==
    /\ worker = "none"
    /\ quic \in {"handshake", "connected", "shutdown"} /\ stream \in {"none", "closed"}
    /\ con_state' = Set(con_state, "DISCONNECTED")
    /\ quic' = "closed"
    /\ worker' = "clear"
    /\ UNCHANGED <<objects, engine, stream_state, tun_state, ConnectionHandle, tun, device,
                   threadVars, stream, reply>>

ClearHandle ==
    /\ worker = "clear"
    /\ ConnectionHandle' = "NULL"
    /\ worker' = "none"
    /\ UNCHANGED <<objects, engine, syncVars, tun, device, threadVars, quicVars>>

-----------------------------------------------------------------------------

vpn_engine_start ==
    \/ detect_default_wan \/ setup_msquic \/ MsQuicConnectionStart \/ SetConnecting \/ WaitConnected
    \/ MsQuicStreamStart \/ StreamStart \/ SetOpening \/ WaitOpen
    \/ request_virtip \/ start_threads

vpn_engine_cleanup ==
    StopThreads \/ TunTeardown \/ MsQuicShutdown \/ FreeSession

Event ==
    \/ Connected \/ ResumptionTicketReceived \/ ShutdownComplete
    \/ StartComplete \/ SendComplete \/ Receive \/ StreamShutdownComplete

(* The session is over, or its cleanup waits for ever. *)
Terminated == engine \in {"freed", "crashed", "c_full"} /\ UNCHANGED vars

Next ==
    \/ engine = "none" /\ session_create /\ UNCHANGED device
    \/ vpn_engine_start \/ Stop \/ vpn_engine_cleanup
    \/ \E k \in Kind : ThreadEnds(k)
    \/ engine # "crashed" /\ (Event \/ process_ctrl_pkt \/ ClearHandle)
    \/ Terminated

(* Threads are scheduled, a callback that was entered goes on, and msquic     *)
(* completes a shutdown the client asked for.  Waits end by their timeout.    *)
Fairness ==
    /\ WF_vars(vpn_engine_start \/ vpn_engine_cleanup)
    /\ \A k \in Kind : WF_vars(ThreadEnds(k))
    /\ WF_vars(engine # "crashed" /\ (process_ctrl_pkt \/ ClearHandle))
    /\ WF_vars(engine # "crashed" /\ quic = "shutdown"
                 /\ (SendComplete \/ StreamShutdownComplete \/ ShutdownComplete))

Spec == Init /\ [][Next]_vars /\ Fairness

-----------------------------------------------------------------------------
(* Properties *)

(* The session outlives what refers to it.  As long as msquic has connection  *)
(* events to deliver, the handle is set, as msquic_connect_callback asserts;  *)
(* and the session is freed only after the last callback on it has returned.  *)
(* By then no msquic object is left open, whatever step of the start has      *)
(* failed, since MsQuicShutdown finds them through session->MsQuic, nor is    *)
(* the buffer of the request.  The ticket, to which it had the only pointer,  *)
(* is not freed.                                                              *)
SessionLifetime ==
    /\ quic \in {"handshake", "connected", "shutdown"} => ConnectionHandle = "open"
    /\ engine = "freed" =>
        /\ worker = "none" /\ quic \in {"none", "closed"}
        /\ handles \subseteq {"ticket"}

(* vpn_engine_start returns, with a session or after its cleanup, whatever    *)
(* the network and the server do; and so does vpn_engine_cleanup, unless the  *)
(* sentinel finds the queue full and the receiving thread gone.               *)
StartReturns ==
    engine \in Starting \cup CleaningUp ~> engine \in {"running", "freed", "crashed", "c_full"}

(* A client whose control stream is gone does not stay connected.             *)
StreamLossDisconnects ==
    stream = "closed" ~> (con_state # "CONNECTED" \/ engine = "crashed")

(* state_sync.h says of state_sync_destroy "The caller must guarantee no      *)
(* threads are currently actively blocking or signaling this instance": no    *)
(* callback is about to set a tun_state that was destroyed.                   *)
DestroyedNotSignaled ==
    tun_state = "destroyed" => worker \notin {"set_ready", "set_fail"}
=============================================================================
