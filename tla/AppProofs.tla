------------------------------ MODULE AppProofs ------------------------------
(***************************************************************************)
(* Proofs about AppLifecycle and the engine below it, however often the    *)
(* engine is started: the session outlives its callbacks, the TUN device   *)
(* comes and goes with it, and app->state can be relied on.                *)
(***************************************************************************)
EXTENDS AppLifecycle, TLAPS

-----------------------------------------------------------------------------
(* The inductive invariant of one session *)

Early == {"none", "wan", "create", "register", "address", "parameters", "credentials", "connect"}
BeforeStream == Early \cup {"started", "connecting", "stream", "stream_open"}
BeforeReply == BeforeStream \cup {"stream_started", "opening", "request"}
Setups == {"setup", "assign", "set_ready", "undo", "set_fail"}

(* Connection, stream and the worker that handles their events. *)
QuicInv ==
    /\ engine \in Early => quic = "none" /\ worker = "none"
    /\ engine \in BeforeStream => stream = "none"
    /\ engine \in BeforeReply => reply = "none"
    /\ quic = "none" => ConnectionHandle = "NULL" /\ stream = "none"
    /\ quic \in {"handshake", "connected", "shutdown"} => ConnectionHandle = "open"
    /\ quic = "closed" => stream \in {"none", "closed"}
    /\ quic = "closed" /\ worker # "clear" => ConnectionHandle = "NULL"
    /\ worker = "clear" => quic = "closed"
    /\ stream \in {"started", "open", "refused"} => quic \in {"connected", "shutdown"}
    /\ worker \in Setups => reply = "given" /\ stream = "open"
    /\ engine = "freed" => worker = "none" /\ quic \in {"none", "closed"}

(* What MsQuicShutdown finds through session->MsQuic. *)
HandleInv ==
    /\ engine \in {"none", "wan", "create"} => MsQuic = "NULL"
    /\ engine \in (Starting \ {"wan", "create"}) \cup {"running"} => MsQuic = "set"
    /\ engine # "freed" /\ MsQuic = "NULL" => handles = {} /\ quic = "none"
    /\ "quic_buf" \in handles => stream = "open"
    /\ engine = "freed" => handles \subseteq {"ticket"}

(* session->tun, the device and tun_state, by the place of process_ctrl_pkt. *)
Tun(t, d, s) == tun = t /\ device = d /\ tun_state = s

TunInv ==
    /\ engine # "none" /\ reply # "given" => Tun("NULL", "absent", "CLOSED")
    /\ worker = "setup" => Tun("NULL", "absent", "CLOSED")
    /\ worker = "assign" => Tun("NULL", "ready", "CLOSED")
    /\ worker = "set_ready" => Tun("set", "ready", "CLOSED") \/ Tun("NULL", "absent", "destroyed")
    /\ worker = "undo" => Tun("NULL", "partial", "CLOSED")
    /\ worker = "set_fail" => Tun("NULL", "absent", "CLOSED")
    /\ worker \in {"none", "clear"} /\ reply = "given" =>
          \/ Tun("set", "ready", "READY")
          \/ Tun("NULL", "absent", "FAIL")
          \/ Tun("NULL", "absent", "destroyed")
    /\ engine = "none" => Tun("NULL", "absent", "destroyed")
    /\ engine \in {"threads", "threads_recv", "running"} => tun_state = "READY"

(* The packet threads run between start_threads and their joins. *)
ThreadInv ==
    /\ thread["send"] = "run" =>
          /\ engine \in {"threads_recv", "running", "c_send", "c_join_send"}
          /\ engine # "c_join_send" => "send" \in running
          /\ tun_state = "READY"
    /\ thread["recv"] = "run" =>
          /\ engine \in {"running", "c_send", "c_join_send", "c_recv", "c_push", "c_join_recv"}
          /\ engine \notin {"c_push", "c_join_recv"} => "recv" \in running
          /\ tun_state = "READY"
    /\ engine \in {"threads_recv", "running"} => thread["send"] # "none"
    /\ thread["send"] = "none" => thread["recv"] = "none"

EngineInv == ClientTypeOK /\ QuicInv /\ HandleInv /\ TunInv /\ ThreadInv

-----------------------------------------------------------------------------
(* The inductive invariant of the programs *)

(* How far the engine is, by the place of its thread. *)
RoutineInv ==
    /\ routine = "none" => engine = "none"
    /\ routine \in {"create", "failed"} => engine \in {"none", "freed"}
    /\ routine = "start" => engine # "none"
    /\ routine \in {"store", "loop"} => engine = "running"
    /\ routine = "cleanup" => engine \in CleaningUp \cup {"freed", "crashed", "c_full"}
    /\ routine = "cleanup" => front = "gtk"
    /\ routine = "ended" /\ front = "gtk" => engine \in {"none", "freed"}

(* A session that was running and is stopped: its device is up until        *)
(* TunTeardown, and gone after it.                                          *)
Stopped ==
    /\ reply = "given" /\ worker \in {"none", "clear"}
    /\ engine \in {"c_send", "c_join_send", "c_recv", "c_push", "c_join_recv", "c_tun"} =>
          tun_state = "READY"
    /\ engine \in {"c_quic", "c_close", "freed"} => tun_state = "destroyed"

StopInv == routine = "cleanup" \/ main = "cleanup" => Stopped

(* app->state, by the places of the two threads of the GTK program. *)
GtkInv ==
    front = "gtk" =>
        /\ main \in Stopping \cup {"idle", "click", "exited", "crashed"}
        /\ routine # "store"
        /\ app_state = "STOPPED" => routine \in {"none", "ended"}
        /\ app_state = "RUNNING" => routine = "loop"
        /\ routine \in {"create", "start", "failed"} => app_state = "STARTING"
        /\ routine = "loop" => app_state \in {"RUNNING", "STOPPING"}
        /\ routine = "cleanup" => app_state = "STOPPING"
        /\ main \in {"idle", "click"} => app_state # "STOPPING"
        /\ main \in {"stop_set", "stop_join"} => app_state # "STARTING"
        /\ caller = "click" /\ main \in {"stop", "stop_starting", "stop_set"} => app_state = "RUNNING"
        /\ caller = "click" => main # "stop_wait"
        /\ caller = "click" /\ main = "stop_join" =>
              \/ app_state = "STOPPING" /\ routine \in {"loop", "cleanup"}
              \/ app_state = "STOPPED" /\ routine = "ended"

(* The headless program. *)
HeadlessInv ==
    front = "headless" =>
        /\ main \in {"boot", "wait", "sigwait", "join", "cleanup", "exited"}
        /\ main = "boot" => routine = "none" /\ starts = 0
        /\ main = "cleanup" =>
              routine = "ended" /\ engine \in CleaningUp \cup {"freed", "crashed", "c_full"}


AppInv == AppTypeOK /\ EngineInv /\ RoutineInv /\ StopInv /\ GtkInv /\ HeadlessInv

-----------------------------------------------------------------------------
(* The steps of one session *)

(* The steps of vpn_engine_start keep the invariant of the session. *)
LEMMA StartInv == EngineInv /\ vpn_engine_start => EngineInv'
  <1> USE DEF EngineInv, ClientTypeOK, QuicInv, HandleInv, TunInv, ThreadInv, Tun, Early,
              BeforeStream, BeforeReply, Setups, Starting, CleaningUp, Kind, Go, Err, Set,
              objects, syncVars, threadVars, quicVars
  <1>1. EngineInv /\ detect_default_wan => EngineInv'
    BY ZenonT(60) DEF detect_default_wan, Opens
  <1>2. EngineInv /\ MsQuicCreate => EngineInv'
    BY DEF MsQuicCreate
  <1>3. EngineInv /\ MsQuicRegister => EngineInv'
    <2> SUFFICES ASSUME EngineInv, MsQuicRegister PROVE EngineInv'
      OBVIOUS
    <2>1. handles' \subseteq handles \cup {"Api", "Registration"}
      BY DEF MsQuicRegister, Opens
    <2>2. handles' \subseteq {"Api", "Registration", "Configuration", "quic_buf", "ticket"}
      BY <2>1
    <2>3. "quic_buf" \in handles' => "quic_buf" \in handles
      BY <2>1
    <2>4. /\ Go("register", "address") \/ Err("register")
          /\ UNCHANGED <<MsQuic, worker, syncVars, ConnectionHandle, tun, device, threadVars, quicVars>>
      BY DEF MsQuicRegister, Opens
    <2> QED
      BY <2>2, <2>3, <2>4
  <1>4. EngineInv /\ MsQuicConfigAddr => EngineInv'
    BY ZenonT(60) DEF MsQuicConfigAddr, Opens
  <1>5. EngineInv /\ MsQuicConfigParameters => EngineInv'
    <2> SUFFICES ASSUME EngineInv, MsQuicConfigParameters PROVE EngineInv'
      OBVIOUS
    <2>1. handles' \subseteq handles \cup {"Configuration"}
      BY DEF MsQuicConfigParameters, Opens
    <2>2. handles' \subseteq {"Api", "Registration", "Configuration", "quic_buf", "ticket"}
      BY <2>1
    <2>3. "quic_buf" \in handles' => "quic_buf" \in handles
      BY <2>1
    <2>4. /\ Go("parameters", "credentials") \/ Err("parameters")
          /\ UNCHANGED <<MsQuic, worker, syncVars, ConnectionHandle, tun, device, threadVars, quicVars>>
      BY DEF MsQuicConfigParameters, Opens
    <2> QED
      BY <2>2, <2>3, <2>4
  <1>6. EngineInv /\ MsQuicConfigCredentials => EngineInv'
    BY ZenonT(60) DEF MsQuicConfigCredentials, Opens
  <1>7. EngineInv /\ MsQuicConnectionStart => EngineInv'
    BY DEF MsQuicConnectionStart
  <1>8. EngineInv /\ SetConnecting => EngineInv'
    BY DEF SetConnecting
  <1>9. EngineInv /\ WaitConnected => EngineInv'
    BY DEF WaitConnected
  <1>10. EngineInv /\ MsQuicStreamStart => EngineInv'
    BY DEF MsQuicStreamStart
  <1>11. EngineInv /\ StreamStart => EngineInv'
    BY DEF StreamStart
  <1>12. EngineInv /\ SetOpening => EngineInv'
    BY DEF SetOpening
  <1>13. EngineInv /\ WaitOpen => EngineInv'
    BY DEF WaitOpen
  <1>14. EngineInv /\ MsQuicStreamSend => EngineInv'
    <2> SUFFICES ASSUME EngineInv, MsQuicStreamSend PROVE EngineInv'
      OBVIOUS
    <2>1. CASE stream = "open" /\ Go("request", "wait_tun") /\ reply' = "due"
               /\ handles' = handles \cup {"quic_buf"}
      <3>1. handles' \subseteq {"Api", "Registration", "Configuration", "quic_buf", "ticket"}
        BY <2>1
      <3> QED
        BY <2>1, <3>1 DEF MsQuicStreamSend
    <2>2. CASE UNCHANGED <<reply, handles>> /\ (Err("request") \/ Go("request", "crashed"))
      BY <2>2 DEF MsQuicStreamSend
    <2> QED
      BY <2>1, <2>2 DEF MsQuicStreamSend
  <1>15. EngineInv /\ WaitTun => EngineInv'
    BY DEF WaitTun
  <1>16. EngineInv /\ StartThread("send", "threads", "threads_recv") => EngineInv'
    BY DEF StartThread
  <1>17. EngineInv /\ StartThread("recv", "threads_recv", "running") => EngineInv'
    BY DEF StartThread
  <1> HIDE DEF EngineInv
  <1> QED
    BY <1>1, <1>2, <1>3, <1>4, <1>5, <1>6, <1>7, <1>8, <1>9, <1>10, <1>11, <1>12, <1>13, <1>14,
       <1>15, <1>16, <1>17, Zenon
    DEF vpn_engine_start, setup_msquic, request_virtip, start_threads

(* So do those of vpn_engine_cleanup, *)
LEMMA CleanupInv == EngineInv /\ (vpn_engine_cleanup \/ Stop) => EngineInv'
  <1> USE DEF EngineInv, ClientTypeOK, QuicInv, HandleInv, TunInv, ThreadInv, Tun, Early,
              BeforeStream, BeforeReply, Setups, Starting, CleaningUp, Kind, Go, Err, Set,
              objects, syncVars, threadVars, quicVars
  <1>1. EngineInv /\ Stop => EngineInv'
    BY DEF Stop
  <1>2. EngineInv /\ Signal("send", "c_send", "c_join_send", "c_recv") => EngineInv'
    BY DEF Signal
  <1>3. EngineInv /\ Join("send", "c_join_send", "c_recv") => EngineInv'
    BY DEF Join
  <1>4. EngineInv /\ Signal("recv", "c_recv", "c_push", "c_tun") => EngineInv'
    BY DEF Signal
  <1>5. EngineInv /\ PushNull => EngineInv'
    BY DEF PushNull
  <1>6. EngineInv /\ Join("recv", "c_join_recv", "c_tun") => EngineInv'
    BY DEF Join
  <1>7. EngineInv /\ TunTeardown => EngineInv'
    BY DEF TunTeardown
  <1>8. EngineInv /\ MsQuicShutdown => EngineInv'
    BY DEF MsQuicShutdown
  <1>9. EngineInv /\ FreeSession => EngineInv'
    BY DEF FreeSession
  <1> HIDE DEF EngineInv
  <1> QED
    BY <1>1, <1>2, <1>3, <1>4, <1>5, <1>6, <1>7, <1>8, <1>9, Zenon DEF vpn_engine_cleanup,
       StopThreads

(* the end of a packet thread, *)
LEMMA ThreadEndsInv == EngineInv /\ (\E k \in Kind : ThreadEnds(k)) => EngineInv'
  <1> USE DEF EngineInv, ClientTypeOK, QuicInv, HandleInv, TunInv, ThreadInv, Tun, Early,
              BeforeStream, BeforeReply, Setups, Starting, CleaningUp, Kind, Go, Err, Set,
              objects, syncVars, threadVars, quicVars
  <1>1. EngineInv /\ ThreadEnds("send") => EngineInv'
    BY DEF ThreadEnds
  <1>2. EngineInv /\ ThreadEnds("recv") => EngineInv'
    BY DEF ThreadEnds
  <1> HIDE DEF EngineInv
  <1> QED
    BY <1>1, <1>2, Zenon DEF Kind

(* the rest of a callback that was entered, *)
LEMMA CallbackInv == EngineInv /\ (process_ctrl_pkt \/ ClearHandle) => EngineInv'
  <1> USE DEF EngineInv, ClientTypeOK, QuicInv, HandleInv, TunInv, ThreadInv, Tun, Early,
              BeforeStream, BeforeReply, Setups, Starting, CleaningUp, Kind, Go, Err, Set,
              objects, syncVars, threadVars, quicVars
  <1>1. EngineInv /\ TunSetup => EngineInv'
    BY DEF TunSetup
  <1>2. EngineInv /\ AssignTun => EngineInv'
    BY DEF AssignTun
  <1>3. EngineInv /\ SetReady => EngineInv'
    BY DEF SetReady
  <1>4. EngineInv /\ UndoSetup => EngineInv'
    BY DEF UndoSetup
  <1>5. EngineInv /\ SetFail => EngineInv'
    BY DEF SetFail
  <1>6. EngineInv /\ ClearHandle => EngineInv'
    BY DEF ClearHandle
  <1> HIDE DEF EngineInv
  <1> QED
    BY <1>1, <1>2, <1>3, <1>4, <1>5, <1>6, Zenon DEF process_ctrl_pkt

(* and the events of msquic.  *)
LEMMA EventInv == EngineInv /\ Event => EngineInv'
  <1> USE DEF EngineInv, ClientTypeOK, QuicInv, HandleInv, TunInv, ThreadInv, Tun, Early,
              BeforeStream, BeforeReply, Setups, Starting, CleaningUp, Kind, Go, Err, Set,
              objects, syncVars, threadVars, quicVars
  <1>1. EngineInv /\ Connected => EngineInv'
    BY DEF Connected
  <1>2. EngineInv /\ ResumptionTicketReceived => EngineInv'
    <2> SUFFICES ASSUME EngineInv, ResumptionTicketReceived PROVE EngineInv'
      OBVIOUS
    <2>1. handles' \subseteq handles \cup {"ticket"}
      BY DEF ResumptionTicketReceived
    <2>2. handles' \subseteq {"Api", "Registration", "Configuration", "quic_buf", "ticket"}
      BY <2>1
    <2>3. "quic_buf" \in handles' => "quic_buf" \in handles
      BY <2>1
    <2>4. /\ quic = "connected"
          /\ UNCHANGED <<engine, MsQuic, worker, syncVars, ConnectionHandle, tun, device,
                         threadVars, quicVars>>
      BY DEF ResumptionTicketReceived
    <2> QED
      BY <2>2, <2>3, <2>4
  <1>3. EngineInv /\ ShutdownComplete => EngineInv'
    BY DEF ShutdownComplete
  <1>4. EngineInv /\ StartComplete => EngineInv'
    BY DEF StartComplete
  <1>5. EngineInv /\ SendComplete => EngineInv'
    BY DEF SendComplete
  <1>6. EngineInv /\ Receive => EngineInv'
    BY DEF Receive
  <1>7. EngineInv /\ StreamShutdownComplete => EngineInv'
    BY DEF StreamShutdownComplete
  <1> HIDE DEF EngineInv
  <1> QED
    BY <1>1, <1>2, <1>3, <1>4, <1>5, <1>6, <1>7, Zenon DEF Event

(* A step of vpn_engine_start or vpn_engine_cleanup; the cleanup of a session *)
(* that was running takes its device down.                                    *)
Moves ==
    /\ engine \in Starting \cup CleaningUp
    /\ engine' # "none"
    /\ engine \in CleaningUp => engine' \in CleaningUp \cup {"freed", "crashed", "c_full"}
    /\ engine \in CleaningUp /\ Stopped => Stopped'

LEMMA EngineMoves == EngineInv /\ (vpn_engine_start \/ vpn_engine_cleanup) => Moves
  <1> USE DEF Moves, Stopped, Starting, CleaningUp, Go, Err
  <1>1. EngineInv /\ detect_default_wan => Moves
    BY DEF detect_default_wan, Opens
  <1>2. EngineInv /\ setup_msquic => Moves
    BY DEF setup_msquic, MsQuicCreate, MsQuicRegister, MsQuicConfigAddr, MsQuicConfigParameters,
       MsQuicConfigCredentials, Opens
  <1>3. EngineInv /\ (MsQuicConnectionStart \/ SetConnecting \/ WaitConnected) => Moves
    BY DEF MsQuicConnectionStart, SetConnecting, WaitConnected
  <1>4. EngineInv /\ (MsQuicStreamStart \/ StreamStart \/ SetOpening \/ WaitOpen) => Moves
    BY DEF MsQuicStreamStart, StreamStart, SetOpening, WaitOpen
  <1>5. EngineInv /\ (request_virtip \/ start_threads) => Moves
    BY DEF request_virtip, MsQuicStreamSend, WaitTun, start_threads, StartThread
  <1>6. EngineInv /\ StopThreads => Moves
    BY DEF StopThreads, Signal, Join, PushNull, EngineInv, TunInv, Tun, syncVars, quicVars
  <1>7. EngineInv /\ TunTeardown => Moves
    BY DEF TunTeardown, EngineInv, TunInv, Tun, syncVars, quicVars
  <1>8. EngineInv /\ (MsQuicShutdown \/ FreeSession) => Moves
    BY DEF MsQuicShutdown, FreeSession, EngineInv, TunInv, Tun, syncVars, quicVars
  <1> HIDE DEF Moves
  <1> QED
    BY <1>1, <1>2, <1>3, <1>4, <1>5, <1>6, <1>7, <1>8, Zenon DEF vpn_engine_start,
       vpn_engine_cleanup

(* The other threads and msquic do not move it. *)
LEMMA EngineStays ==
    EngineInv /\ ((\E k \in Kind : ThreadEnds(k)) \/ process_ctrl_pkt \/ ClearHandle \/ Event) =>
        engine' = engine /\ (Stopped => Stopped')
  <1> USE DEF Stopped, quicVars, syncVars
  <1>1. (\E k \in Kind : ThreadEnds(k)) => engine' = engine /\ (Stopped => Stopped')
    BY DEF ThreadEnds
  <1>2. process_ctrl_pkt \/ ClearHandle => engine' = engine /\ (Stopped => Stopped')
    BY DEF process_ctrl_pkt, TunSetup, AssignTun, SetReady, UndoSetup, SetFail, ClearHandle
  <1>3. Event => engine' = engine /\ (Stopped => Stopped')
    BY DEF Event, Connected, ResumptionTicketReceived, ShutdownComplete, StartComplete,
       SendComplete, Receive, StreamShutdownComplete
  <1> HIDE DEF Stopped
  <1> QED
    BY <1>1, <1>2, <1>3, Zenon

(* What holds of a session that is stopped while it runs, *)
LEMMA RunningStops == EngineInv /\ Stop => Stopped'
  BY DEF EngineInv, ClientTypeOK, TunInv, Tun, Stop, Go, Stopped, syncVars, quicVars

(* and of one that is left alone. *)
LEMMA SessionSame == ASSUME UNCHANGED vars PROVE (EngineInv => EngineInv') /\ (Stopped => Stopped')
  <1>1. EngineInv => EngineInv'
    BY DEF vars, EngineInv, ClientTypeOK, QuicInv, HandleInv, TunInv, ThreadInv, Tun, objects,
       syncVars, threadVars, quicVars
  <1>2. Stopped => Stopped'
    BY DEF vars, Stopped, syncVars, quicVars
  <1> QED
    BY <1>1, <1>2

-----------------------------------------------------------------------------
(* The steps of the programs *)

LEMMA InitInv == AppInit => AppInv
  <1> SUFFICES ASSUME AppInit PROVE AppInv
    OBVIOUS
  <1>1. EngineInv
    BY DEF AppInit, Init, EngineInv, ClientTypeOK, QuicInv, HandleInv, TunInv, ThreadInv, Tun,
       Early, BeforeStream, BeforeReply, Setups, Starting, CleaningUp, Kind
  <1>2. AppTypeOK
    <2>1. starts \in 0 .. MaxStarts
      BY AppAssumption DEF AppInit
    <2>2. joined \in BOOLEAN /\ flag \in BOOLEAN /\ leftover \in BOOLEAN
      BY Zenon DEF AppInit
    <2>3. front \in {"gtk", "headless"} /\ main \in {"idle", "boot"}
      BY DEF AppInit
    <2> QED
      BY <2>1, <2>2, <2>3 DEF AppInit, AppTypeOK, Stopping
  <1>3. RoutineInv /\ StopInv /\ GtkInv /\ HeadlessInv
    BY DEF AppInit, Init, RoutineInv, StopInv, GtkInv, HeadlessInv, Stopping
  <1> QED
    BY <1>1, <1>2, <1>3 DEF AppInv

(* A step of the session alone. *)
LEMMA SessionStepInv ==
    ASSUME AppInv, UNCHANGED appVars,
           \/ vpn_engine_start \/ vpn_engine_cleanup
           \/ (\E k \in Kind : ThreadEnds(k)) \/ process_ctrl_pkt \/ ClearHandle \/ Event
    PROVE  AppInv'
  <1>1. EngineInv'
    BY StartInv, CleanupInv, ThreadEndsInv, CallbackInv, EventInv, Zenon DEF AppInv
  <1>2. AppTypeOK'
    BY DEF AppInv, AppTypeOK, appVars, gtkVars, headlessVars
  <1>3. Moves \/ (engine' = engine /\ (Stopped => Stopped'))
    BY EngineMoves, EngineStays, Zenon DEF AppInv
  <1>4. RoutineInv' /\ GtkInv' /\ HeadlessInv'
    BY <1>3 DEF AppInv, RoutineInv, GtkInv, HeadlessInv, Moves, Starting, CleaningUp, appVars,
       gtkVars, headlessVars
  <1>5. routine = "cleanup" \/ main = "cleanup" => engine \in CleaningUp \cup {"freed", "crashed", "c_full"}
    BY DEF AppInv, AppTypeOK, RoutineInv, GtkInv, HeadlessInv, Stopping
  <1>6. StopInv'
    BY <1>3, <1>5 DEF AppInv, StopInv, Moves, Starting, CleaningUp, appVars
  <1> QED
    BY <1>1, <1>2, <1>4, <1>6 DEF AppInv

(* The engine thread. *)
LEMMA RoutineStepInv == AppInv /\ engine_thread_routine => AppInv'
  <1> USE DEF AppTypeOK, RoutineInv, GtkInv, HeadlessInv, Stopping, Routine, gtkVars, headlessVars
  <1>1. AppInv /\ CreateSession => AppInv'
    <2> SUFFICES ASSUME AppInv, CreateSession PROVE AppInv'
      OBVIOUS
    <2>1. EngineInv'
      <3>1. CASE session_create /\ device' = "absent"
        BY <3>1 DEF session_create, EngineInv, ClientTypeOK, QuicInv, HandleInv, TunInv,
           ThreadInv, Tun, Early, BeforeStream, BeforeReply, Setups, Starting, CleaningUp, Kind
      <3>2. CASE UNCHANGED vars
        BY <3>2, SessionSame DEF AppInv
      <3> QED
        BY <3>1, <3>2 DEF CreateSession
    <2>2. AppTypeOK'
      <3>1. leftover' \in BOOLEAN
        BY Zenon DEF AppInv, CreateSession
      <3> QED
        BY <3>1 DEF AppInv, CreateSession
    <2>3. RoutineInv' /\ GtkInv' /\ HeadlessInv'
      BY DEF AppInv, vars, CreateSession, session_create
    <2>4. StopInv'
      BY DEF AppInv, StopInv, CreateSession
    <2> QED
      BY <2>1, <2>2, <2>3, <2>4 DEF AppInv
  <1>2. AppInv /\ EngineReturned => AppInv'
    <2> SUFFICES ASSUME AppInv, EngineReturned PROVE AppInv'
      OBVIOUS
    <2>1. EngineInv' /\ (Stopped => Stopped')
      BY SessionSame DEF AppInv, EngineReturned
    <2>2. AppTypeOK'
      BY DEF AppInv, EngineReturned, Succeeded, Failed
    <2>3. RoutineInv' /\ GtkInv' /\ HeadlessInv'
      BY DEF AppInv, vars, EngineReturned, Succeeded, Failed
    <2>4. StopInv'
      BY <2>1 DEF AppInv, StopInv, EngineReturned, Succeeded, Failed
    <2> QED
      BY <2>1, <2>2, <2>3, <2>4 DEF AppInv
  <1>3. AppInv /\ EngineStops => AppInv'
    <2> SUFFICES ASSUME AppInv, EngineStops PROVE AppInv'
      OBVIOUS
    <2>1. EngineInv' /\ Stopped'
      BY CleanupInv, RunningStops DEF AppInv, EngineStops
    <2>2. AppTypeOK'
      BY DEF AppInv, EngineStops
    <2>3. RoutineInv' /\ GtkInv' /\ HeadlessInv'
      BY DEF AppInv, CleaningUp, Stop, Go, EngineStops
    <2>4. StopInv'
      BY <2>1 DEF StopInv
    <2> QED
      BY <2>1, <2>2, <2>3, <2>4 DEF AppInv
  <1>4. AppInv /\ EngineStopped => AppInv'
    <2> SUFFICES ASSUME AppInv, EngineStopped PROVE AppInv'
      OBVIOUS
    <2>1. EngineInv' /\ (Stopped => Stopped')
      BY SessionSame DEF AppInv, EngineStopped
    <2>2. AppTypeOK'
      BY DEF AppInv, EngineStopped
    <2>3. RoutineInv' /\ GtkInv' /\ HeadlessInv'
      BY DEF AppInv, vars, EngineStopped
    <2>4. StopInv'
      BY <2>1 DEF AppInv, StopInv, EngineStopped
    <2> QED
      BY <2>1, <2>2, <2>3, <2>4 DEF AppInv
  <1>5. AppInv /\ Announce => AppInv'
    <2> SUFFICES ASSUME AppInv, Announce PROVE AppInv'
      OBVIOUS
    <2>1. EngineInv' /\ (Stopped => Stopped')
      BY SessionSame DEF AppInv, Announce
    <2>2. AppTypeOK'
      BY DEF AppInv, Announce, Succeeded, Failed
    <2>3. RoutineInv' /\ GtkInv' /\ HeadlessInv'
      BY DEF AppInv, vars, Announce, Succeeded, Failed
    <2>4. StopInv'
      BY <2>1 DEF AppInv, StopInv, Announce, Succeeded, Failed
    <2> QED
      BY <2>1, <2>2, <2>3, <2>4 DEF AppInv
  <1>6. AppInv /\ StoreRunning => AppInv'
    <2> SUFFICES ASSUME AppInv, StoreRunning PROVE AppInv'
      OBVIOUS
    <2>1. EngineInv' /\ (Stopped => Stopped')
      BY SessionSame DEF AppInv, StoreRunning
    <2>2. AppTypeOK'
      BY DEF AppInv, StoreRunning
    <2>3. RoutineInv' /\ GtkInv' /\ HeadlessInv'
      BY DEF AppInv, vars, StoreRunning
    <2>4. StopInv'
      BY <2>1 DEF AppInv, StopInv, StoreRunning
    <2> QED
      BY <2>1, <2>2, <2>3, <2>4 DEF AppInv
  <1>7. AppInv /\ LoopEnds => AppInv'
    <2> SUFFICES ASSUME AppInv, LoopEnds PROVE AppInv'
      OBVIOUS
    <2>1. EngineInv' /\ (Stopped => Stopped')
      BY SessionSame DEF AppInv, LoopEnds
    <2>2. AppTypeOK'
      BY DEF AppInv, LoopEnds
    <2>3. RoutineInv' /\ GtkInv' /\ HeadlessInv'
      BY DEF AppInv, vars, LoopEnds
    <2>4. StopInv'
      BY <2>1 DEF AppInv, StopInv, LoopEnds
    <2> QED
      BY <2>1, <2>2, <2>3, <2>4 DEF AppInv
  <1> QED
    BY <1>1, <1>2, <1>3, <1>4, <1>5, <1>6, <1>7, Zenon DEF engine_thread_routine

(* The main thread of the GTK program. *)
LEMMA GtkMainInv ==
    AppInv /\ (Clicked \/ vpn_app_start_engine \/ on_window_destroy \/ vpn_app_stop_engine) => AppInv'
  <1> USE DEF AppTypeOK, RoutineInv, GtkInv, HeadlessInv, Stopping, Main, gtkVars, headlessVars
  <1>1. AppInv /\ Clicked => AppInv'
    <2> SUFFICES ASSUME AppInv, Clicked PROVE AppInv'
      OBVIOUS
    <2>1. EngineInv' /\ (Stopped => Stopped')
      BY SessionSame DEF AppInv, Clicked
    <2>2. AppTypeOK'
      BY DEF AppInv, Clicked
    <2>3. RoutineInv' /\ GtkInv' /\ HeadlessInv'
      BY DEF AppInv, vars, Clicked
    <2>4. StopInv'
      BY <2>1 DEF AppInv, StopInv, Clicked
    <2> QED
      BY <2>1, <2>2, <2>3, <2>4 DEF AppInv
  <1>2. AppInv /\ vpn_app_start_engine => AppInv'
    <2> SUFFICES ASSUME AppInv, vpn_app_start_engine PROVE AppInv'
      OBVIOUS
    <2>1. EngineInv' /\ (Stopped => Stopped')
      BY SessionSame DEF AppInv, vpn_app_start_engine
    <2>2. AppTypeOK'
      <3>1. starts' \in 0 .. MaxStarts
        BY AppAssumption DEF AppInv, vpn_app_start_engine
      <3>2. joined' \in BOOLEAN
        BY Zenon DEF AppInv, vpn_app_start_engine
      <3> QED
        BY <3>1, <3>2 DEF AppInv, vpn_app_start_engine
    <2>3. RoutineInv' /\ GtkInv' /\ HeadlessInv'
      BY DEF AppInv, vars, vpn_app_start_engine
    <2>4. StopInv'
      BY <2>1 DEF AppInv, StopInv, vpn_app_start_engine
    <2> QED
      BY <2>1, <2>2, <2>3, <2>4 DEF AppInv
  <1>3. AppInv /\ on_window_destroy => AppInv'
    <2> SUFFICES ASSUME AppInv, on_window_destroy PROVE AppInv'
      OBVIOUS
    <2>1. EngineInv' /\ (Stopped => Stopped')
      BY SessionSame DEF AppInv, on_window_destroy
    <2>2. AppTypeOK'
      BY DEF AppInv, on_window_destroy
    <2>3. RoutineInv' /\ GtkInv' /\ HeadlessInv'
      BY DEF AppInv, vars, on_window_destroy
    <2>4. StopInv'
      BY <2>1 DEF AppInv, StopInv, on_window_destroy
    <2> QED
      BY <2>1, <2>2, <2>3, <2>4 DEF AppInv
  <1>4. AppInv /\ StopStopped => AppInv'
    <2> SUFFICES ASSUME AppInv, StopStopped PROVE AppInv'
      OBVIOUS
    <2>1. EngineInv' /\ (Stopped => Stopped')
      BY SessionSame DEF AppInv, StopStopped
    <2>2. AppTypeOK'
      BY DEF AppInv, StopStopped, Return
    <2>3. RoutineInv' /\ GtkInv' /\ HeadlessInv'
      BY DEF AppInv, vars, StopStopped, Return
    <2>4. StopInv'
      BY <2>1 DEF AppInv, StopInv, StopStopped, Return
    <2> QED
      BY <2>1, <2>2, <2>3, <2>4 DEF AppInv
  <1>5. AppInv /\ StopStarting => AppInv'
    <2> SUFFICES ASSUME AppInv, StopStarting PROVE AppInv'
      OBVIOUS
    <2>1. EngineInv' /\ (Stopped => Stopped')
      BY SessionSame DEF AppInv, StopStarting
    <2>2. AppTypeOK'
      BY DEF AppInv, StopStarting
    <2>3. RoutineInv' /\ GtkInv' /\ HeadlessInv'
      BY DEF AppInv, vars, StopStarting
    <2>4. StopInv'
      BY <2>1 DEF AppInv, StopInv, StopStarting
    <2> QED
      BY <2>1, <2>2, <2>3, <2>4 DEF AppInv
  <1>6. AppInv /\ StopWait => AppInv'
    <2> SUFFICES ASSUME AppInv, StopWait PROVE AppInv'
      OBVIOUS
    <2>1. EngineInv' /\ (Stopped => Stopped')
      BY SessionSame DEF AppInv, StopWait
    <2>2. AppTypeOK'
      BY DEF AppInv, StopWait
    <2>3. RoutineInv' /\ GtkInv' /\ HeadlessInv'
      BY DEF AppInv, vars, StopWait
    <2>4. StopInv'
      BY <2>1 DEF AppInv, StopInv, StopWait
    <2> QED
      BY <2>1, <2>2, <2>3, <2>4 DEF AppInv
  <1>7. AppInv /\ StopSet => AppInv'
    <2> SUFFICES ASSUME AppInv, StopSet PROVE AppInv'
      OBVIOUS
    <2>1. EngineInv' /\ (Stopped => Stopped')
      BY SessionSame DEF AppInv, StopSet
    <2>2. AppTypeOK'
      BY DEF AppInv, StopSet
    <2>3. RoutineInv' /\ GtkInv' /\ HeadlessInv'
      BY DEF AppInv, vars, StopSet
    <2>4. StopInv'
      BY <2>1 DEF AppInv, StopInv, StopSet
    <2> QED
      BY <2>1, <2>2, <2>3, <2>4 DEF AppInv
  <1>8. AppInv /\ StopJoin => AppInv'
    <2> SUFFICES ASSUME AppInv, StopJoin PROVE AppInv'
      OBVIOUS
    <2>1. EngineInv' /\ (Stopped => Stopped')
      BY SessionSame DEF AppInv, StopJoin
    <2>2. AppTypeOK'
      BY DEF AppInv, StopJoin, Return
    <2>3. RoutineInv' /\ GtkInv' /\ HeadlessInv'
      BY DEF AppInv, vars, StopJoin, Return
    <2>4. StopInv'
      BY <2>1 DEF AppInv, StopInv, StopJoin, Return
    <2> QED
      BY <2>1, <2>2, <2>3, <2>4 DEF AppInv
  <1> QED
    BY <1>1, <1>2, <1>3, <1>4, <1>5, <1>6, <1>7, <1>8, Zenon DEF vpn_app_stop_engine

(* The main thread of the headless client. *)
LEMMA HeadlessMainInv == AppInv /\ (headless_main \/ Signaled) => AppInv'
  <1> USE DEF AppTypeOK, RoutineInv, GtkInv, HeadlessInv, Stopping, Main, gtkVars, headlessVars
  <1>1. AppInv /\ Boot => AppInv'
    <2> SUFFICES ASSUME AppInv, Boot PROVE AppInv'
      OBVIOUS
    <2>1. EngineInv' /\ (Stopped => Stopped')
      BY SessionSame DEF AppInv, Boot
    <2>2. AppTypeOK'
      BY AppAssumption DEF AppInv, Boot
    <2>3. RoutineInv' /\ GtkInv' /\ HeadlessInv'
      BY DEF AppInv, vars, Boot
    <2>4. StopInv'
      BY <2>1 DEF AppInv, StopInv, Boot
    <2> QED
      BY <2>1, <2>2, <2>3, <2>4 DEF AppInv
  <1>2. AppInv /\ WaitStarted => AppInv'
    <2> SUFFICES ASSUME AppInv, WaitStarted PROVE AppInv'
      OBVIOUS
    <2>1. EngineInv' /\ (Stopped => Stopped')
      BY SessionSame DEF AppInv, WaitStarted
    <2>2. AppTypeOK'
      BY DEF AppInv, WaitStarted
    <2>3. RoutineInv' /\ GtkInv' /\ HeadlessInv'
      BY DEF AppInv, vars, WaitStarted
    <2>4. StopInv'
      BY <2>1 DEF AppInv, StopInv, WaitStarted
    <2> QED
      BY <2>1, <2>2, <2>3, <2>4 DEF AppInv
  <1>3. AppInv /\ JoinAndCleanup => AppInv'
    <2> SUFFICES ASSUME AppInv, JoinAndCleanup PROVE AppInv'
      OBVIOUS
    <2>1. EngineInv' /\ Stopped'
      BY CleanupInv, RunningStops DEF AppInv, JoinAndCleanup
    <2>2. AppTypeOK'
      BY DEF AppInv, JoinAndCleanup
    <2>3. RoutineInv' /\ GtkInv' /\ HeadlessInv'
      BY DEF AppInv, CleaningUp, Stop, Go, JoinAndCleanup
    <2>4. StopInv'
      BY <2>1 DEF StopInv
    <2> QED
      BY <2>1, <2>2, <2>3, <2>4 DEF AppInv
  <1>4. AppInv /\ Shutdown => AppInv'
    <2> SUFFICES ASSUME AppInv, Shutdown PROVE AppInv'
      OBVIOUS
    <2>1. EngineInv' /\ (Stopped => Stopped')
      BY SessionSame DEF AppInv, Shutdown
    <2>2. AppTypeOK'
      BY DEF AppInv, Shutdown
    <2>3. RoutineInv' /\ GtkInv' /\ HeadlessInv'
      BY DEF AppInv, vars, Shutdown
    <2>4. StopInv'
      BY <2>1 DEF AppInv, StopInv, Shutdown
    <2> QED
      BY <2>1, <2>2, <2>3, <2>4 DEF AppInv
  <1>5. AppInv /\ Signaled => AppInv'
    <2> SUFFICES ASSUME AppInv, Signaled PROVE AppInv'
      OBVIOUS
    <2>1. EngineInv' /\ (Stopped => Stopped')
      BY SessionSame DEF AppInv, Signaled
    <2>2. AppTypeOK'
      BY ZenonT(60) DEF AppInv, Signaled
    <2>3. RoutineInv' /\ GtkInv' /\ HeadlessInv'
      BY DEF AppInv, vars, Signaled
    <2>4. StopInv'
      BY <2>1 DEF AppInv, StopInv, Signaled
    <2> QED
      BY <2>1, <2>2, <2>3, <2>4 DEF AppInv
  <1> QED
    BY <1>1, <1>2, <1>3, <1>4, <1>5, Zenon DEF headless_main

(* Every step of either program keeps the invariant. *)
LEMMA StepInv == AppInv /\ [AppNext]_allVars => AppInv'
  <1> SUFFICES ASSUME AppInv, [AppNext]_allVars PROVE AppInv'
    OBVIOUS
  <1>1. CASE engine_thread_routine
    BY <1>1, RoutineStepInv
  <1>2. CASE Clicked \/ vpn_app_start_engine \/ on_window_destroy \/ vpn_app_stop_engine
    BY <1>2, GtkMainInv
  <1>3. CASE headless_main \/ Signaled
    BY <1>3, HeadlessMainInv
  <1>4. CASE EngineStep \/ CallbackStep \/ (\E k \in Kind : ThreadStep(k)) \/ (Event /\ UNCHANGED appVars)
    BY <1>4, SessionStepInv, Zenon DEF EngineStep, CallbackStep, ThreadStep
  <1>5. CASE UNCHANGED allVars
    <2>1. UNCHANGED vars /\ UNCHANGED appVars
      BY <1>5 DEF allVars
    <2>2. EngineInv' /\ (Stopped => Stopped')
      BY <2>1, SessionSame DEF AppInv
    <2> QED
      BY <2>1, <2>2 DEF AppInv, AppTypeOK, RoutineInv, StopInv, GtkInv, HeadlessInv, vars,
         appVars, gtkVars, headlessVars
  <1> QED
    BY <1>1, <1>2, <1>3, <1>4, <1>5, Zenon DEF AppNext, AppTerminated

(* The invariant holds at all times. *)
LEMMA AppAlways == AppSpec => []AppInv
  BY InitInv, StepInv, PTL DEF AppSpec

-----------------------------------------------------------------------------
(* What it says *)

(* The variables of the session and of the programs keep their types. *)
THEOREM AppTypes == AppSpec => [](ClientTypeOK /\ AppTypeOK)
  <1>1. AppInv => ClientTypeOK /\ AppTypeOK
    BY DEF AppInv, EngineInv
  <1> QED
    BY <1>1, AppAlways, PTL

(* The handle is set while msquic has connection events to deliver; and the   *)
(* session is freed after its last callback, with every msquic object closed  *)
(* and the request's buffer returned, wherever vpn_engine_start has failed.   *)
THEOREM SessionOutlivesItsUsers == AppSpec => []SessionLifetime
  <1>1. AppInv => SessionLifetime
    BY DEF AppInv, EngineInv, QuicInv, HandleInv, SessionLifetime
  <1> QED
    BY <1>1, AppAlways, PTL

(* The packet threads have their device as long as they run; TUN_FAIL means   *)
(* that no device is left; and a session that was running leaves none when it *)
(* is stopped.                                                                *)
THEOREM DeviceFollowsSession == AppSpec => []DeviceLifetime
  <1>1. AppInv => DeviceLifetime
    <2> SUFFICES ASSUME AppInv PROVE DeviceLifetime
      OBVIOUS
    <2>1. tun_state = "READY" => tun = "set" /\ device = "ready"
      BY DEF AppInv, EngineInv, ClientTypeOK, TunInv, Tun
    <2>2. tun_state = "FAIL" => device = "absent" /\ tun = "NULL"
      BY DEF AppInv, EngineInv, ClientTypeOK, TunInv, Tun
    <2>3. Stopped /\ engine = "freed" => device = "absent"
      BY DEF AppInv, EngineInv, TunInv, Tun, Stopped
    <2>4. \A k \in Kind : thread[k] = "run" => tun_state = "READY"
      BY DEF AppInv, EngineInv, ThreadInv, Kind
    <2> QED
      BY <2>1, <2>2, <2>3, <2>4 DEF DeviceLifetime, AppInv, StopInv
  <1> QED
    BY <1>1, AppAlways, PTL

(* STOPPED means that nothing of an earlier session is left, so that the      *)
(* button can start the next; and in the event loop the state is not          *)
(* STOPPING, in which the button would do nothing.                            *)
THEOREM StateCanBeReliedOn == AppSpec => []StateTruthful
  <1>1. AppInv => StateTruthful
    <2> SUFFICES ASSUME AppInv PROVE StateTruthful
      OBVIOUS
    <2>1. engine \in {"none", "freed"} => worker = "none" /\ \A k \in Kind : thread[k] # "run"
      BY DEF AppInv, EngineInv, QuicInv, ThreadInv, Early, Kind
    <2>2. front = "gtk" /\ routine \in {"none", "ended"} => engine \in {"none", "freed"}
      BY DEF AppInv, RoutineInv
    <2>3. main = "idle" => front = "gtk"
      BY DEF AppInv, AppTypeOK, HeadlessInv
    <2> QED
      BY <2>1, <2>2, <2>3 DEF AppInv, GtkInv, StateTruthful
  <1> QED
    BY <1>1, AppAlways, PTL
=============================================================================
