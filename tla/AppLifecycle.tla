---------------------------- MODULE AppLifecycle ----------------------------
(***************************************************************************)
(* The programs around the client's engine: the GTK application            *)
(* (client/src/app/vpn_app.c, gtk_app.c, ui/view_controls.c,               *)
(* ui/window_main.c) and the headless client (vpn_client_headless.c).      *)
(*                                                                         *)
(* Both run the engine on a thread of its own (routine), beside the main   *)
(* thread (main) that starts and stops it; a behaviour is one of the GTK   *)
(* program or one of the headless program (front).  The GTK program can    *)
(* start the engine again; every start has a new session of ClientEngine.  *)
(***************************************************************************)
EXTENDS ClientEngine, Naturals

CONSTANT MaxStarts  \* bound: how often the engine is started

VARIABLES
    front,      \* which program this is
    main,       \* the main thread
    caller,     \* who called vpn_app_stop_engine
    routine,    \* the engine thread
    joined,     \* whether the engine thread was joined
    app_state,  \* app->state
    announced,  \* headless: vpn_engine_start_done and _success
    flag,       \* headless: vpn_engine_running
    starts,     \* how often the engine was started
    leftover    \* whether a device of an earlier session is still there

gtkVars == <<caller, app_state>>
headlessVars == <<announced, flag>>
appVars == <<front, main, routine, joined, gtkVars, headlessVars, starts, leftover>>
allVars == <<vars, appVars>>

ASSUME AppAssumption == MaxStarts \in Nat \ {0}

Stopping == {"stop", "stop_starting", "stop_wait", "stop_set", "stop_join"}

(* Type invariant of the two threads and of what they share. *)
AppTypeOK ==
    /\ front \in {"gtk", "headless"}
    /\ main \in Stopping \cup {"boot", "idle", "click", "wait", "sigwait", "join", "cleanup",
                               "exited", "crashed"}
    /\ caller \in {"none", "click", "window", "shutdown", "destroy"}
    /\ routine \in {"none", "create", "start", "failed", "store", "loop", "cleanup", "ended"}
    /\ joined \in BOOLEAN
    /\ app_state \in {"STOPPED", "STARTING", "RUNNING", "STOPPING"}
    /\ announced \in {"no", "success", "failure"}
    /\ flag \in BOOLEAN
    /\ starts \in 0 .. MaxStarts
    /\ leftover \in BOOLEAN

(* vpn_app_create, or the static initial values of the headless client. *)
AppInit ==
    /\ Init
    /\ front \in {"gtk", "headless"}
    /\ main = IF front = "gtk" THEN "idle" ELSE "boot"
    /\ caller = "none"
    /\ routine = "none" /\ joined = FALSE
    /\ app_state = "STOPPED"
    /\ announced = "no" /\ flag = FALSE
    /\ starts = 0 /\ leftover = FALSE

Main(from, to) == main = from /\ main' = to
Routine(from, to) == routine = from /\ routine' = to

-----------------------------------------------------------------------------
(* The engine thread *)

(* vpn_engine_start creates a session, or fails and returns NULL. *)
CreateSession ==
    /\ \/ /\ Routine("create", "start")
          /\ session_create
          /\ device' = "absent"
          /\ leftover' = (leftover \/ device # "absent")
       \/ /\ Routine("create", "failed")
          /\ UNCHANGED <<vars, leftover>>
    /\ UNCHANGED <<front, main, joined, gtkVars, headlessVars, starts>>

(* vpn_engine_start has returned a session, or NULL. *)
Succeeded == routine = "start" /\ engine = "running"
Failed == routine = "failed" \/ (routine = "start" /\ engine = "freed")

(* GTK: engine_thread_routine records the outcome in app->state. *)
EngineReturned ==
    /\ front = "gtk"
    /\ \/ Succeeded /\ routine' = "loop" /\ app_state' = "RUNNING"
       \/ Failed /\ routine' = "ended" /\ app_state' = "STOPPED"
    /\ UNCHANGED <<vars, front, main, joined, caller, headlessVars, starts, leftover>>

(* Mutant: the state is STOPPED before the cleanup. *)
EngineStops_early ==
    /\ front = "gtk"
    /\ app_state # "RUNNING"
    /\ Routine("loop", "cleanup")
    /\ Stop
    /\ app_state' = "STOPPED"
    /\ UNCHANGED <<front, main, joined, caller, headlessVars, starts, leftover>>

(* Mutant: the loop goes on after the state has changed. *)
EngineStops_never ==
    /\ front = "gtk"
    /\ app_state # "RUNNING"
    /\ Routine("loop", "loop")
    /\ UNCHANGED <<vars, front, main, joined, gtkVars, headlessVars, starts, leftover>>

(* GTK: the loop ends when the state is not RUNNING, and cleans up. *)
EngineStops ==
    /\ front = "gtk"
    /\ app_state # "RUNNING"
    /\ Routine("loop", "cleanup")
    /\ Stop
    /\ UNCHANGED <<front, main, joined, gtkVars, headlessVars, starts, leftover>>

EngineStopped ==
    /\ engine = "freed"
    /\ Routine("cleanup", "ended")
    /\ app_state' = "STOPPED"
    /\ UNCHANGED <<vars, front, main, joined, caller, headlessVars, starts, leftover>>

(* Headless: the outcome is announced under vpn_engine_start_lock. *)
Announce ==
    /\ front = "headless"
    /\ \/ Succeeded /\ routine' = "store" /\ announced' = "success"
       \/ Failed /\ routine' = "ended" /\ announced' = "failure"
    /\ UNCHANGED <<vars, front, main, joined, gtkVars, flag, starts, leftover>>

(* vpn_engine_running is set after the announcement. *)
StoreRunning ==
    /\ Routine("store", "loop")
    /\ flag' = TRUE
    /\ UNCHANGED <<vars, front, main, joined, gtkVars, announced, starts, leftover>>

LoopEnds ==
    /\ front = "headless" /\ ~flag
    /\ Routine("loop", "ended")
    /\ UNCHANGED <<vars, front, main, joined, gtkVars, headlessVars, starts, leftover>>

engine_thread_routine ==
    \/ CreateSession
    \/ EngineReturned \/ EngineStops \/ EngineStopped
    \/ Announce \/ StoreRunning \/ LoopEnds

-----------------------------------------------------------------------------
(* The main thread of the GTK program: it handles one event at a time. *)

(* on_start_stop_clicked: stops a running engine; else looks once more. *)
Clicked ==
    /\ \/ /\ app_state = "RUNNING"
          /\ Main("idle", "stop")
          /\ caller' = "click"
       \/ /\ app_state # "RUNNING"
          /\ Main("idle", "click")
          /\ UNCHANGED caller
    /\ front = "gtk"
    /\ UNCHANGED <<vars, front, routine, joined, app_state, headlessVars, starts, leftover>>

(* view_controls_read_config and vpn_app_start_engine, which ignores what   *)
(* pthread_create returns; or nothing, when the state is not STOPPED.       *)
vpn_app_start_engine ==
    /\ Main("click", "idle")
    /\ \/ /\ app_state = "STOPPED" /\ starts < MaxStarts
          /\ app_state' = "STARTING"
          /\ starts' = starts + 1
          /\ \/ routine' = "create" /\ joined' = FALSE
             \/ UNCHANGED <<routine, joined>>
       \/ /\ app_state # "STOPPED" \/ starts = MaxStarts
          /\ UNCHANGED <<app_state, starts, routine, joined>>
    /\ UNCHANGED <<vars, front, caller, headlessVars, leftover>>

(* The window is closed: its destroy handlers, the shutdown handler and     *)
(* vpn_app_destroy each call vpn_app_stop_engine.                           *)
on_window_destroy ==
    /\ front = "gtk"
    /\ Main("idle", "stop")
    /\ caller' = "window"
    /\ UNCHANGED <<vars, front, routine, joined, app_state, headlessVars, starts, leftover>>

(* What follows a return of vpn_app_stop_engine. *)
Return ==
    /\ caller' = CASE caller = "click" -> "none"
                   [] caller = "window" -> "shutdown"
                   [] OTHER -> "destroy"
    /\ main' = CASE caller = "click" -> "idle"
                 [] caller = "destroy" -> "exited"
                 [] OTHER -> "stop"

StopStopped ==
    /\ main = "stop"
    /\ \/ app_state = "STOPPED" /\ Return
       \/ app_state # "STOPPED" /\ main' = "stop_starting" /\ UNCHANGED caller
    /\ UNCHANGED <<vars, front, routine, joined, app_state, headlessVars, starts, leftover>>

StopStarting ==
    /\ main = "stop_starting"
    /\ main' = IF app_state = "STARTING" THEN "stop_wait" ELSE "stop_set"
    /\ UNCHANGED <<vars, front, routine, joined, gtkVars, headlessVars, starts, leftover>>

(* state_sync_wait: for RUNNING only, without abort state or timeout. *)
StopWait ==
    /\ app_state = "RUNNING"
    /\ Main("stop_wait", "stop_set")
    /\ UNCHANGED <<vars, front, routine, joined, gtkVars, headlessVars, starts, leftover>>

StopSet ==
    /\ Main("stop_set", "stop_join")
    /\ app_state' = "STOPPING"
    /\ UNCHANGED <<vars, front, routine, joined, caller, headlessVars, starts, leftover>>

(* pthread_join; joining a thread again is undefined. *)
StopJoin ==
    /\ main = "stop_join" /\ routine = "ended"
    /\ \/ Return
       \/ joined /\ main' = "crashed" /\ UNCHANGED caller
    /\ joined' = TRUE
    /\ UNCHANGED <<vars, front, routine, app_state, headlessVars, starts, leftover>>

vpn_app_stop_engine == StopStopped \/ StopStarting \/ StopWait \/ StopSet \/ StopJoin

-----------------------------------------------------------------------------
(* The main thread of the headless client *)

Boot ==
    /\ \/ Main("boot", "wait") /\ routine' = "create"
       \/ Main("boot", "exited") /\ UNCHANGED routine
    /\ starts' = starts + 1
    /\ UNCHANGED <<vars, front, joined, gtkVars, headlessVars, leftover>>

WaitStarted ==
    /\ \/ announced = "success" /\ Main("wait", "sigwait")
       \/ announced = "failure" /\ routine = "ended" /\ Main("wait", "exited")
    /\ UNCHANGED <<vars, front, routine, joined, gtkVars, headlessVars, starts, leftover>>

(* sigwait returns, and vpn_engine_running is cleared. *)
Signaled ==
    /\ Main("sigwait", "join")
    /\ flag' = FALSE
    /\ UNCHANGED <<vars, front, routine, joined, gtkVars, announced, starts, leftover>>

JoinAndCleanup ==
    /\ routine = "ended"
    /\ Main("join", "cleanup")
    /\ Stop
    /\ UNCHANGED <<front, routine, joined, gtkVars, headlessVars, starts, leftover>>

Shutdown ==
    /\ engine = "freed"
    /\ Main("cleanup", "exited")
    /\ UNCHANGED <<vars, front, routine, joined, gtkVars, headlessVars, starts, leftover>>

headless_main == Boot \/ WaitStarted \/ JoinAndCleanup \/ Shutdown

-----------------------------------------------------------------------------

Live == main \notin {"exited", "crashed"} /\ engine # "crashed"

EngineStep == (vpn_engine_start \/ vpn_engine_cleanup) /\ UNCHANGED appVars
ThreadStep(k) == ThreadEnds(k) /\ UNCHANGED appVars
CallbackStep == (process_ctrl_pkt \/ ClearHandle) /\ UNCHANGED appVars
ClosingStep ==
    /\ quic = "shutdown"
    /\ SendComplete \/ StreamShutdownComplete \/ ShutdownComplete
    /\ UNCHANGED appVars

(* The process is gone, or a thread waits for ever: vpn_app_stop_engine for *)
(* a start that failed or never began, the headless main thread for a loop  *)
(* whose flag was set after it was cleared, or the cleanup for its queue.   *)
AppTerminated ==
    /\ \/ ~Live
       \/ main = "stop_wait" /\ routine \in {"none", "ended"}
       \/ main = "join" /\ routine = "loop" /\ flag
       \/ engine = "c_full"
    /\ UNCHANGED allVars

AppNext ==
    \/ /\ Live
       /\ \/ engine_thread_routine
          \/ Clicked \/ vpn_app_start_engine \/ on_window_destroy \/ vpn_app_stop_engine
          \/ headless_main \/ Signaled
          \/ EngineStep \/ CallbackStep
          \/ \E k \in Kind : ThreadStep(k)
          \/ Event /\ UNCHANGED appVars
    \/ AppTerminated

(* Fairness of ClientEngine, and of the two threads.  Clicks, signals and   *)
(* closing the window are up to the user.                                   *)
AppFairness ==
    /\ WF_allVars(Live /\ EngineStep)
    /\ \A k \in Kind : WF_allVars(Live /\ ThreadStep(k))
    /\ WF_allVars(Live /\ CallbackStep)
    /\ WF_allVars(Live /\ ClosingStep)
    /\ WF_allVars(Live /\ engine_thread_routine)
    /\ WF_allVars(Live /\ (vpn_app_start_engine \/ vpn_app_stop_engine \/ headless_main))

AppSpec == AppInit /\ [][AppNext]_allVars /\ AppFairness

-----------------------------------------------------------------------------
(* Properties *)

(* app->state can be relied on.  STOPPED, which lets the button read a new  *)
(* configuration and start an engine, means that no session, packet thread  *)
(* or callback of the one before is left.  And the button does not go dead: *)
(* back in the event loop, the state is not STOPPING, in which a click      *)
(* neither starts nor stops.                                                *)
StateTruthful ==
    /\ front = "gtk" /\ app_state = "STOPPED" =>
        /\ engine \in {"none", "freed"} /\ worker = "none"
        /\ \A k \in Kind : thread[k] # "run"
        /\ routine \in {"none", "ended"}
    /\ main = "idle" => app_state # "STOPPING"

(* The TUN device comes and goes with its session.  While a packet thread   *)
(* runs, the device it reads or writes is there: session->tun is stored     *)
(* before TUN_READY lets start_threads run, and the cleanup joins the       *)
(* threads before it takes the device down.  When TUN_FAIL is announced,    *)
(* nothing of the half-made device is left and session->tun does not point  *)
(* to it; and a session that was running leaves no device behind when it is *)
(* stopped, whatever its connection was doing.                              *)
DeviceLifetime ==
    /\ (\E k \in Kind : thread[k] = "run") =>
        tun = "set" /\ device = "ready" /\ tun_state = "READY"
    /\ tun_state = "FAIL" => device = "absent" /\ tun = "NULL"
    /\ (routine = "cleanup" \/ main = "cleanup") /\ engine = "freed" => device = "absent"

(* Starting and stopping come to their ends, unless the cleanup waits for   *)
(* room in a full queue whose reader is gone.  vpn_engine_start returns,    *)
(* with a session or after its cleanup, whatever network and server do, and *)
(* so does vpn_engine_cleanup.  vpn_app_stop_engine joins the thread of an  *)
(* engine that runs, and a signal that comes while the headless client's    *)
(* loop runs ends the program after the cleanup.                            *)
StartAndStopEnd ==
    /\ StartReturns
    /\ main = "stop_set" ~> (main \notin {"stop_set", "stop_join"} \/ ~Live \/ engine = "c_full")
    /\ (main = "join" /\ routine = "loop" /\ ~flag) ~> (~Live \/ engine = "c_full")

(* gtk_app.c says of the shutdown handler "No exit(0) needed:               *)
(* g_application_run unblocks and main thread exits cleanly": once the      *)
(* window is closed the program ends.                                       *)
ExitsCleanly ==
    main = "stop" /\ caller = "window" ~> ~Live
=============================================================================
