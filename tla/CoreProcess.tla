---------------------------- MODULE CoreProcess -----------------------------
(***************************************************************************)
(* The GUI's supervisor of the core process: class CoreProcess of          *)
(* src/gharqad/sys/Process.cpp, driven by the signals of one QProcess.     *)
(*                                                                         *)
(* Everything here runs on the core thread (DS_cores): signal handlers,    *)
(* the 200 ms restart timer and the lambdas other threads queue.  The      *)
(* thread is a variable because three of its handlers block: Restart and   *)
(* Kill inside waitForFinished, and the crash handler inside               *)
(* profile_stop(true, true).  A signal raised while waiting is delivered   *)
(* there and then.                                                         *)
(*                                                                         *)
(* The 10 s rate limit is the variable coreRestartTimer: invalid, running  *)
(* for less than 10 s ("recent"), or for more ("old").                     *)
(***************************************************************************)
EXTENDS Naturals, Sequences

CONSTANTS
  Profiles,    \* profile ids
  NoId,        \* -1 (and -1919): no profile
  UiTasks,     \* what else may be posted to the UI thread
  MaxCrashes,  \* bound: how often a core that was not killed exits
  MaxCalls     \* bound: Recover, Request and Kill calls from other threads

ASSUME SupAssumption ==
  /\ NoId \notin Profiles
  /\ UiTasks \cap (Profiles \cup {NoId}) = {}
  /\ MaxCrashes \in Nat
  /\ MaxCalls \in Nat

VARIABLES
  proc,              \* QProcess::state()
  listening,         \* this process has printed "Core listening"
  doomed,            \* SIGKILL was sent to this process
  portOK,            \* core_port is the port this process was given
  core_running,      \* dataStore->core_running
  failed_to_start,
  has_reached_running_state,
  coreRestartTimer,
  start_profile,     \* start_profile_when_core_is_up
  started_id,        \* dataStore->started_id
  pendingRestarts,   \* 200 ms timers that have not fired
  thread,            \* what the core thread is doing
  prepare_exit,
  ui,                \* posted to the UI thread: CoreStarted messages (ids), UiTasks
  crashes, calls     \* counters for the bounds

procVars == <<proc, listening, doomed, portOK, core_running, failed_to_start,
              has_reached_running_state>>
supVars == <<procVars, coreRestartTimer, start_profile, started_id,
             pendingRestarts, thread, prepare_exit, ui, crashes, calls>>

Ids == Profiles \cup {NoId}

SupTypeOK ==
  /\ proc \in {"NotRunning", "Starting", "Running"}
  /\ listening \in BOOLEAN /\ doomed \in BOOLEAN /\ portOK \in BOOLEAN
  /\ core_running \in BOOLEAN
  /\ failed_to_start \in BOOLEAN
  /\ has_reached_running_state \in BOOLEAN
  /\ coreRestartTimer \in {"invalid", "recent", "old"}
  /\ start_profile \in Ids
  /\ started_id \in Ids
  /\ pendingRestarts \in Nat
  /\ thread \in {"idle", "restart", "kill", "cleanup"}
  /\ prepare_exit \in BOOLEAN
  /\ ui \in Seq(Ids \cup UiTasks)
  /\ crashes \in Nat
  /\ calls \in Nat

\* The constructor has run and Start() has called process.start(); the profile
\* remembered from the last session, if any, waits for the core.
SupInit ==
  /\ proc = "Starting"
  /\ listening = FALSE
  /\ doomed = FALSE
  /\ portOK = TRUE
  /\ core_running = FALSE
  /\ failed_to_start = FALSE
  /\ has_reached_running_state = FALSE
  /\ coreRestartTimer = "invalid"
  /\ start_profile \in Ids
  /\ started_id = NoId
  /\ pendingRestarts = 0
  /\ thread = "idle"
  /\ prepare_exit = FALSE
  /\ ui = <<>>
  /\ crashes = 0
  /\ calls = 0

-----------------------------------------------------------------------------
(***************************************************************************)
(* Start(), as Restart calls it with started = false: a fresh port is      *)
(* chosen first, and process.start() does nothing on a process that still  *)
(* runs.                                                                   *)
(***************************************************************************)
StartProcess ==
  /\ failed_to_start' = FALSE
  /\ \/ /\ proc = "NotRunning"
        /\ proc' = "Starting"
        /\ listening' = FALSE
        /\ doomed' = FALSE
        /\ portOK' = TRUE
     \/ /\ proc # "NotRunning"
        /\ portOK' = FALSE
        /\ UNCHANGED <<proc, listening, doomed>>
  /\ UNCHANGED <<core_running, has_reached_running_state>>

(***************************************************************************)
(* Signals.  stateChanged(Running), then readyRead with "Core listening".  *)
(***************************************************************************)
BecomesRunning ==
  /\ proc = "Starting"
  /\ thread # "cleanup"
  /\ proc' = "Running"
  /\ core_running' = TRUE
  /\ has_reached_running_state' = TRUE
  /\ UNCHANGED <<listening, doomed, portOK, failed_to_start, coreRestartTimer,
                 start_profile, started_id, pendingRestarts, thread, prepare_exit,
                 ui, crashes, calls>>

\* errorOccurred(FailedToStart) with stateChanged(NotRunning): no retry.
FailsToStart ==
  /\ proc = "Starting"
  /\ thread # "cleanup"
  /\ crashes < MaxCrashes
  /\ crashes' = crashes + 1
  /\ proc' = "NotRunning"
  /\ core_running' = FALSE
  /\ failed_to_start' = TRUE
  /\ UNCHANGED <<listening, doomed, portOK, has_reached_running_state,
                 coreRestartTimer, start_profile, started_id, pendingRestarts,
                 thread, prepare_exit, ui, calls>>

\* Mutant of CoreListens: the waiting profile is handed over but not forgotten.
MutCoreListensKeeps ==
  /\ proc = "Running"
  /\ ~listening
  /\ thread # "cleanup"
  /\ listening' = TRUE
  /\ ui' = Append(ui, start_profile)
  /\ UNCHANGED <<proc, doomed, portOK, core_running, failed_to_start,
                 has_reached_running_state, coreRestartTimer, start_profile, started_id,
                 pendingRestarts, thread, prepare_exit, crashes, calls>>

CoreListens ==
  /\ proc = "Running"
  /\ ~listening
  /\ thread # "cleanup"
  /\ listening' = TRUE
  /\ ui' = Append(ui, start_profile)
  /\ start_profile' = NoId
  /\ UNCHANGED <<proc, doomed, portOK, core_running, failed_to_start,
                 has_reached_running_state, coreRestartTimer, started_id,
                 pendingRestarts, thread, prepare_exit, crashes, calls>>

\* Mutant of CoreExits: prepare_exit is not looked at.
MutCoreExitsAlways ==
  /\ proc = "Running"
  /\ thread # "cleanup"
  /\ doomed \/ crashes < MaxCrashes
  /\ crashes' = IF doomed THEN crashes ELSE crashes + 1
  /\ proc' = "NotRunning"
  /\ core_running' = FALSE
  /\ thread' = IF thread = "restart" THEN "restart" ELSE "cleanup"
  /\ UNCHANGED <<listening, doomed, portOK, failed_to_start,
                 has_reached_running_state, coreRestartTimer, start_profile,
                 started_id, pendingRestarts, prepare_exit, ui, calls>>

(***************************************************************************)
(* stateChanged(NotRunning).  Inside Restart the restarting mutex is held  *)
(* and the handler returns; otherwise it stops the profile before it looks *)
(* at the rate limit, and the thread stays there until that is done.       *)
(***************************************************************************)
CoreExits ==
  /\ proc = "Running"
  /\ thread # "cleanup"
  /\ doomed \/ crashes < MaxCrashes
  /\ crashes' = IF doomed THEN crashes ELSE crashes + 1
  /\ proc' = "NotRunning"
  /\ core_running' = FALSE
  /\ thread' = IF thread = "restart" THEN "restart"
               ELSE IF prepare_exit \/ ~has_reached_running_state \/ failed_to_start
               THEN "idle" ELSE "cleanup"
  /\ UNCHANGED <<listening, doomed, portOK, failed_to_start,
                 has_reached_running_state, coreRestartTimer, start_profile,
                 started_id, pendingRestarts, prepare_exit, ui, calls>>

\* Mutant of CleanupDone: a core that ran for ten seconds is not restarted.
MutCleanupGivesUp ==
  /\ thread = "cleanup"
  /\ thread' = "idle"
  /\ \/ /\ coreRestartTimer # "invalid"
        /\ coreRestartTimer' = "recent"
        /\ UNCHANGED <<start_profile, pendingRestarts>>
     \/ /\ coreRestartTimer = "invalid"
        /\ coreRestartTimer' = "recent"
        /\ start_profile' = started_id
        /\ pendingRestarts' = pendingRestarts + 1
  /\ UNCHANGED <<procVars, started_id, prepare_exit, ui, crashes, calls>>

CleanupDone ==
  /\ thread = "cleanup"
  /\ thread' = "idle"
  /\ \/ /\ coreRestartTimer = "recent"
        /\ coreRestartTimer' = "invalid"
        /\ UNCHANGED <<start_profile, pendingRestarts>>
     \/ /\ coreRestartTimer # "recent"
        /\ coreRestartTimer' = "recent"
        /\ start_profile' = started_id
        /\ pendingRestarts' = pendingRestarts + 1
  /\ UNCHANGED <<procVars, started_id, prepare_exit, ui, crashes, calls>>

\* Ten seconds pass.  Pending 200 ms timers may still be pending: they fire on
\* the core thread, which the crash handler can block for longer than that.
TenSeconds ==
  /\ coreRestartTimer = "recent"
  /\ coreRestartTimer' = "old"
  /\ UNCHANGED <<procVars, start_profile, started_id, pendingRestarts, thread,
                 prepare_exit, ui, crashes, calls>>

-----------------------------------------------------------------------------
\* Mutant of Restart: the old process is not killed first.
MutRestartNoKill == StartProcess /\ UNCHANGED thread

(***************************************************************************)
(* Restart(): kill and wait up to 3 s, then Start() whether the old        *)
(* process is gone or not.                                                 *)
(***************************************************************************)
Restart ==
  \/ /\ proc = "NotRunning"
     /\ StartProcess
     /\ UNCHANGED thread
  \/ /\ proc # "NotRunning"
     /\ doomed' = TRUE
     /\ thread' = "restart"
     /\ UNCHANGED <<proc, listening, portOK, core_running, failed_to_start,
                    has_reached_running_state>>

\* Mutant of RestartFires: a timer that repeats.
MutRestartRepeats ==
  /\ thread = "idle"
  /\ pendingRestarts > 0
  /\ Restart
  /\ UNCHANGED <<coreRestartTimer, start_profile, started_id, pendingRestarts,
                 prepare_exit, ui, crashes, calls>>

RestartFires ==
  /\ thread = "idle"
  /\ pendingRestarts > 0
  /\ pendingRestarts' = pendingRestarts - 1
  /\ Restart
  /\ UNCHANGED <<coreRestartTimer, start_profile, started_id, prepare_exit, ui,
                 crashes, calls>>

\* waitForFinished returned: the old process is gone, or 3 s passed.
RestartWaited ==
  /\ thread = "restart"
  /\ StartProcess
  /\ thread' = "idle"
  /\ UNCHANGED <<coreRestartTimer, start_profile, started_id, pendingRestarts,
                 prepare_exit, ui, crashes, calls>>

\* Lambdas queued by the UI thread: the recovery after a system resume,
Recover(id) ==
  /\ thread = "idle"
  /\ start_profile' = id
  /\ Restart
  /\ UNCHANGED <<coreRestartTimer, started_id, pendingRestarts, prepare_exit, ui,
                 crashes, calls>>

\* profile_start with the core down (its Restart call is commented out),
Request(id) ==
  /\ thread = "idle"
  /\ start_profile' = id
  /\ UNCHANGED <<procVars, coreRestartTimer, started_id, pendingRestarts, thread,
                 prepare_exit, ui, crashes, calls>>

\* and StopVPNProcess, whose kill is not covered by the restarting mutex.
Kill ==
  /\ thread = "idle"
  /\ \/ proc = "NotRunning" /\ UNCHANGED <<doomed, thread>>
     \/ proc # "NotRunning" /\ doomed' = TRUE /\ thread' = "kill"
  /\ UNCHANGED <<proc, listening, portOK, core_running, failed_to_start,
                 has_reached_running_state, coreRestartTimer, start_profile,
                 started_id, pendingRestarts, prepare_exit, ui, crashes, calls>>

KillTimesOut ==
  /\ thread = "kill"
  /\ thread' = "idle"
  /\ UNCHANGED <<procVars, coreRestartTimer, start_profile, started_id,
                 pendingRestarts, prepare_exit, ui, crashes, calls>>

\* Every step of the supervisor that no other thread asks for.
SupStep ==
  \/ BecomesRunning \/ FailsToStart \/ CoreListens \/ CoreExits \/ CleanupDone
  \/ TenSeconds \/ RestartFires \/ RestartWaited \/ KillTimesOut
=============================================================================
