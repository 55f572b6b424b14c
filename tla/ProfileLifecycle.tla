-------------------------- MODULE ProfileLifecycle --------------------------
(***************************************************************************)
(* Starting and stopping profiles: MainWindow::profile_start and           *)
(* profile_stop of src/gharqad/ui/mainwindow_rpc.cpp, with the core's RPC  *)
(* handlers (CoreServer) at the other end and the supervisor (CoreProcess) *)
(* bringing the core down and up underneath.                               *)
(*                                                                         *)
(* Actors: the UI thread with its queue of posted lambdas; the thread a    *)
(* profile_start spawns (at most one, by mu_starting); the thread a        *)
(* profile_stop spawns (at most one, by mu_stopping); the core thread; the *)
(* core.  profile_stop(block) makes its caller, the UI or the core thread, *)
(* wait for the stop thread.                                               *)
(***************************************************************************)
EXTENDS CoreServer, CoreProcess

CONSTANTS
  MaxEvents,     \* bound: things the user, a timer or the system does
  MaxTimeouts,   \* bound: RPCs that run into the 15 s timeout
  MaxDeaths,     \* bound: core exits that no handler and no kill causes
  PacketFilter   \* the Windows packet filter mode is on at first

ASSUME LifecycleAssumption ==
  /\ {MaxEvents, MaxTimeouts, MaxDeaths} \subseteq Nat
  /\ PacketFilter \in BOOLEAN
  /\ UiTasks = {"stopFirst", "unlock", "crashed"}

VARIABLES
  mu_starting, mu_stopping,
  running,       \* MainWindow::running
  uiWait,        \* what the blocked UI thread does next, or "no"
  starter,       \* the thread of profile_start
  stopper,       \* the thread of profile_stop
  checked,       \* threads in profile_stop that saw a running profile and have
                 \* not tried mu_stopping yet
  coreQueue,     \* lambdas posted to the core thread
  suspendedProfileId,
  resumeRecoveryTimer, \* the 8 s timer is running
  spmode_packet_filter,
  raced,         \* history: which of the races below have happened
  timeouts, events

threadVars == <<mu_starting, mu_stopping, running, starter, stopper, checked>>
suspendVars == <<suspendedProfileId, resumeRecoveryTimer>>
guiVars == <<threadVars, uiWait, coreQueue, suspendVars, spmode_packet_filter, raced, timeouts,
             events>>
vars == <<serverVars, supVars, guiVars>>

\* The supervisor's variables that only its own steps write.
ownVars == <<procVars, coreRestartTimer, start_profile, pendingRestarts, thread,
             crashes, calls>>

NoStarter == [pc |-> "none", id |-> NoId, call |-> Nil]
NoStopper == [pc |-> "none", crash |-> FALSE, manual |-> FALSE, waiter |-> "none",
              call |-> Nil]

\* Besides CoreStarted, what is posted to the UI thread: the stop before a
\* start, the unlock after a stop, and a stop for a failed helper.
Tasks == {"stopFirst", "unlock", "crashed"}
Lambdas == [op : {"request", "recover", "kill"}, id : Ids]
Starters == [pc : {"none", "waitUi", "ready", "rpc", "filter", "filterRpc",
                   "filterOff", "end"}, id : Ids, call : Calls \cup {Nil}]
Stoppers == [pc : {"none", "begin", "rpc", "finish"}, crash : BOOLEAN,
             manual : BOOLEAN, waiter : {"none", "ui", "core", "exit"},
             call : Calls \cup {Nil}]

GuiTypeOK ==
  /\ TypeOK
  /\ SupTypeOK
  /\ mu_starting \in BOOLEAN
  /\ mu_stopping \in BOOLEAN
  /\ running \in Ids
  /\ checked \in SUBSET {"core", "exit"}
  /\ uiWait \in {"no", "start", "recover", "kill"}
  /\ starter \in Starters
  /\ stopper \in Stoppers
  /\ coreQueue \in Seq(Lambdas)
  /\ suspendedProfileId \in Ids
  /\ resumeRecoveryTimer \in BOOLEAN
  /\ spmode_packet_filter \in BOOLEAN
  /\ raced \in SUBSET {"startDuringStop", "startBeforeRecovery", "coreDied",
                       "staleCheck"}
  /\ timeouts \in Nat
  /\ events \in Nat

\* The core is being launched and serves nobody yet.
GuiInit ==
  /\ pc = [c \in Calls |-> "idle"]
  /\ BoxInstance = Nil /\ InstanceCancel = Nil /\ ExtraProcess = Nil
  /\ box = [c \in StartCalls |-> "none"]
  /\ extra = [c \in StartCalls |-> "none"]
  /\ closing = [c \in StopCalls |-> Nil]
  /\ proxy = FALSE /\ controller = FALSE /\ resets = {}
  /\ alive = FALSE
  /\ SupInit
  /\ mu_starting = FALSE /\ mu_stopping = FALSE
  /\ running = NoId
  /\ uiWait = "no"
  /\ starter = NoStarter
  /\ stopper = NoStopper
  /\ checked = {}
  /\ coreQueue = <<>>
  /\ suspendedProfileId = NoId
  /\ resumeRecoveryTimer = FALSE
  /\ spmode_packet_filter = PacketFilter
  /\ raced = {}
  /\ timeouts = 0
  /\ events = 0

-----------------------------------------------------------------------------
\* Mutant of ProfileStop: it does not look whether a profile runs.
MutProfileStopAlways(crash, manual, waiter) ==
  LET go == ~mu_stopping IN
  /\ mu_stopping' = (mu_stopping \/ go)
  /\ stopper' = IF go THEN [pc |-> "begin", crash |-> crash, manual |-> manual,
                            waiter |-> waiter, call |-> Nil]
                ELSE stopper

(***************************************************************************)
(* profile_stop: nothing without a running profile or while another stop   *)
(* is under way.                                                           *)
(***************************************************************************)
ProfileStop(crash, manual, waiter) ==
  LET go == running # NoId /\ ~mu_stopping IN
  /\ mu_stopping' = (mu_stopping \/ go)
  /\ stopper' = IF go THEN [pc |-> "begin", crash |-> crash, manual |-> manual,
                            waiter |-> waiter, call |-> Nil]
                ELSE stopper

\* profile_stop of a crash and of an exit: these callers are not on the UI
\* thread, and the profile they saw may be gone when they get the lock.
StopLocks(who) ==
  /\ who \in checked
  /\ checked' = checked \ {who}
  /\ mu_stopping' = TRUE
  /\ stopper' = IF mu_stopping THEN stopper
                ELSE [pc |-> "begin", crash |-> who = "core", manual |-> FALSE,
                      waiter |-> who, call |-> Nil]
  /\ raced' = raced \cup {r \in {"staleCheck"} : ~mu_stopping /\ running = NoId}
  /\ UNCHANGED <<serverVars, supVars, mu_starting, running, starter, uiWait,
                 coreQueue, suspendVars, spmode_packet_filter, timeouts, events>>

Waited(who) == stopper.pc # "none" /\ stopper.waiter = who

\* Mutant of ProfileStart: the thread does not wait for the stop.
MutProfileStartAtOnce(id, q) ==
  LET refused == prepare_exit \/ mu_starting \/ mu_stopping IN
  \/ /\ refused
     /\ ui' = q
     /\ UNCHANGED <<mu_starting, starter, coreQueue>>
  \/ /\ ~refused
     /\ ~core_running
     /\ ui' = q
     /\ coreQueue' = Append(coreQueue, [op |-> "request", id |-> id])
     /\ UNCHANGED <<mu_starting, starter>>
  \/ /\ ~refused
     /\ core_running
     /\ mu_starting' = TRUE
     /\ starter' = [pc |-> "ready", id |-> id, call |-> Nil]
     /\ ui' = Append(q, "stopFirst")
     /\ UNCHANGED coreQueue

(***************************************************************************)
(* profile_start, called on the UI thread with q left in its queue: it     *)
(* only looks whether a stop is under way, leaves the id to CoreProcess    *)
(* when the core is down, and otherwise posts the stop of the running      *)
(* profile and spawns the thread that waits for it.                        *)
(***************************************************************************)
ProfileStart(id, q) ==
  LET refused == prepare_exit \/ mu_starting \/ mu_stopping IN
  \/ /\ refused
     /\ ui' = q
     /\ UNCHANGED <<mu_starting, starter, coreQueue>>
  \/ /\ ~refused
     /\ ~core_running
     /\ ui' = q
     /\ coreQueue' = Append(coreQueue, [op |-> "request", id |-> id])
     /\ UNCHANGED <<mu_starting, starter>>
  \/ /\ ~refused
     /\ core_running
     /\ mu_starting' = TRUE
     /\ starter' = [pc |-> "waitUi", id |-> id, call |-> Nil]
     /\ ui' = Append(q, "stopFirst")
     /\ UNCHANGED coreQueue

-----------------------------------------------------------------------------
(***************************************************************************)
(* The UI thread.                                                          *)
(***************************************************************************)
UiFree == uiWait = "no"

Event == UiFree /\ events < MaxEvents /\ events' = events + 1

UserStart(id) ==
  /\ Event
  /\ ProfileStart(id, ui)
  /\ UNCHANGED <<serverVars, ownVars, started_id, prepare_exit, mu_stopping,
                 running, stopper, uiWait, spmode_packet_filter, raced,
                 suspendVars, timeouts, checked>>

UserStop ==
  /\ Event
  /\ ProfileStop(FALSE, TRUE, "none")
  /\ UNCHANGED <<serverVars, supVars, mu_starting, running, starter, uiWait,
                 coreQueue, suspendVars, spmode_packet_filter, raced, timeouts, checked>>

(***************************************************************************)
(* Suspend remembers the profile, resume arms the timer, and when it fires *)
(* the profile is stopped without an RPC and the core restarted.           *)
(***************************************************************************)
handleSystemSuspend ==
  /\ Event
  /\ suspendedProfileId' = IF running # NoId THEN running ELSE started_id
  /\ resumeRecoveryTimer' = FALSE
  /\ UNCHANGED <<serverVars, supVars, threadVars, uiWait, coreQueue,
                 spmode_packet_filter, raced, timeouts>>

handleSystemResume ==
  /\ Event
  /\ ~prepare_exit
  /\ LET id == IF suspendedProfileId # NoId THEN suspendedProfileId ELSE started_id IN
       /\ suspendedProfileId' = id
       /\ resumeRecoveryTimer' = (resumeRecoveryTimer \/ id # NoId)
  /\ UNCHANGED <<serverVars, supVars, threadVars, uiWait, coreQueue,
                 spmode_packet_filter, raced, timeouts>>

ResumeTimer ==
  /\ UiFree
  /\ resumeRecoveryTimer
  /\ resumeRecoveryTimer' = FALSE
  /\ \/ /\ prepare_exit \/ suspendedProfileId = NoId
        /\ suspendedProfileId' = NoId
        /\ UNCHANGED <<mu_stopping, stopper, uiWait>>
     \/ /\ ~prepare_exit /\ suspendedProfileId # NoId
        /\ ProfileStop(TRUE, FALSE, "ui")
        /\ uiWait' = "recover"
        /\ UNCHANGED suspendedProfileId
  /\ UNCHANGED <<serverVars, supVars, mu_starting, running, starter, coreQueue,
                 spmode_packet_filter, raced, timeouts, events, checked>>

\* The 2 s status timer finds the packet filter dead.
FilterDied ==
  /\ Event
  /\ spmode_packet_filter
  /\ running # NoId
  /\ spmode_packet_filter' = FALSE
  /\ ui' = Append(ui, "crashed")
  /\ UNCHANGED <<serverVars, ownVars, started_id, prepare_exit, threadVars,
                 uiWait, coreQueue, suspendVars, raced, timeouts>>

\* "Reset" after a TUN error: the UI waits for the core thread to kill the core.
StopVPNProcess ==
  /\ Event
  /\ coreQueue' = Append(coreQueue, [op |-> "kill", id |-> NoId])
  /\ uiWait' = "kill"
  /\ UNCHANGED <<serverVars, supVars, threadVars, spmode_packet_filter, raced,
                 suspendVars, timeouts>>

\* The exit menu runs prepare_exit on a thread of its own.
PrepareExit ==
  /\ Event
  /\ ~prepare_exit
  /\ prepare_exit' = TRUE
  /\ checked' = checked \cup {w \in {"exit"} : running # NoId}
  /\ UNCHANGED <<serverVars, ownVars, started_id, ui, mu_starting, mu_stopping,
                 running, starter, stopper, uiWait, coreQueue, suspendVars,
                 spmode_packet_filter, raced, timeouts>>

\* The next posted lambda.
UiTask ==
  /\ UiFree
  /\ ui # <<>>
  /\ ui' = Tail(ui)
  /\ \/ /\ Head(ui) = "stopFirst"
        /\ ProfileStop(FALSE, TRUE, "ui")
        /\ uiWait' = "start"
     \/ /\ Head(ui) = "unlock"
        /\ mu_stopping' = FALSE
        /\ UNCHANGED <<stopper, uiWait>>
     \/ /\ Head(ui) = "crashed"
        /\ ProfileStop(FALSE, FALSE, "none")
        /\ UNCHANGED uiWait
  /\ UNCHANGED <<serverVars, ownVars, started_id, prepare_exit, mu_starting,
                 running, starter, coreQueue, suspendVars, spmode_packet_filter,
                 raced, timeouts, events, checked>>

\* A CoreStarted message of the supervisor.
CoreStarted ==
  /\ UiFree
  /\ ui # <<>>
  /\ \/ /\ Head(ui) = NoId
        /\ ui' = Tail(ui)
        /\ UNCHANGED <<mu_starting, starter, coreQueue>>
     \/ /\ Head(ui) \in Profiles
        /\ ProfileStart(Head(ui), Tail(ui))
  /\ UNCHANGED <<serverVars, ownVars, started_id, prepare_exit, mu_stopping,
                 running, stopper, uiWait, spmode_packet_filter, raced, timeouts,
                 suspendVars, events, checked>>

\* Mutant of UiContinues: the UI waits for the lock it has to release itself.
MutUiContinuesUnlocked ==
  /\ uiWait \in {"start", "recover"}
  /\ ~mu_stopping
  /\ uiWait' = "no"
  /\ starter' = IF uiWait = "start" THEN [starter EXCEPT !.pc = "ready"] ELSE starter
  /\ coreQueue' = IF uiWait = "recover"
                  THEN Append(coreQueue, [op |-> "recover", id |-> suspendedProfileId])
                  ELSE coreQueue
  /\ suspendedProfileId' = IF uiWait = "recover" THEN NoId ELSE suspendedProfileId
  /\ UNCHANGED <<serverVars, supVars, mu_starting, mu_stopping, running, stopper,
                 spmode_packet_filter, raced, timeouts, resumeRecoveryTimer,
                 events, checked>>

\* blocker.lock() returns and the UI thread goes on where it was.
UiContinues ==
  /\ uiWait \in {"start", "recover"}
  /\ ~Waited("ui")
  /\ uiWait' = "no"
  /\ starter' = IF uiWait = "start" THEN [starter EXCEPT !.pc = "ready"] ELSE starter
  /\ coreQueue' = IF uiWait = "recover"
                  THEN Append(coreQueue, [op |-> "recover", id |-> suspendedProfileId])
                  ELSE coreQueue
  /\ suspendedProfileId' = IF uiWait = "recover" THEN NoId ELSE suspendedProfileId
  /\ UNCHANGED <<serverVars, supVars, mu_starting, mu_stopping, running, stopper,
                 spmode_packet_filter, raced, timeouts, resumeRecoveryTimer,
                 events, checked>>

-----------------------------------------------------------------------------
(***************************************************************************)
(* The thread of profile_start.  An RPC fails at once when the core is not *)
(* running or not there; after 15 s it fails while the core goes on.       *)
(***************************************************************************)
Reachable == core_running /\ alive /\ portOK

\* The stop thread is at work and the core will see its Stop.
StopUnderWay == stopper.pc # "none" /\ ~stopper.crash

\* A resume has stopped the profile without the core, whose restart is to come.
RecoveryPending ==
  uiWait = "recover" \/ \E i \in DOMAIN coreQueue : coreQueue[i].op = "recover"

StarterAt(l) == starter.pc = l
StarterGoes(l) == starter' = [starter EXCEPT !.pc = l]

TimesOut(c) == pc[c] \in Active /\ timeouts < MaxTimeouts /\ timeouts' = timeouts + 1

\* BuildConfig fails, or the RPC cannot be made.
StartNotSent ==
  /\ StarterAt("ready")
  /\ StarterGoes("end")
  /\ UNCHANGED <<serverVars, supVars, mu_starting, mu_stopping, running, stopper,
                 uiWait, coreQueue, suspendVars, spmode_packet_filter, raced,
                 timeouts, events, checked>>

StartSent(c) ==
  /\ StarterAt("ready")
  /\ Reachable
  /\ Invoke(c)
  /\ starter' = [starter EXCEPT !.pc = "rpc", !.call = c]
  /\ raced' = raced \cup {r \in {"startDuringStop"} : StopUnderWay}
                   \cup {r \in {"startBeforeRecovery"} : RecoveryPending}
  /\ UNCHANGED <<supVars, mu_starting, mu_stopping, running, stopper, uiWait,
                 coreQueue, suspendVars, spmode_packet_filter, timeouts, events, checked>>

\* Mutant of StartOk: started_id is not updated.
MutStartOkNoId ==
  /\ StarterAt("rpc")
  /\ pc[starter.call] = "ok"
  /\ running' = starter.id
  /\ StarterGoes(IF spmode_packet_filter THEN "filter" ELSE "end")
  /\ UNCHANGED <<serverVars, ownVars, started_id, prepare_exit, ui, mu_starting, mu_stopping,
                 stopper, uiWait, coreQueue, suspendVars, spmode_packet_filter,
                 raced, timeouts, events, checked>>

\* The answer may be read after the core that gave it has died.
StartOk ==
  /\ StarterAt("rpc")
  /\ pc[starter.call] = "ok"
  /\ started_id' = starter.id
  /\ running' = starter.id
  /\ StarterGoes(IF spmode_packet_filter THEN "filter" ELSE "end")
  /\ UNCHANGED <<serverVars, ownVars, prepare_exit, ui, mu_starting, mu_stopping,
                 stopper, uiWait, coreQueue, suspendVars, spmode_packet_filter,
                 raced, timeouts, events, checked>>

StartFailed ==
  /\ StarterAt("rpc")
  /\ \/ pc[starter.call] \in {"err", "lost"} /\ UNCHANGED timeouts
     \/ TimesOut(starter.call)
  /\ StarterGoes("end")
  /\ UNCHANGED <<serverVars, supVars, mu_starting, mu_stopping, running, stopper,
                 uiWait, coreQueue, suspendVars, spmode_packet_filter, raced,
                 events, checked>>

\* The packet filter starts, or does not: then the mode is switched off and the
\* core is stopped from this thread, without mu_stopping.
FilterStarts ==
  /\ StarterAt("filter")
  /\ StarterGoes("end")
  /\ UNCHANGED <<serverVars, supVars, mu_starting, mu_stopping, running, stopper,
                 uiWait, coreQueue, suspendVars, spmode_packet_filter, raced,
                 timeouts, events, checked>>

FilterFails ==
  /\ StarterAt("filter")
  /\ spmode_packet_filter' = FALSE
  /\ \/ /\ Reachable
        /\ \E c \in StopCalls :
             Invoke(c) /\ starter' = [starter EXCEPT !.pc = "filterRpc", !.call = c]
     \/ /\ ~Reachable
        /\ StarterGoes("filterOff")
        /\ UNCHANGED serverVars
  /\ UNCHANGED <<supVars, mu_starting, mu_stopping, running, stopper, uiWait,
                 coreQueue, suspendVars, raced, timeouts, events, checked>>

FilterStopAnswered ==
  /\ StarterAt("filterRpc")
  /\ \/ pc[starter.call] \in Finished /\ UNCHANGED timeouts
     \/ TimesOut(starter.call)
  /\ StarterGoes("filterOff")
  /\ UNCHANGED <<serverVars, supVars, mu_starting, mu_stopping, running, stopper,
                 uiWait, coreQueue, suspendVars, spmode_packet_filter, raced,
                 events, checked>>

FilterOff ==
  /\ StarterAt("filterOff")
  /\ started_id' = NoId
  /\ running' = NoId
  /\ StarterGoes("end")
  /\ UNCHANGED <<serverVars, ownVars, prepare_exit, ui, mu_starting, mu_stopping,
                 stopper, uiWait, coreQueue, suspendVars, spmode_packet_filter,
                 raced, timeouts, events, checked>>

StarterEnds ==
  /\ StarterAt("end")
  /\ mu_starting' = FALSE
  /\ starter' = NoStarter
  /\ UNCHANGED <<serverVars, supVars, mu_stopping, running, stopper, uiWait,
                 coreQueue, suspendVars, spmode_packet_filter, raced, timeouts,
                 events, checked>>

-----------------------------------------------------------------------------
\* Mutant of StopSent: no Stop is sent.
MutStopSentSkips ==
  /\ stopper.pc = "begin"
  /\ \/ /\ FALSE
        /\ Reachable
        /\ \E c \in StopCalls :
             Invoke(c) /\ stopper' = [stopper EXCEPT !.pc = "rpc", !.call = c]
     \/ /\ TRUE
        /\ stopper' = [stopper EXCEPT !.pc = "finish"]
        /\ UNCHANGED serverVars
  /\ UNCHANGED <<supVars, mu_starting, mu_stopping, running, starter, uiWait,
                 coreQueue, suspendVars, spmode_packet_filter, raced, timeouts,
                 events, checked>>

(***************************************************************************)
(* The thread of profile_stop.  Whatever the Stop RPC says, the profile    *)
(* counts as stopped afterwards.                                           *)
(***************************************************************************)
StopSent ==
  /\ stopper.pc = "begin"
  /\ \/ /\ ~stopper.crash
        /\ Reachable
        /\ \E c \in StopCalls :
             Invoke(c) /\ stopper' = [stopper EXCEPT !.pc = "rpc", !.call = c]
     \/ /\ stopper.crash \/ ~Reachable
        /\ stopper' = [stopper EXCEPT !.pc = "finish"]
        /\ UNCHANGED serverVars
  /\ UNCHANGED <<supVars, mu_starting, mu_stopping, running, starter, uiWait,
                 coreQueue, suspendVars, spmode_packet_filter, raced, timeouts,
                 events, checked>>

\* Mutant of StopAnswered: a lost connection is not an answer.
MutStopAnsweredOk ==
  /\ stopper.pc = "rpc"
  /\ \/ pc[stopper.call] = "ok" /\ UNCHANGED timeouts
     \/ TimesOut(stopper.call)
  /\ stopper' = [stopper EXCEPT !.pc = "finish"]
  /\ UNCHANGED <<serverVars, supVars, mu_starting, mu_stopping, running, starter,
                 uiWait, coreQueue, suspendVars, spmode_packet_filter, raced,
                 events, checked>>

StopAnswered ==
  /\ stopper.pc = "rpc"
  /\ \/ pc[stopper.call] \in Finished /\ UNCHANGED timeouts
     \/ TimesOut(stopper.call)
  /\ stopper' = [stopper EXCEPT !.pc = "finish"]
  /\ UNCHANGED <<serverVars, supVars, mu_starting, mu_stopping, running, starter,
                 uiWait, coreQueue, suspendVars, spmode_packet_filter, raced,
                 events, checked>>

\* Mutant of StopFinishes: the lock is released here as well.
MutStopFinishesTwice ==
  /\ stopper.pc = "finish"
  /\ started_id' = IF stopper.manual THEN NoId ELSE started_id
  /\ running' = NoId
  /\ stopper' = NoStopper
  /\ mu_stopping' = FALSE
  /\ ui' = Append(ui, "unlock")
  /\ UNCHANGED <<serverVars, ownVars, prepare_exit, mu_starting,
                 starter, uiWait, coreQueue, suspendVars, spmode_packet_filter,
                 raced, timeouts, events, checked>>

\* Mutant of StopFinishes: running is not cleared.
MutStopFinishesKeeps ==
  /\ stopper.pc = "finish"
  /\ started_id' = IF stopper.manual THEN NoId ELSE started_id
  /\ stopper' = NoStopper
  /\ ui' = Append(ui, "unlock")
  /\ UNCHANGED <<serverVars, ownVars, prepare_exit, running, mu_starting, mu_stopping,
                 starter, uiWait, coreQueue, suspendVars, spmode_packet_filter,
                 raced, timeouts, events, checked>>

\* started_id and running are cleared, the blocked caller is let go, and the
\* unlock of mu_stopping is left to the UI thread.
StopFinishes ==
  /\ stopper.pc = "finish"
  /\ started_id' = IF stopper.manual THEN NoId ELSE started_id
  /\ running' = NoId
  /\ stopper' = NoStopper
  /\ ui' = Append(ui, "unlock")
  /\ UNCHANGED <<serverVars, ownVars, prepare_exit, mu_starting, mu_stopping,
                 starter, uiWait, coreQueue, suspendVars, spmode_packet_filter,
                 raced, timeouts, events, checked>>

-----------------------------------------------------------------------------
(***************************************************************************)
(* The core thread and the core.                                           *)
(***************************************************************************)
\* Steps of the supervisor that the rest of the GUI does not notice.
Supervise ==
  /\ BecomesRunning \/ FailsToStart \/ TenSeconds \/ RestartFires \/ RestartWaited
  /\ UNCHANGED <<serverVars, guiVars>>

\* "Core listening": from here on the core answers.
CoreComesUp ==
  /\ CoreListens
  /\ Relaunch
  /\ UNCHANGED guiVars

\* The core exits by itself, or dies of the SIGKILL it was sent.
CoreDies ==
  /\ alive
  /\ doomed \/ crashes < MaxDeaths
  /\ Die
  /\ raced' = raced \cup {"coreDied"}
  /\ UNCHANGED <<supVars, threadVars, uiWait, coreQueue, suspendVars,
                 spmode_packet_filter, timeouts, events>>

\* The supervisor notices; unless restarting it calls profile_stop(true, true).
\* A Kill() that waited for it returns, and with it StopVPNProcess.
ExitNoticed ==
  /\ ~alive
  /\ CoreExits
  /\ checked' = checked \cup
                 {w \in {"core"} : thread' = "cleanup" /\ running # NoId}
  /\ UNCHANGED <<serverVars, mu_starting, mu_stopping, running, starter, stopper, ui,
                 uiWait, coreQueue, suspendVars, spmode_packet_filter, raced,
                 timeouts, events>>

CleanedUp ==
  /\ ~Waited("core") /\ "core" \notin checked
  /\ CleanupDone
  /\ UNCHANGED <<serverVars, guiVars>>

KillGivesUp == KillTimesOut /\ UNCHANGED <<serverVars, guiVars>>

RunLambda ==
  /\ coreQueue # <<>>
  /\ coreQueue' = Tail(coreQueue)
  /\ LET l == Head(coreQueue) IN
       \/ l.op = "request" /\ Request(l.id)
       \/ l.op = "recover" /\ Recover(l.id)
       \/ l.op = "kill" /\ Kill
  /\ UNCHANGED <<serverVars, threadVars, ui, uiWait, spmode_packet_filter, raced,
                 timeouts, suspendVars, events>>

\* waitStop.lock() returns: the kill lambda has run to its end.
KillReturned ==
  /\ uiWait = "kill"
  /\ thread = "idle"
  /\ \A i \in DOMAIN coreQueue : coreQueue[i].op # "kill"
  /\ uiWait' = "no"
  /\ UNCHANGED <<serverVars, supVars, threadVars, coreQueue, suspendVars,
                 spmode_packet_filter, raced, timeouts, events>>

\* A handler's next step; it may bring the core down.
ServeCall(c) ==
  /\ \/ c \in StartCalls /\ StartStep(c)
     \/ c \in StopCalls /\ StopStep(c)
  /\ raced' = raced \cup {r \in {"coreDied"} : alive # alive'}
  /\ UNCHANGED <<supVars, threadVars, uiWait, coreQueue, suspendVars,
                 spmode_packet_filter, timeouts, events>>

\* What handlers left behind.  An extra process that exits makes the core print
\* a line that the supervisor turns into a "Crashed" message.
Background ==
  /\ \E c \in StartCalls :
       \/ (AfterFunc(c) \/ BoxClosed(c)) /\ UNCHANGED ui
       \/ ExtraExits(c) /\ ui' = IF alive THEN Append(ui, "crashed") ELSE ui
  /\ UNCHANGED <<ownVars, started_id, prepare_exit, guiVars>>

UiStep == UiTask \/ CoreStarted \/ ResumeTimer \/ UiContinues \/ KillReturned
StarterStep ==
  \/ StartNotSent \/ (\E c \in StartCalls : StartSent(c)) \/ StartOk \/ StartFailed
  \/ FilterStarts \/ FilterFails \/ FilterStopAnswered \/ FilterOff \/ StarterEnds
StopperStep == StopSent \/ StopAnswered \/ StopFinishes
CoreThreadStep ==
  \/ StopLocks("core") \/ Supervise \/ CoreComesUp \/ ExitNoticed \/ CleanedUp \/ KillGivesUp \/ RunLambda

Next ==
  \/ \E id \in Profiles : UserStart(id)
  \/ UserStop \/ handleSystemSuspend \/ handleSystemResume \/ FilterDied
  \/ StopVPNProcess \/ PrepareExit
  \/ UiStep \/ StarterStep \/ StopperStep \/ CoreThreadStep
  \/ StopLocks("exit") \/ CoreDies \/ Background
  \/ \E c \in Calls : ServeCall(c)

Spec == GuiInit /\ [][Next]_vars

(***************************************************************************)
(* Fairness: threads and goroutines are scheduled, the UI thread's event   *)
(* loop and the core thread's run, and SIGKILL works.  Nothing is assumed  *)
(* of users, of crashes or of the time sing-box takes to close.            *)
(***************************************************************************)
Fairness ==
  /\ WF_vars(UiStep) /\ WF_vars(StarterStep) /\ WF_vars(StopperStep)
  /\ WF_vars(CoreThreadStep) /\ WF_vars(StopLocks("exit"))
  /\ WF_vars(doomed /\ CoreDies)
  /\ \A c \in Calls : WF_vars(ServeCall(c))

FairSpec == Spec /\ Fairness

-----------------------------------------------------------------------------
Unlocks == {i \in DOMAIN ui : ui[i] = "unlock"}

(***************************************************************************)
(* The two try-locks are held exactly by their threads, and mu_stopping    *)
(* past its thread until the posted unlock runs; it is never unlocked      *)
(* twice and never lost (mainwindow_rpc.cpp:845-895, 1049-1097).           *)
(***************************************************************************)
MutexesHeld ==
  /\ mu_starting <=> starter.pc # "none"
  /\ mu_stopping <=> stopper.pc # "none" \/ Unlocks # {}
  /\ Cardinality(Unlocks) <= (IF stopper.pc = "none" THEN 1 ELSE 0)

\* Nothing is under way and the core serves.
Quiescent ==
  /\ alive /\ ~doomed /\ thread = "idle" /\ coreQueue = <<>> /\ pendingRestarts = 0
  /\ ui = <<>> /\ uiWait = "no" /\ starter.pc = "none" /\ stopper.pc = "none"
  /\ \A c \in Calls : pc[c] \notin Active

(***************************************************************************)
(* The core runs no profile the GUI does not know of, crashes or not,      *)
(* unless an RPC timed out or a Start overtook a Stop or a recovery        *)
(* (mainwindow_rpc.cpp:673-676, 880-891, 1081-1088).                       *)
(***************************************************************************)
NoHiddenInstance ==
  Quiescent /\ timeouts = 0 /\ raced \subseteq {"coreDied"} /\ BoxInstance # Nil =>
    running # NoId

(***************************************************************************)
(* While the core never died, a profile the GUI shows as running is one    *)
(* the core runs (mainwindow_rpc.cpp:708-713, 1086-1088; server.go:69-89). *)
(***************************************************************************)
ShownIsReal ==
  Quiescent /\ timeouts = 0 /\ raced = {} /\ running # NoId => BoxInstance # Nil

(***************************************************************************)
(* started_id, which a crash recovery restarts, is the profile that runs   *)
(* (mainwindow_rpc.cpp:712-713, 1086-1088; Process.cpp:148).               *)
(***************************************************************************)
StartedIdMatches == running # NoId /\ starter.pc = "none" => started_id = running

(***************************************************************************)
(* The GUI's locking keeps to the terms of SerialCore: no box is orphaned  *)
(* in a core that lives on, unless an RPC timed out or a Start overtook a  *)
(* Stop or a recovery.                                                     *)
(***************************************************************************)
NoOrphan ==
  timeouts = 0 /\ raced \subseteq {"coreDied"} /\ ~doomed =>
    \A b \in StartCalls : box[b] = "live" => BoxInstance = b

(***************************************************************************)
(* The stop thread dereferences running first thing                        *)
(* (mainwindow_rpc.cpp:1079): only the failure path of the packet filter,  *)
(* which takes no lock, can have cleared it (819-823), unless a crash or   *)
(* exit saw the profile before the last stop and locked after it (1024,    *)
(* 1049).                                                                  *)
(***************************************************************************)
StopHasProfile ==
  stopper.pc = "begin" /\ running = NoId =>
    \/ PacketFilter /\ ~spmode_packet_filter
    \/ "staleCheck" \in raced

(***************************************************************************)
(* A UI thread blocked in profile_stop or StopVPNProcess comes back, while *)
(* the core thread may be blocked in profile_stop at the same time         *)
(* (mainwindow_rpc.cpp:1100-1104, mainwindow.cpp:5052-5063).               *)
(***************************************************************************)
UiComesBack == (uiWait # "no") ~> (uiWait = "no")

(***************************************************************************)
(* Both try-locks are released again, so that a profile can be started and *)
(* stopped (mainwindow_rpc.cpp:856, 870, 895, 1096).                       *)
(***************************************************************************)
LocksReleased ==
  /\ mu_starting ~> ~mu_starting
  /\ mu_stopping ~> ~mu_stopping
=============================================================================
