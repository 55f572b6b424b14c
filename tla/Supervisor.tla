----------------------------- MODULE Supervisor -----------------------------
(***************************************************************************)
(* The core supervisor with the rest of the GUI reduced to what it does to *)
(* it: the UI thread handles CoreStarted messages, asks for profiles, may  *)
(* kill the core (StopVPNProcess), recover it after a resume, or exit.     *)
(* Requests cross from the UI thread to the core thread through a queue    *)
(* (runOnThread), so what the UI saw may be stale when the lambda runs.    *)
(***************************************************************************)
EXTENDS CoreProcess, FiniteSets

VARIABLES
  queue,       \* lambdas queued for the core thread
  recoveries   \* history: recoveries after a resume the core thread has run

vars == <<supVars, queue, recoveries>>

Lambdas == [op : {"request", "recover"}, id : Profiles] \cup [op : {"kill"}, id : {NoId}]

TypeOK == SupTypeOK /\ queue \in Seq(Lambdas) /\ recoveries \in Nat

Init == SupInit /\ queue = <<>> /\ recoveries = 0

\* runOnThread(callback, DS_cores)
Post(l) ==
  /\ calls < MaxCalls
  /\ calls' = calls + 1
  /\ queue' = Append(queue, l)
  /\ UNCHANGED <<procVars, coreRestartTimer, start_profile, started_id,
                 pendingRestarts, thread, prepare_exit, ui, crashes, recoveries>>

\* profile_start finds core_running false and leaves the rest to CoreProcess.
AskWhileDown(id) ==
  /\ ~prepare_exit
  /\ ~core_running
  /\ Post([op |-> "request", id |-> id])

\* The resume recovery timer fires.
ResumeTimer(id) ==
  /\ ~prepare_exit
  /\ Post([op |-> "recover", id |-> id])

StopVPNProcess == Post([op |-> "kill", id |-> NoId])

\* The core thread's event loop runs the next lambda.
RunLambda ==
  /\ queue # <<>>
  /\ queue' = Tail(queue)
  /\ LET l == Head(queue) IN
       \/ l.op = "request" /\ Request(l.id) /\ UNCHANGED recoveries
       \/ l.op = "recover" /\ Recover(l.id) /\ recoveries' = recoveries + 1
       \/ l.op = "kill" /\ Kill /\ UNCHANGED recoveries

\* The UI thread handles CoreStarted: the profile comes up, or fails to.
CoreStarted ==
  /\ ui # <<>>
  /\ ui' = Tail(ui)
  /\ started_id' \in {started_id, IF Head(ui) \in Profiles THEN Head(ui) ELSE started_id}
  /\ UNCHANGED <<procVars, coreRestartTimer, start_profile, pendingRestarts, thread,
                 prepare_exit, crashes, calls, queue, recoveries>>

\* A stop the user asked for clears started_id.
ManualStop ==
  /\ started_id # NoId
  /\ started_id' = NoId
  /\ UNCHANGED <<procVars, coreRestartTimer, start_profile, pendingRestarts, thread,
                 prepare_exit, ui, crashes, calls, queue, recoveries>>

PrepareExit ==
  /\ ~prepare_exit
  /\ prepare_exit' = TRUE
  /\ UNCHANGED <<procVars, coreRestartTimer, start_profile, started_id,
                 pendingRestarts, thread, ui, crashes, calls, queue, recoveries>>

\* Signals and timers of the core thread, with the queue untouched.
ThreadStep == SupStep /\ UNCHANGED <<queue, recoveries>>

Next ==
  \/ ThreadStep
  \/ \E id \in Profiles : AskWhileDown(id) \/ ResumeTimer(id)
  \/ StopVPNProcess
  \/ RunLambda
  \/ CoreStarted
  \/ ManualStop
  \/ PrepareExit

Spec == Init /\ [][Next]_vars

(***************************************************************************)
(* Fairness: the core thread's event loop runs, a launched core comes up   *)
(* and listens unless it exits, and a process sent SIGKILL goes away.      *)
(* Nothing makes a crash, a user action or the passing of ten seconds      *)
(* happen.                                                                 *)
(***************************************************************************)
Fairness ==
  /\ WF_vars((BecomesRunning \/ FailsToStart) /\ UNCHANGED <<queue, recoveries>>)
  /\ WF_vars(CoreListens /\ UNCHANGED <<queue, recoveries>>)
  /\ WF_vars(doomed /\ CoreExits /\ UNCHANGED <<queue, recoveries>>)
  /\ WF_vars((CleanupDone \/ RestartFires \/ RestartWaited \/ KillTimesOut)
             /\ UNCHANGED <<queue, recoveries>>)
  /\ WF_vars(RunLambda)

FairSpec == Spec /\ Fairness

-----------------------------------------------------------------------------
\* Nothing in the GUI is going to start the core again.
Down == proc = "NotRunning" /\ thread = "idle" /\ pendingRestarts = 0

(***************************************************************************)
(* The core is down for good only for one of the reasons the code knows:   *)
(* it could not be launched, it exited twice within ten seconds (which     *)
(* invalidates the timer), or the program is exiting (Process.cpp:121-151).*)
(***************************************************************************)
DownHasReason ==
  Down => failed_to_start \/ coreRestartTimer = "invalid" \/ prepare_exit

(***************************************************************************)
(* The RPC client uses the port of the core it talks to: a process on      *)
(* another port is one Restart has already killed (Process.cpp:157-160,    *)
(* 207-216 with core_pre_start choosing a port even when process.start()   *)
(* does nothing).                                                          *)
(***************************************************************************)
PortMatches == proc # "NotRunning" /\ ~portOK => doomed

(***************************************************************************)
(* Crashes alone never pile up restarts, and a pending restart never kills *)
(* a healthy core: counting the core (or the handler busy with it) and the *)
(* 200 ms timers, there is one launch at a time, and one more for each     *)
(* resume recovery that overtook a pending restart (Process.cpp:128-151,   *)
(* 205-217; mainwindow.cpp:4584-4589).                                     *)
(***************************************************************************)
Launches == pendingRestarts + (IF proc # "NotRunning" \/ thread # "idle" THEN 1 ELSE 0)
RestartsDontPileUp == Launches <= 1 + recoveries

(***************************************************************************)
(* core_running follows the process: the flag every RPC and profile_start  *)
(* test is never true without a process, and never false for one that is   *)
(* listening (Process.cpp:111-119).                                        *)
(***************************************************************************)
FlagFollowsProcess == core_running <=> proc = "Running"

(***************************************************************************)
(* After the program began to exit, a crash starts no new cleanup and no   *)
(* restart: only a restart scheduled before can still fire                 *)
(* (Process.cpp:121).                                                      *)
(***************************************************************************)
ExitStopsRecovery ==
  [][prepare_exit /\ thread # "cleanup" =>
       thread' # "cleanup" /\ pendingRestarts' <= pendingRestarts]_vars

(***************************************************************************)
(* A profile waiting for a core that has not listened yet is handed to the *)
(* UI, replaced, or the core stays down (Process.cpp:71-78, 148).          *)
(***************************************************************************)
WaitingIsServed ==
  \A p \in Profiles : (start_profile = p /\ ~listening) ~> (start_profile # p \/ Down)
=============================================================================
