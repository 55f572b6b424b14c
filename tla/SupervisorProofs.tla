-------------------------- MODULE SupervisorProofs --------------------------
(***************************************************************************)
(* TLAPS proofs about Supervisor, for any set of profiles and any bounds:  *)
(* why the core is down when it is, that restarts do not pile up, and that *)
(* the port and the running flag belong to the process there is.           *)
(***************************************************************************)
EXTENDS Supervisor, TLAPS

(***************************************************************************)
(* The strengthening: what the flags of CoreProcess say about the process, *)
(* and that the handlers that block leave a reason behind.                 *)
(***************************************************************************)
ProcessFlags ==
  /\ proc = "Running" => has_reached_running_state
  /\ failed_to_start => proc = "NotRunning"
  /\ thread = "cleanup" => proc = "NotRunning"
  /\ thread = "kill" /\ proc = "NotRunning" => failed_to_start
  /\ thread = "restart" /\ proc # "NotRunning" => doomed

\* The variables that are neither Boolean nor counters.
DataTypeOK ==
  /\ proc \in {"NotRunning", "Starting", "Running"}
  /\ coreRestartTimer \in {"invalid", "recent", "old"}
  /\ start_profile \in Ids
  /\ started_id \in Ids
  /\ thread \in {"idle", "restart", "kill", "cleanup"}
  /\ ui \in Seq(Ids \cup UiTasks)
  /\ queue \in Seq(Lambdas)

CountTypeOK ==
  pendingRestarts \in Nat /\ crashes \in Nat /\ calls \in Nat /\ recoveries \in Nat

FlagTypeOK ==
  /\ listening \in BOOLEAN /\ doomed \in BOOLEAN /\ portOK \in BOOLEAN
  /\ core_running \in BOOLEAN /\ failed_to_start \in BOOLEAN
  /\ has_reached_running_state \in BOOLEAN /\ prepare_exit \in BOOLEAN

Safe ==
  /\ ProcessFlags
  /\ FlagFollowsProcess
  /\ PortMatches
  /\ RestartsDontPileUp
  /\ DownHasReason

IInv == DataTypeOK /\ CountTypeOK /\ FlagTypeOK /\ Safe

USE SupAssumption DEF Ids, procVars

\* The initial state satisfies the invariant.
LEMMA InitInv == Init => IInv
<1> SUFFICES ASSUME Init PROVE IInv
  OBVIOUS
<1>1. DataTypeOK
  BY DEF Init, SupInit, DataTypeOK
<1>2. CountTypeOK
  BY DEF Init, SupInit, CountTypeOK
<1>3. FlagTypeOK
  BY Zenon DEF Init, SupInit, FlagTypeOK
<1>4. Safe
  BY DEF Init, SupInit, Safe, ProcessFlags, FlagFollowsProcess, PortMatches,
         RestartsDontPileUp, Launches, DownHasReason, Down
<1> QED
  BY <1>1, <1>2, <1>3, <1>4 DEF IInv

\* The signals of the process keep the invariant.
LEMMA SignalsInv ==
  ASSUME IInv, UNCHANGED <<queue, recoveries>>,
         BecomesRunning \/ FailsToStart \/ CoreListens \/ CoreExits
  PROVE  IInv'
<1>1. DataTypeOK /\ CountTypeOK /\ FlagTypeOK /\ Safe
  BY DEF IInv
<1>2. FlagTypeOK'
  BY <1>1, Zenon DEF FlagTypeOK, BecomesRunning, FailsToStart, CoreListens, CoreExits
<1>3. CASE BecomesRunning
  <2>1. DataTypeOK' /\ CountTypeOK'
    BY <1>1, <1>3 DEF DataTypeOK, CountTypeOK, BecomesRunning
  <2>2. Safe'
    BY <1>1, <1>3
       DEF DataTypeOK, CountTypeOK, Safe, ProcessFlags, FlagFollowsProcess, PortMatches,
           RestartsDontPileUp, Launches, DownHasReason, Down,
           BecomesRunning
  <2> QED
    BY <1>2, <2>1, <2>2 DEF IInv
<1>4. CASE FailsToStart
  <2>1. DataTypeOK' /\ CountTypeOK'
    BY <1>1, <1>4 DEF DataTypeOK, CountTypeOK, FailsToStart
  <2>2. Safe'
    BY <1>1, <1>4
       DEF DataTypeOK, CountTypeOK, Safe, ProcessFlags, FlagFollowsProcess, PortMatches,
           RestartsDontPileUp, Launches, DownHasReason, Down,
           FailsToStart
  <2> QED
    BY <1>2, <2>1, <2>2 DEF IInv
<1>5. CASE CoreListens
  <2>1. DataTypeOK' /\ CountTypeOK'
    BY <1>1, <1>5 DEF DataTypeOK, CountTypeOK, CoreListens
  <2>2. Safe'
    BY <1>1, <1>5
       DEF DataTypeOK, CountTypeOK, Safe, ProcessFlags, FlagFollowsProcess, PortMatches,
           RestartsDontPileUp, Launches, DownHasReason, Down,
           CoreListens
  <2> QED
    BY <1>2, <2>1, <2>2 DEF IInv
<1>6. CASE CoreExits
  <2>1. DataTypeOK' /\ CountTypeOK'
    BY <1>1, <1>6 DEF DataTypeOK, CountTypeOK, CoreExits
  <2>2. Safe'
    BY <1>1, <1>6
       DEF DataTypeOK, CountTypeOK, Safe, ProcessFlags, FlagFollowsProcess, PortMatches,
           RestartsDontPileUp, Launches, DownHasReason, Down,
           CoreExits
  <2> QED
    BY <1>2, <2>1, <2>2 DEF IInv
<1> QED
  BY <1>3, <1>4, <1>5, <1>6

\* The steps of the core thread itself keep the invariant.
LEMMA ThreadInv ==
  ASSUME IInv, UNCHANGED <<queue, recoveries>>,
         CleanupDone \/ TenSeconds \/ RestartFires \/ RestartWaited \/ KillTimesOut
  PROVE  IInv'
<1>1. DataTypeOK /\ CountTypeOK /\ FlagTypeOK /\ Safe
  BY DEF IInv
<1>2. FlagTypeOK'
  BY <1>1, Zenon DEF FlagTypeOK, CleanupDone, TenSeconds, RestartFires, Restart,
                     RestartWaited, StartProcess, KillTimesOut
<1>3. CASE CleanupDone
  <2>1. DataTypeOK' /\ CountTypeOK'
    BY <1>1, <1>3 DEF DataTypeOK, CountTypeOK, CleanupDone
  <2>2. Safe'
    BY <1>1, <1>3
       DEF DataTypeOK, CountTypeOK, Safe, ProcessFlags, FlagFollowsProcess, PortMatches,
           RestartsDontPileUp, Launches, DownHasReason, Down,
           CleanupDone
  <2> QED
    BY <1>2, <2>1, <2>2 DEF IInv
<1>4. CASE TenSeconds
  <2>1. DataTypeOK' /\ CountTypeOK'
    BY <1>1, <1>4 DEF DataTypeOK, CountTypeOK, TenSeconds
  <2>2. Safe'
    BY <1>1, <1>4
       DEF DataTypeOK, CountTypeOK, Safe, ProcessFlags, FlagFollowsProcess, PortMatches,
           RestartsDontPileUp, Launches, DownHasReason, Down,
           TenSeconds
  <2> QED
    BY <1>2, <2>1, <2>2 DEF IInv
<1>5. CASE RestartFires
  <2>1. DataTypeOK' /\ CountTypeOK'
    BY <1>1, <1>5 DEF DataTypeOK, CountTypeOK, RestartFires, Restart, StartProcess
  <2>2. Safe'
    BY <1>1, <1>5
       DEF DataTypeOK, CountTypeOK, Safe, ProcessFlags, FlagFollowsProcess, PortMatches,
           RestartsDontPileUp, Launches, DownHasReason, Down,
           RestartFires, Restart, StartProcess
  <2> QED
    BY <1>2, <2>1, <2>2 DEF IInv
<1>6. CASE RestartWaited
  <2>1. DataTypeOK' /\ CountTypeOK'
    BY <1>1, <1>6 DEF DataTypeOK, CountTypeOK, RestartWaited, StartProcess
  <2>2. Safe'
    BY <1>1, <1>6
       DEF DataTypeOK, CountTypeOK, Safe, ProcessFlags, FlagFollowsProcess, PortMatches,
           RestartsDontPileUp, Launches, DownHasReason, Down,
           RestartWaited, StartProcess
  <2> QED
    BY <1>2, <2>1, <2>2 DEF IInv
<1>7. CASE KillTimesOut
  <2>1. DataTypeOK' /\ CountTypeOK'
    BY <1>1, <1>7 DEF DataTypeOK, CountTypeOK, KillTimesOut
  <2>2. Safe'
    BY <1>1, <1>7
       DEF DataTypeOK, CountTypeOK, Safe, ProcessFlags, FlagFollowsProcess, PortMatches,
           RestartsDontPileUp, Launches, DownHasReason, Down,
           KillTimesOut
  <2> QED
    BY <1>2, <2>1, <2>2 DEF IInv
<1> QED
  BY <1>3, <1>4, <1>5, <1>6, <1>7

\* A lambda queued by the UI thread keeps the invariant.
LEMMA LambdaInv ==
  ASSUME IInv, RunLambda PROVE IInv'
<1>1. DataTypeOK /\ CountTypeOK /\ FlagTypeOK /\ Safe
  BY DEF IInv
<1> DEFINE l == Head(queue)
<1>2. l \in Lambdas /\ queue' \in Seq(Lambdas)
  BY <1>1 DEF RunLambda, DataTypeOK
<1>3. FlagTypeOK'
  BY <1>1, Zenon DEF FlagTypeOK, RunLambda, Request, Recover, Kill, Restart, StartProcess
<1>4. CASE l.op = "request" /\ Request(l.id) /\ UNCHANGED recoveries
  <2>1. l.id \in Profiles
    BY <1>2, <1>4 DEF Lambdas
  <2>2. DataTypeOK' /\ CountTypeOK'
    BY <1>1, <1>2, <1>4, <2>1 DEF DataTypeOK, CountTypeOK, Request
  <2>3. Safe'
    BY <1>1, <1>4
       DEF DataTypeOK, CountTypeOK, Safe, ProcessFlags, FlagFollowsProcess, PortMatches,
           RestartsDontPileUp, Launches, DownHasReason, Down,
           Request
  <2> QED
    BY <1>3, <2>2, <2>3 DEF IInv
<1>5. CASE l.op = "recover" /\ Recover(l.id) /\ recoveries' = recoveries + 1
  <2>1. l.id \in Profiles
    BY <1>2, <1>5 DEF Lambdas
  <2>2. DataTypeOK' /\ CountTypeOK'
    BY <1>1, <1>2, <1>5, <2>1
       DEF DataTypeOK, CountTypeOK, Recover, Restart, StartProcess
  <2>3. Safe'
    BY <1>1, <1>5
       DEF DataTypeOK, CountTypeOK, Safe, ProcessFlags, FlagFollowsProcess, PortMatches,
           RestartsDontPileUp, Launches, DownHasReason, Down,
           Recover, Restart, StartProcess
  <2> QED
    BY <1>3, <2>2, <2>3 DEF IInv
<1>6. CASE l.op = "kill" /\ Kill /\ UNCHANGED recoveries
  <2>1. DataTypeOK' /\ CountTypeOK'
    BY <1>1, <1>2, <1>6 DEF DataTypeOK, CountTypeOK, Kill
  <2>2. Safe'
    BY <1>1, <1>6
       DEF DataTypeOK, CountTypeOK, Safe, ProcessFlags, FlagFollowsProcess, PortMatches,
           RestartsDontPileUp, Launches, DownHasReason, Down,
           Kill
  <2> QED
    BY <1>3, <2>1, <2>2 DEF IInv
<1> QED
  BY <1>4, <1>5, <1>6 DEF RunLambda

\* The UI thread's own steps keep the invariant: they touch no process state.
LEMMA UIInv ==
  ASSUME IInv,
         \/ \E id \in Profiles : AskWhileDown(id) \/ ResumeTimer(id)
         \/ StopVPNProcess \/ CoreStarted \/ ManualStop \/ PrepareExit
  PROVE  IInv'
<1>1. DataTypeOK /\ CountTypeOK /\ FlagTypeOK /\ Safe
  BY DEF IInv
<1>2. FlagTypeOK'
  BY <1>1, Zenon DEF FlagTypeOK, AskWhileDown, ResumeTimer, StopVPNProcess, Post,
                     CoreStarted, ManualStop, PrepareExit
<1>3. ASSUME NEW l \in Lambdas, Post(l) PROVE DataTypeOK' /\ CountTypeOK' /\ Safe'
  BY <1>1, <1>3
     DEF DataTypeOK, CountTypeOK, Safe, ProcessFlags, FlagFollowsProcess, PortMatches,
           RestartsDontPileUp, Launches, DownHasReason, Down,
         Post
<1>4. ASSUME NEW id \in Profiles, AskWhileDown(id) \/ ResumeTimer(id)
      PROVE  DataTypeOK' /\ CountTypeOK' /\ Safe'
  <2>1. [op |-> "request", id |-> id] \in Lambdas /\ [op |-> "recover", id |-> id] \in Lambdas
    BY DEF Lambdas
  <2> QED
    BY <1>3, <1>4, <2>1, Zenon DEF AskWhileDown, ResumeTimer
<1>5. CASE StopVPNProcess
  <2>1. [op |-> "kill", id |-> NoId] \in Lambdas
    BY DEF Lambdas
  <2>2. DataTypeOK' /\ CountTypeOK' /\ Safe'
    BY <1>3, <1>5, <2>1, Zenon DEF StopVPNProcess
  <2> QED
    BY <1>2, <2>2 DEF IInv
<1>6. CASE CoreStarted
  <2>1. ui' \in Seq(Ids \cup UiTasks)
    BY <1>1, <1>6 DEF DataTypeOK, CoreStarted
  <2>2. DataTypeOK' /\ CountTypeOK'
    BY <1>1, <1>6, <2>1 DEF DataTypeOK, CountTypeOK, CoreStarted
  <2>3. Safe'
    BY <1>1, <1>6
       DEF DataTypeOK, CountTypeOK, Safe, ProcessFlags, FlagFollowsProcess, PortMatches,
           RestartsDontPileUp, Launches, DownHasReason, Down,
           CoreStarted
  <2> QED
    BY <1>2, <2>2, <2>3 DEF IInv
<1>7. CASE ManualStop \/ PrepareExit
  <2>1. DataTypeOK' /\ CountTypeOK'
    BY <1>1, <1>7 DEF DataTypeOK, CountTypeOK, ManualStop, PrepareExit
  <2>2. Safe'
    BY <1>1, <1>7
       DEF DataTypeOK, CountTypeOK, Safe, ProcessFlags, FlagFollowsProcess, PortMatches,
           RestartsDontPileUp, Launches, DownHasReason, Down,
           ManualStop, PrepareExit
  <2> QED
    BY <1>2, <2>1, <2>2 DEF IInv
<1> QED
  BY <1>2, <1>4, <1>5, <1>6, <1>7 DEF IInv

\* A stuttering step keeps the invariant.
LEMMA StutterInv ==
  ASSUME IInv, UNCHANGED vars PROVE IInv'
<1>1. FlagTypeOK'
  BY Zenon DEF IInv, FlagTypeOK, vars, supVars, procVars
<1>2. DataTypeOK' /\ CountTypeOK' /\ Safe'
  BY DEF IInv, vars, supVars, DataTypeOK, CountTypeOK, Safe, ProcessFlags, FlagFollowsProcess, PortMatches,
           RestartsDontPileUp, Launches, DownHasReason, Down
<1> QED
  BY <1>1, <1>2 DEF IInv

\* The invariant holds in every reachable state of the supervisor.
THEOREM Inductive == Spec => []IInv
<1>1. IInv /\ [Next]_vars => IInv'
  <2> SUFFICES ASSUME IInv, [Next]_vars PROVE IInv'
    OBVIOUS
  <2>1. CASE ThreadStep
    BY <2>1, SignalsInv, ThreadInv, Zenon DEF ThreadStep, SupStep
  <2>2. CASE RunLambda
    BY <2>2, LambdaInv
  <2>3. CASE \/ \E id \in Profiles : AskWhileDown(id) \/ ResumeTimer(id)
             \/ StopVPNProcess \/ CoreStarted \/ ManualStop \/ PrepareExit
    BY <2>3, UIInv
  <2>4. CASE UNCHANGED vars
    BY <2>4, StutterInv
  <2> QED
    BY <2>1, <2>2, <2>3, <2>4 DEF Next
<1> QED
  BY <1>1, InitInv, PTL DEF Spec

\* Every variable of the supervisor keeps its type, for any set of profiles.
THEOREM TypeCorrect == Spec => []TypeOK
<1>1. IInv => TypeOK
  BY Zenon DEF IInv, DataTypeOK, CountTypeOK, FlagTypeOK, TypeOK, SupTypeOK
<1> QED
  BY <1>1, Inductive, PTL

\* A core that is down for good could not be launched, exited twice within ten
\* seconds, or was left down because the program exits (Process.cpp:121-151).
THEOREM DownIsExplained == Spec => []DownHasReason
<1>1. IInv => DownHasReason
  BY DEF IInv, Safe
<1> QED
  BY <1>1, Inductive, PTL

\* A process on a port the RPC client does not use has been killed
\* (Process.cpp:157-160, 207-216).
THEOREM PortIsRight == Spec => []PortMatches
<1>1. IInv => PortMatches
  BY DEF IInv, Safe
<1> QED
  BY <1>1, Inductive, PTL

\* Crashes alone keep at most one launch under way (Process.cpp:128-151,
\* 205-217).
THEOREM NoPileUp == Spec => []RestartsDontPileUp
<1>1. IInv => RestartsDontPileUp
  BY DEF IInv, Safe
<1> QED
  BY <1>1, Inductive, PTL

\* core_running is true exactly while the process is (Process.cpp:111-119).
THEOREM FlagIsRight == Spec => []FlagFollowsProcess
<1>1. IInv => FlagFollowsProcess
  BY DEF IInv, Safe
<1> QED
  BY <1>1, Inductive, PTL

\* Once the program exits, no crash starts a cleanup or schedules a restart
\* (Process.cpp:121).
THEOREM ExitIsFinal == Spec => ExitStopsRecovery
<1>1. IInv /\ [Next]_vars =>
        (prepare_exit /\ thread # "cleanup" =>
           thread' # "cleanup" /\ pendingRestarts' <= pendingRestarts)
  <2> SUFFICES ASSUME IInv, [Next]_vars, prepare_exit, thread # "cleanup"
               PROVE  thread' # "cleanup" /\ pendingRestarts' <= pendingRestarts
    OBVIOUS
  <2>1. pendingRestarts \in Nat
    BY DEF IInv, CountTypeOK
  <2>2. CASE ThreadStep
    <3>1. CASE BecomesRunning
      BY <2>1, <3>1 DEF BecomesRunning
    <3>2. CASE FailsToStart
      BY <2>1, <3>2 DEF FailsToStart
    <3>3. CASE CoreListens
      BY <2>1, <3>3 DEF CoreListens
    <3>4. CASE CoreExits
      BY <2>1, <3>4 DEF CoreExits
    <3>5. CASE CleanupDone
      BY <2>1, <3>5 DEF CleanupDone
    <3>6. CASE TenSeconds
      BY <2>1, <3>6 DEF TenSeconds
    <3>7. CASE RestartFires
      BY <2>1, <3>7 DEF RestartFires, Restart
    <3>8. CASE RestartWaited
      BY <2>1, <3>8 DEF RestartWaited
    <3>9. CASE KillTimesOut
      BY <2>1, <3>9 DEF KillTimesOut
    <3> QED
      BY <2>2, <3>1, <3>2, <3>3, <3>4, <3>5, <3>6, <3>7, <3>8, <3>9 DEF ThreadStep, SupStep
  <2>3. CASE RunLambda
    <3>1. \/ \E id : Request(id)
          \/ \E id : Recover(id)
          \/ Kill
      BY <2>3, Zenon DEF RunLambda
    <3>2. pendingRestarts' = pendingRestarts
      BY <3>1, Zenon DEF Request, Recover, Kill
    <3>3. thread' # "cleanup"
      BY <3>1 DEF Request, Recover, Restart, Kill
    <3> QED
      BY <2>1, <3>2, <3>3
  <2>4. CASE \/ \E id \in Profiles : AskWhileDown(id) \/ ResumeTimer(id)
             \/ StopVPNProcess \/ CoreStarted \/ ManualStop \/ PrepareExit
    <3>1. pendingRestarts' = pendingRestarts /\ thread' = thread
      BY <2>4, Zenon DEF AskWhileDown, ResumeTimer, StopVPNProcess, Post, CoreStarted,
                         ManualStop, PrepareExit
    <3> QED
      BY <2>1, <3>1
  <2>5. CASE UNCHANGED vars
    BY <2>1, <2>5 DEF vars, supVars
  <2> QED
    BY <2>2, <2>3, <2>4, <2>5 DEF Next
<1> QED
  BY <1>1, Inductive, PTL DEF Spec, ExitStopsRecovery
=============================================================================
