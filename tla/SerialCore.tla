----------------------------- MODULE SerialCore -----------------------------
(***************************************************************************)
(* The core's handlers under the client the GUI's mutexes are meant to     *)
(* make of it: one call at a time, Start only when no profile is up, Stop  *)
(* only when one is.  What holds here is what the handlers guarantee by    *)
(* themselves; ProfileLifecycle asks whether the GUI keeps to the terms.   *)
(*                                                                         *)
(* The GUI may disappear (force quit); the core then exits by -waitpid.    *)
(***************************************************************************)
EXTENDS CoreServer

VARIABLES
  up,      \* the client's view: a profile is running
  gui,     \* the GUI process exists
  deaths   \* history: how often the core has died

vars == <<serverVars, up, gui, deaths>>

Quiet == \A c \in Calls : pc[c] \notin Active

ClientTypeOK ==
  /\ TypeOK
  /\ up \in BOOLEAN
  /\ gui \in BOOLEAN
  /\ deaths \in Nat

ClientInit == Init /\ up = FALSE /\ gui = TRUE /\ deaths = 0

Replied(c) == pc[c] \in Active /\ pc'[c] \in Finished

(***************************************************************************)
(* What the client believes after a step: up after a Start that answered   *)
(* without an error, down after any end of a Stop and after a core exit.   *)
(***************************************************************************)
Observe ==
  /\ up' = \/ alive' /\ \E c \in StartCalls : Replied(c) /\ pc'[c] = "ok"
           \/ alive' /\ up /\ \A c \in StopCalls : ~Replied(c)
  /\ deaths' = IF alive /\ ~alive' THEN deaths + 1 ELSE deaths
  /\ UNCHANGED gui

Call(c) ==
  /\ gui
  /\ Quiet
  /\ c \in StartCalls => ~up
  /\ c \in StopCalls => up
  /\ Invoke(c)
  /\ UNCHANGED <<up, gui, deaths>>

Handle == ServerStep /\ Observe

\* The GUI is killed; main's -waitpid goroutine then calls os.Exit(1).
ForceQuit ==
  /\ gui
  /\ gui' = FALSE
  /\ UNCHANGED <<serverVars, up, deaths>>

WaitpidExit ==
  /\ ~gui
  /\ alive
  /\ Die
  /\ Observe

\* The supervisor starts the core again (CoreProcess.tla says when).
CoreRestarted == gui /\ Relaunch /\ UNCHANGED <<up, gui, deaths>>

Next == (\E c \in Calls : Call(c)) \/ Handle \/ ForceQuit \/ WaitpidExit \/ CoreRestarted

Spec == ClientInit /\ [][Next]_vars

\* Goroutines are scheduled; nothing is assumed of BoxClosed, the time sing-box
\* takes to close.
Running(c) == (StartStep(c) \/ StopStep(c) \/ Enable(c) \/ Disable(c)) /\ Observe
FairSpec == Spec /\ \A c \in Calls : WF_vars(Running(c)) 

-----------------------------------------------------------------------------
(***************************************************************************)
(* Between calls the client and the core agree on whether an instance      *)
(* exists (server.go Start/Stop against running in mainwindow_rpc.cpp).    *)
(***************************************************************************)
Agreement == alive /\ Quiet => (up <=> BoxInstance # Nil)

(***************************************************************************)
(* No box is left running without BoxInstance pointing at it: every live   *)
(* instance can be closed by the next Stop (server.go:69-89, 193-195).     *)
(***************************************************************************)
NoOrphanBox == \A b \in StartCalls : box[b] = "live" => BoxInstance = b

(***************************************************************************)
(* While the core has never died, an extra process that outlives the       *)
(* profile belongs to a Start that answered with an error: the only leak   *)
(* is a failed Create after the launch (server.go:114-124), which Stop's   *)
(* early return then never cleans up.                                      *)
(***************************************************************************)
LeakOnlyFromFailedStart ==
  \A e \in StartCalls :
    deaths = 0 /\ Quiet /\ ~up /\ extra[e] = "running" => pc[e] = "err"

(***************************************************************************)
(* Stop brings the core down only when an earlier Start could not launch   *)
(* its extra process and left the unlaunched object in ExtraProcess        *)
(* (server.go:114-118, process.go:43-46), or when the GUI is gone.         *)
(***************************************************************************)
StopSurvives ==
  [][\A c \in StopCalls :
       pc[c] \in StopPcs /\ pc'[c] = "lost" =>
         ~gui \/ \E e \in StartCalls : extra[e] = "unstarted"]_vars

(***************************************************************************)
(* Every call is answered or lost with the core, however long sing-box     *)
(* takes to close: CloseWithTimeout bounds Stop (api.go:28-33).            *)
(***************************************************************************)
CallsAnswered == \A c \in Calls : (pc[c] \in Active) ~> (pc[c] \in Finished)

(***************************************************************************)
(* The handlers keep the promise of OneInstance: an instance is launched   *)
(* only when none runs and the client knows it, the client is told of it   *)
(* only while it runs, and it is taken down only once the client was told  *)
(* (server.go:67-91, 119-140, 172-205).  A box that is still closing when  *)
(* Stop has waited long enough no longer counts as running.                *)
(***************************************************************************)
Promise == INSTANCE OneInstance WITH
  Instances <- StartCalls,
  running <- {b \in StartCalls : box[b] = "live"},
  used <- {b \in StartCalls : box[b] # "none"},
  shown <- up

KeepsPromise == Promise!Spec
=============================================================================
