----------------------------- MODULE CoreServer -----------------------------
(***************************************************************************)
(* The Go core's RPC handlers that own the process-wide globals: the       *)
(* sing-box instance (internal.BoxInstance with internal.InstanceCancel),  *)
(* the extra process and the system proxy.  Sources: core/server/server.go *)
(* (Start, Stop, EnableSystemProxy, DisableSystemProxy), internal/utils.go,*)
(* internal/boxmain/cmd_run.go (Create), internal/boxbox/api.go            *)
(* (CloseWithTimeout) and internal/process/process.go.                     *)
(*                                                                         *)
(* The thrift TSimpleServer runs one goroutine per connection and the      *)
(* handlers take no lock, so a call is a process with a pc, split where it *)
(* reads or writes a global.  A box and an extra process are named by the  *)
(* Start call that made them: a call makes at most one of each.            *)
(*                                                                         *)
(* Who calls what, and when, is the caller's business: the module offers   *)
(* Invoke and the handler steps.  SerialCore closes it with a client that  *)
(* behaves as the GUI intends to (one call at a time, Stop before the next *)
(* Start); ProfileLifecycle closes it with the GUI itself.                 *)
(***************************************************************************)
EXTENDS Naturals, FiniteSets

CONSTANTS
  StartCalls, StopCalls, EnableCalls, DisableCalls,
  ExtraCalls,   \* the Start calls with need_extra_process
  Nil

ASSUME CallsAssumption ==
  /\ StartCalls \cap StopCalls = {}
  /\ StartCalls \cap EnableCalls = {}
  /\ StartCalls \cap DisableCalls = {}
  /\ StopCalls \cap EnableCalls = {}
  /\ StopCalls \cap DisableCalls = {}
  /\ EnableCalls \cap DisableCalls = {}
  /\ ExtraCalls \subseteq StartCalls
  /\ Nil \notin StartCalls

Calls == StartCalls \cup StopCalls \cup EnableCalls \cup DisableCalls

VARIABLES
  pc,             \* where each call's handler is
  BoxInstance,    \* internal.BoxInstance: a Start call or Nil
  InstanceCancel, \* internal.InstanceCancel: the box it cancels, or Nil
  ExtraProcess,   \* internal.ExtraProcess
  box,            \* life of the box each Start call made
  extra,          \* life of the extra process each Start call made
  closing,        \* the box a Stop call has handed to CloseWithTimeout
  proxy,          \* the OS proxy setting made through SystemProxyController
  controller,     \* SystemProxyController exists and IsEnabled()
  resets,         \* Start calls whose AfterFunc(StartCtx) goroutine is pending
  alive           \* the core process has not died

serverVars == <<pc, BoxInstance, InstanceCancel, ExtraProcess, box, extra,
                closing, proxy, controller, resets, alive>>

instanceVars == <<BoxInstance, InstanceCancel, box, closing>>
extraVars == <<ExtraProcess, extra>>
proxyVars == <<proxy, controller, resets>>

BoxStates == {"none", "live", "closing", "closed"}
ExtraStates == {"none", "unstarted", "running", "stopped", "exited"}

\* "ok" and "err" are the two replies; "lost" is a call the core died under.
Finished == {"ok", "err", "lost"}
StartPcs == {"start", "startExtra", "startCreate", "startDone", "startFail"}
StopPcs == {"stop", "stopClose", "stopWait", "stopExtra"}
ProxyPcs == {"enable", "disable"}
Active == StartPcs \cup StopPcs \cup ProxyPcs

TypeOK ==
  /\ pc \in [Calls -> {"idle"} \cup Active \cup Finished]
  /\ BoxInstance \in StartCalls \cup {Nil}
  /\ InstanceCancel \in StartCalls \cup {Nil}
  /\ ExtraProcess \in StartCalls \cup {Nil}
  /\ box \in [StartCalls -> BoxStates]
  /\ extra \in [StartCalls -> ExtraStates]
  /\ closing \in [StopCalls -> StartCalls \cup {Nil}]
  /\ proxy \in BOOLEAN
  /\ controller \in BOOLEAN
  /\ resets \in SUBSET StartCalls
  /\ alive \in BOOLEAN

Init ==
  /\ pc = [c \in Calls |-> "idle"]
  /\ BoxInstance = Nil
  /\ InstanceCancel = Nil
  /\ ExtraProcess = Nil
  /\ box = [c \in StartCalls |-> "none"]
  /\ extra = [c \in StartCalls |-> "none"]
  /\ closing = [c \in StopCalls |-> Nil]
  /\ proxy = FALSE
  /\ controller = FALSE
  /\ resets = {}
  /\ alive = TRUE

At(c, l) == alive /\ pc[c] = l
Goto(c, l) == pc' = [pc EXCEPT ![c] = l]

(***************************************************************************)
(* A request arrives: the handler of its method starts.                    *)
(***************************************************************************)
Entry(c) ==
  CASE c \in StartCalls -> "start"
    [] c \in StopCalls -> "stop"
    [] c \in EnableCalls -> "enable"
    [] OTHER -> "disable"

Invoke(c) ==
  /\ At(c, "idle")
  /\ Goto(c, Entry(c))
  /\ UNCHANGED <<instanceVars, extraVars, proxyVars, alive>>

(***************************************************************************)
(* The process dies: an unrecovered panic in any goroutine, a kill or an   *)
(* exit.  Its memory is gone; what it did to the OS stays: extra processes *)
(* it launched and the proxy setting.                                      *)
(***************************************************************************)
Die ==
  /\ alive' = FALSE
  /\ pc' = [c \in Calls |-> IF pc[c] \in Active THEN "lost" ELSE pc[c]]
  /\ BoxInstance' = Nil
  /\ InstanceCancel' = Nil
  /\ ExtraProcess' = Nil
  /\ box' = [b \in StartCalls |-> IF box[b] = "none" THEN "none" ELSE "closed"]
  /\ closing' = [c \in StopCalls |-> Nil]
  /\ controller' = FALSE
  /\ resets' = {}
  /\ UNCHANGED <<extra, proxy>>

Relaunch ==
  /\ ~alive
  /\ alive' = TRUE
  /\ UNCHANGED <<pc, instanceVars, extraVars, proxyVars>>

-----------------------------------------------------------------------------
(***************************************************************************)
(* Start.  A Start that finds an instance refuses, and its deferred        *)
(* function then clears BoxInstance like for every other error.            *)
(***************************************************************************)
StartCheck(c) ==
  /\ At(c, "start")
  /\ \/ BoxInstance # Nil /\ Goto(c, "startFail")
     \/ /\ BoxInstance = Nil
        /\ Goto(c, IF c \in ExtraCalls THEN "startExtra" ELSE "startCreate")
  /\ UNCHANGED <<instanceVars, extraVars, proxyVars, alive>>

\* The arguments do not parse, or extra.conf cannot be written.
StartExtraReject(c) ==
  /\ At(c, "startExtra")
  /\ Goto(c, "startFail")
  /\ UNCHANGED <<instanceVars, extraVars, proxyVars, alive>>

\* The global is assigned before Start is tried, so a process that could not
\* be launched stays in it, with no os.Process behind.
StartExtra(c) ==
  /\ At(c, "startExtra")
  /\ ExtraProcess' = c
  /\ \/ extra' = [extra EXCEPT ![c] = "running"] /\ Goto(c, "startCreate")
     \/ extra' = [extra EXCEPT ![c] = "unstarted"] /\ Goto(c, "startFail")
  /\ UNCHANGED <<instanceVars, proxyVars, alive>>

\* Mutant of Create: the cancel function is dropped.
MutCreateNoCancel(c) ==
  /\ At(c, "startCreate")
  /\ BoxInstance' = c
  /\ box' = [box EXCEPT ![c] = "live"]
  /\ Goto(c, "startDone")
  /\ UNCHANGED <<InstanceCancel, closing, extraVars, proxyVars, alive>>

\* boxmain.Create: parse, New, Start; on an error it closes what it started
\* and the tuple assignment stores nil in both globals.
Create(c) ==
  /\ At(c, "startCreate")
  /\ \/ /\ BoxInstance' = c
        /\ InstanceCancel' = c
        /\ box' = [box EXCEPT ![c] = "live"]
        /\ Goto(c, "startDone")
     \/ /\ BoxInstance' = Nil
        /\ InstanceCancel' = Nil
        /\ UNCHANGED box
        /\ Goto(c, "startFail")
  /\ UNCHANGED <<closing, extraVars, proxyVars, alive>>

\* Mutant of StartReturn: a reply that is neither a success nor an error.
MutStartReturnUnknown(c) ==
  /\ At(c, "startDone")
  /\ Goto(c, "done")
  /\ UNCHANGED <<instanceVars, extraVars, proxyVars, alive>>

\* The deferred function without an error: it dereferences BoxInstance again,
\* and StartCtx is already done, so the AfterFunc goroutine runs at once.
StartReturn(c) ==
  /\ At(c, "startDone")
  /\ \/ BoxInstance = Nil /\ Die
     \/ /\ BoxInstance # Nil
        /\ resets' = resets \cup {c}
        /\ Goto(c, "ok")
        /\ UNCHANGED <<instanceVars, extraVars, proxy, controller, alive>>

\* Mutant of StartFail: the error is not reported.
MutStartFailOk(c) ==
  /\ At(c, "startFail")
  /\ BoxInstance' = Nil
  /\ Goto(c, "ok")
  /\ UNCHANGED <<InstanceCancel, box, closing, extraVars, proxyVars, alive>>

\* The deferred function with an error.
StartFail(c) ==
  /\ At(c, "startFail")
  /\ BoxInstance' = Nil
  /\ Goto(c, "err")
  /\ UNCHANGED <<InstanceCancel, box, closing, extraVars, proxyVars, alive>>

\* ResetSystemProxy: a no-op without an enabled controller; Disable may fail.
ResetSystemProxy ==
  \/ ~controller /\ UNCHANGED <<proxy, controller>>
  \/ controller /\ proxy' = FALSE /\ controller' = FALSE
  \/ controller /\ UNCHANGED <<proxy, controller>>

\* context.AfterFunc(StartCtx, ResetSystemProxy)
AfterFunc(c) ==
  /\ alive
  /\ c \in resets
  /\ resets' = resets \ {c}
  /\ ResetSystemProxy
  /\ UNCHANGED <<pc, instanceVars, extraVars, alive>>

-----------------------------------------------------------------------------
(***************************************************************************)
(* Stop.  It returns early when there is no instance, before it looks at   *)
(* the extra process.                                                      *)
(***************************************************************************)
StopCheck(c) ==
  /\ At(c, "stop")
  /\ ResetSystemProxy
  /\ Goto(c, IF BoxInstance = Nil THEN "ok" ELSE "stopClose")
  /\ UNCHANGED <<instanceVars, extraVars, resets, alive>>

\* Mutant of StopClose: the box is not closed.
MutStopCloseSkips(c) ==
  /\ At(c, "stopClose")
  /\ Goto(c, "stopWait")
  /\ UNCHANGED <<instanceVars, extraVars, proxyVars, alive>>

\* CloseWithTimeout: a goroutine cancels the context and closes the box.  The
\* globals are read again: a nil receiver or a nil cancel panics there.
StopClose(c) ==
  /\ At(c, "stopClose")
  /\ \/ (BoxInstance = Nil \/ InstanceCancel = Nil) /\ Die
     \/ /\ BoxInstance # Nil /\ InstanceCancel # Nil
        /\ closing' = [closing EXCEPT ![c] = BoxInstance]
        /\ box' = [box EXCEPT ![BoxInstance] = IF @ = "live" THEN "closing" ELSE @]
        /\ Goto(c, "stopWait")
        /\ UNCHANGED <<BoxInstance, InstanceCancel, extraVars, proxyVars, alive>>

\* The closing goroutine gets there, however long it takes.
BoxClosed(b) ==
  /\ alive
  /\ box[b] = "closing"
  /\ box' = [box EXCEPT ![b] = "closed"]
  /\ UNCHANGED <<pc, BoxInstance, InstanceCancel, closing, extraVars, proxyVars,
                 alive>>

\* Mutants of StopWaited: no timeout; the global is not cleared.
MutStopWaitedForever(c) ==
  /\ At(c, "stopWait")
  /\ box[closing[c]] = "closed"
  /\ BoxInstance' = Nil
  /\ closing' = [closing EXCEPT ![c] = Nil]
  /\ Goto(c, "stopExtra")
  /\ UNCHANGED <<InstanceCancel, box, extraVars, proxyVars, alive>>

MutStopWaitedKeeps(c) ==
  /\ At(c, "stopWait")
  /\ closing' = [closing EXCEPT ![c] = Nil]
  /\ Goto(c, "stopExtra")
  /\ UNCHANGED <<BoxInstance, InstanceCancel, box, extraVars, proxyVars, alive>>

\* Closed, or two seconds passed: either way the global is cleared.
StopWaited(c) ==
  /\ At(c, "stopWait")
  /\ BoxInstance' = Nil
  /\ closing' = [closing EXCEPT ![c] = Nil]
  /\ Goto(c, "stopExtra")
  /\ UNCHANGED <<InstanceCancel, box, extraVars, proxyVars, alive>>

\* Mutant of StopExtra: the pointer is cleared but the process is not killed.
MutStopExtraNoKill(c) ==
  /\ At(c, "stopExtra")
  /\ ExtraProcess' = Nil
  /\ Goto(c, "ok")
  /\ UNCHANGED <<instanceVars, extra, proxyVars, alive>>

\* Process.Stop marks the process as stopped and kills it; without an
\* os.Process behind it, Kill panics.
StopExtra(c) ==
  /\ At(c, "stopExtra")
  /\ \/ /\ ExtraProcess = Nil
        /\ Goto(c, "ok")
        /\ UNCHANGED <<instanceVars, extraVars, proxyVars, alive>>
     \/ /\ ExtraProcess # Nil
        /\ extra[ExtraProcess] = "unstarted"
        /\ Die
     \/ /\ ExtraProcess # Nil
        /\ extra[ExtraProcess] # "unstarted"
        /\ extra' = [extra EXCEPT ![ExtraProcess] = "stopped"]
        /\ ExtraProcess' = Nil
        /\ Goto(c, "ok")
        /\ UNCHANGED <<instanceVars, proxyVars, alive>>

\* The extra process exits by itself; its waiter reports it.
ExtraExits(e) ==
  /\ extra[e] = "running"
  /\ extra' = [extra EXCEPT ![e] = "exited"]
  /\ UNCHANGED <<pc, instanceVars, ExtraProcess, proxyVars, alive>>

-----------------------------------------------------------------------------
\* SetSystemProxy: without an instance it reports success and does nothing.
\* An enabled controller for the same address is kept; otherwise the old one is
\* disabled and a new one enabled, which may refuse.  A controller that cannot
\* be built is used anyway and panics.
Enable(c) ==
  /\ At(c, "enable")
  /\ \/ /\ BoxInstance = Nil \/ controller
        /\ Goto(c, "ok")
        /\ UNCHANGED <<instanceVars, extraVars, proxyVars, alive>>
     \/ /\ BoxInstance # Nil
        /\ \/ Goto(c, "ok") /\ proxy' = TRUE /\ controller' = TRUE
           \/ /\ Goto(c, "err")
              /\ proxy' \in {proxy} \cup {~controller /\ proxy}
              /\ controller' = FALSE
        /\ UNCHANGED <<instanceVars, extraVars, resets, alive>>
     \/ BoxInstance # Nil /\ Die

\* DisableSystemProxy: ResetSystemProxy as an RPC of its own.
Disable(c) ==
  /\ At(c, "disable")
  /\ ResetSystemProxy
  /\ Goto(c, IF controller' THEN "err" ELSE "ok")
  /\ UNCHANGED <<instanceVars, extraVars, resets, alive>>

StartStep(c) ==
  \/ StartCheck(c) \/ StartExtraReject(c) \/ StartExtra(c)
  \/ Create(c) \/ StartReturn(c) \/ StartFail(c)
StopStep(c) == StopCheck(c) \/ StopClose(c) \/ StopWaited(c) \/ StopExtra(c)

\* Every step the core takes for calls already made.
ServerStep ==
  \/ \E c \in StartCalls : StartStep(c) \/ AfterFunc(c) \/ BoxClosed(c) \/ ExtraExits(c)
  \/ \E c \in StopCalls : StopStep(c)
  \/ \E c \in EnableCalls : Enable(c)
  \/ \E c \in DisableCalls : Disable(c)
=============================================================================
