-------------------------- MODULE SerialCoreProofs --------------------------
(***************************************************************************)
(* TLAPS proofs about SerialCore, for any sets of calls: client and core   *)
(* agree between calls, no box is orphaned, an extra process is left       *)
(* behind only by a Start that failed, Stop survives, and the handlers     *)
(* implement OneInstance.                                                  *)
(***************************************************************************)
EXTENDS SerialCore, TLAPS

(***************************************************************************)
(* The strengthening.  At most one handler runs, so its pc says what the   *)
(* globals hold: which calls run with an instance and which without, and   *)
(* what the client believes meanwhile.                                     *)
(***************************************************************************)
OneCall ==
  \A c, d \in Calls : pc[c] \in Active /\ pc[d] \in Active => c = d

PcOwner ==
  \A c \in Calls :
    /\ pc[c] \in StartPcs => c \in StartCalls
    /\ pc[c] \in StopPcs => c \in StopCalls

DeadCore ==
  ~alive => /\ \A c \in Calls : pc[c] \notin Active
            /\ BoxInstance = Nil
            /\ ~up

CancelMatches == BoxInstance # Nil => InstanceCancel = BoxInstance

PcInv ==
  \A c \in Calls :
    /\ pc[c] \in StartPcs \ {"startDone"} => ~up /\ BoxInstance = Nil
    /\ pc[c] = "startDone" => ~up /\ BoxInstance = c
    /\ pc[c] \in StopPcs => up
    /\ pc[c] \in {"stop", "stopClose", "stopWait"} => BoxInstance # Nil
    /\ pc[c] = "stopWait" => box[BoxInstance] # "live"
    /\ pc[c] = "stopExtra" => BoxInstance = Nil
    /\ pc[c] \in ProxyPcs => (up <=> BoxInstance # Nil)

IInv ==
  /\ ClientTypeOK
  /\ OneCall
  /\ PcOwner
  /\ DeadCore
  /\ CancelMatches
  /\ NoOrphanBox
  /\ PcInv
  /\ Agreement

-----------------------------------------------------------------------------
\* Type correctness of the client and the handlers.
LEMMA TypeInit == ClientInit => ClientTypeOK
<1> SUFFICES ASSUME ClientInit PROVE ClientTypeOK
  OBVIOUS
<1>1. pc \in [Calls -> {"idle"} \cup Active \cup Finished]
  BY DEF ClientInit, Init
<1>2. /\ BoxInstance \in StartCalls \cup {Nil}
      /\ InstanceCancel \in StartCalls \cup {Nil}
      /\ ExtraProcess \in StartCalls \cup {Nil}
      /\ closing \in [StopCalls -> StartCalls \cup {Nil}]
      /\ resets \in SUBSET StartCalls
  BY DEF ClientInit, Init
<1>3. box \in [StartCalls -> BoxStates] /\ extra \in [StartCalls -> ExtraStates]
  BY DEF ClientInit, Init, BoxStates, ExtraStates
<1>4. /\ proxy \in BOOLEAN /\ controller \in BOOLEAN /\ alive \in BOOLEAN
      /\ up \in BOOLEAN /\ gui \in BOOLEAN
  BY DEF ClientInit, Init
<1>5. deaths \in Nat
  BY DEF ClientInit
<1> QED
  BY <1>1, <1>2, <1>3, <1>4, <1>5 DEF ClientTypeOK, TypeOK

USE CallsAssumption DEF Calls, Active, Finished, StartPcs, StopPcs, ProxyPcs
USE DEF At, Goto, instanceVars, extraVars, proxyVars

\* ResetSystemProxy keeps the types of the two proxy variables.
LEMMA ResetType ==
  ASSUME TypeOK, ResetSystemProxy PROVE proxy' \in BOOLEAN /\ controller' \in BOOLEAN
  BY Zenon DEF TypeOK, ResetSystemProxy

\* A death of the core, whatever handler it happens in, keeps the invariant.
LEMMA DeathIsUnderstood ==
  ASSUME IInv, alive, Die, Observe PROVE IInv'
<1>1. /\ ~alive' /\ BoxInstance' = Nil /\ InstanceCancel' = Nil /\ ExtraProcess' = Nil
      /\ proxy' = proxy /\ controller' = FALSE /\ extra' = extra /\ resets' = {}
  BY DEF Die
<1>2. ~up'
  BY <1>1 DEF Observe
<1>3. \A c \in Calls : pc'[c] \notin Active
  BY DEF Die, IInv, ClientTypeOK, TypeOK
<1>4. \A b \in StartCalls : box'[b] # "live"
  BY DEF Die
<1>5. pc' \in [Calls -> {"idle"} \cup Active \cup Finished]
  BY DEF Die, IInv, ClientTypeOK, TypeOK
<1>6. box' \in [StartCalls -> BoxStates] /\ closing' \in [StopCalls -> StartCalls \cup {Nil}]
  BY DEF Die, IInv, ClientTypeOK, TypeOK, BoxStates
<1>7a. proxy' \in BOOLEAN /\ controller' \in BOOLEAN /\ alive' \in BOOLEAN
  BY <1>1, Zenon DEF IInv, ClientTypeOK, TypeOK, Die
<1>7b. up' \in BOOLEAN /\ gui' \in BOOLEAN
  BY Zenon DEF IInv, ClientTypeOK, Observe
<1>7c. deaths' \in Nat
  BY DEF IInv, ClientTypeOK, Observe
<1>8. ClientTypeOK'
  BY <1>1, <1>5, <1>6, <1>7a, <1>7b, <1>7c DEF IInv, ClientTypeOK, TypeOK
<1> QED
  BY <1>1, <1>2, <1>3, <1>4, <1>8
     DEF IInv, OneCall, PcOwner, DeadCore, CancelMatches, NoOrphanBox, PcInv, Agreement

\* AfterFunc keeps the invariant.
LEMMA LAfterFunc ==
  ASSUME IInv, NEW c \in StartCalls, AfterFunc(c), Observe PROVE IInv'
<1>1. proxy' \in BOOLEAN /\ controller' \in BOOLEAN
  BY ResetType DEF IInv, ClientTypeOK, AfterFunc
<1> QED
  BY <1>1 DEF IInv, ClientTypeOK, TypeOK, OneCall, PcOwner, DeadCore,
              CancelMatches, NoOrphanBox, PcInv, Agreement, Quiet, Observe,
              Replied, AfterFunc

\* StopCheck keeps the invariant.
LEMMA LStopCheck ==
  ASSUME IInv, NEW c \in StopCalls, StopCheck(c), Observe PROVE IInv'
<1>1. proxy' \in BOOLEAN /\ controller' \in BOOLEAN
  BY ResetType DEF IInv, ClientTypeOK, StopCheck
<1> QED
  BY <1>1 DEF IInv, ClientTypeOK, TypeOK, OneCall, PcOwner, DeadCore,
              CancelMatches, NoOrphanBox, PcInv, Agreement, Quiet, Observe,
              Replied, StopCheck

\* Disable keeps the invariant.
LEMMA LDisable ==
  ASSUME IInv, NEW c \in DisableCalls, Disable(c), Observe PROVE IInv'
<1>1. proxy' \in BOOLEAN /\ controller' \in BOOLEAN
  BY ResetType DEF IInv, ClientTypeOK, Disable
<1> QED
  BY <1>1 DEF IInv, ClientTypeOK, TypeOK, OneCall, PcOwner, DeadCore,
              CancelMatches, NoOrphanBox, PcInv, Agreement, Quiet, Observe,
              Replied, Disable

\* StartReturn keeps the invariant.
LEMMA LStartReturn ==
  ASSUME IInv, NEW c \in StartCalls, StartReturn(c), Observe PROVE IInv'
<1>1. CASE Die
  BY <1>1, DeathIsUnderstood DEF StartReturn
<1>2. CASE /\ pc' = [pc EXCEPT ![c] = "ok"]
           /\ resets' = resets \cup {c}
           /\ UNCHANGED <<instanceVars, extraVars, proxy, controller, alive>>
  BY <1>2 DEF IInv, ClientTypeOK, TypeOK, OneCall, PcOwner, DeadCore,
              CancelMatches, NoOrphanBox, PcInv, Agreement, Quiet, Observe,
              Replied, StartReturn
<1> QED
  BY <1>1, <1>2 DEF StartReturn

\* StopClose keeps the invariant.
LEMMA LStopClose ==
  ASSUME IInv, NEW c \in StopCalls, StopClose(c), Observe PROVE IInv'
<1>1. CASE Die
  BY <1>1, DeathIsUnderstood DEF StopClose
<1>2. CASE /\ BoxInstance # Nil
           /\ closing' = [closing EXCEPT ![c] = BoxInstance]
           /\ box' = [box EXCEPT ![BoxInstance] = IF @ = "live" THEN "closing" ELSE @]
           /\ pc' = [pc EXCEPT ![c] = "stopWait"]
           /\ UNCHANGED <<BoxInstance, InstanceCancel, extraVars, proxyVars, alive>>
  <2> USE <1>2
  <2>1. pc[c] = "stopClose" /\ alive
    BY DEF StopClose
  <2>2. box' \in [StartCalls -> BoxStates]
    BY DEF IInv, ClientTypeOK, TypeOK, BoxStates
  <2>3. box'[BoxInstance] # "live"
    BY DEF IInv, ClientTypeOK, TypeOK
  <2>4. \A b \in StartCalls : box'[b] = "live" => box[b] = "live"
    BY DEF IInv, ClientTypeOK, TypeOK
  <2> HIDE <1>2
  <2>5. /\ closing' = [closing EXCEPT ![c] = BoxInstance]
        /\ pc' = [pc EXCEPT ![c] = "stopWait"]
        /\ UNCHANGED <<BoxInstance, InstanceCancel, extraVars, proxyVars, alive>>
    BY <1>2
  <2> QED
    BY <2>1, <2>2, <2>3, <2>4, <2>5 DEF IInv, ClientTypeOK, TypeOK, OneCall,
                                        PcOwner, DeadCore, CancelMatches,
                                        NoOrphanBox, PcInv, Agreement, Quiet,
                                        Observe, Replied
<1> QED
  BY <1>1, <1>2 DEF StopClose

\* StopExtra keeps the invariant.
LEMMA LStopExtra ==
  ASSUME IInv, NEW c \in StopCalls, StopExtra(c), Observe PROVE IInv'
<1>1. CASE Die
  BY <1>1, DeathIsUnderstood DEF StopExtra
<1>2. CASE /\ pc' = [pc EXCEPT ![c] = "ok"]
           /\ UNCHANGED <<instanceVars, proxyVars, alive>>
  <2>1. extra' \in [StartCalls -> ExtraStates] /\ ExtraProcess' \in StartCalls \cup {Nil}
    BY <1>2 DEF IInv, ClientTypeOK, TypeOK, StopExtra, ExtraStates, Die
  <2>2. pc[c] = "stopExtra" /\ alive
    BY DEF StopExtra
  <2> QED
    BY <1>2, <2>1, <2>2 DEF IInv, ClientTypeOK, TypeOK, OneCall, PcOwner, DeadCore,
                            CancelMatches, NoOrphanBox, PcInv, Agreement, Quiet,
                            Observe, Replied
<1> QED
  BY <1>1, <1>2 DEF StopExtra

\* Enable keeps the invariant.
LEMMA LEnable == ASSUME IInv, NEW c \in EnableCalls, Enable(c), Observe PROVE IInv'
<1>1. CASE Die
  BY <1>1, DeathIsUnderstood DEF Enable
<1>2. CASE /\ \E l \in {"ok", "err"} : pc' = [pc EXCEPT ![c] = l]
           /\ proxy' \in {TRUE, FALSE, proxy} /\ controller' \in {TRUE, FALSE, controller}
           /\ UNCHANGED <<instanceVars, extraVars, resets, alive>>
  <2>1. proxy' \in BOOLEAN /\ controller' \in BOOLEAN
    BY <1>2, Zenon DEF IInv, ClientTypeOK, TypeOK
  <2>2. pc[c] = "enable" /\ alive
    BY DEF Enable
  <2> QED
    BY <1>2, <2>1, <2>2 DEF IInv, ClientTypeOK, TypeOK, OneCall, PcOwner, DeadCore,
                            CancelMatches, NoOrphanBox, PcInv, Agreement, Quiet,
                            Observe, Replied
<1> QED
  BY <1>1, <1>2 DEF Enable, IInv, ClientTypeOK, TypeOK

\* StartCheck keeps the invariant.
LEMMA LStartCheck ==
  ASSUME IInv, NEW c \in StartCalls, StartCheck(c), Observe PROVE IInv'
  BY DEF IInv, ClientTypeOK, TypeOK, OneCall, PcOwner, DeadCore, CancelMatches,
         NoOrphanBox, PcInv, Agreement, Quiet, Observe, Replied, StartCheck

\* StartExtraReject keeps the invariant.
LEMMA LStartExtraReject ==
  ASSUME IInv, NEW c \in StartCalls, StartExtraReject(c), Observe PROVE IInv'
  BY DEF IInv, ClientTypeOK, TypeOK, OneCall, PcOwner, DeadCore, CancelMatches,
         NoOrphanBox, PcInv, Agreement, Quiet, Observe, Replied, StartExtraReject

\* StartExtra keeps the invariant.
LEMMA LStartExtra ==
  ASSUME IInv, NEW c \in StartCalls, StartExtra(c), Observe PROVE IInv'
  BY DEF IInv, ClientTypeOK, TypeOK, OneCall, PcOwner, DeadCore, CancelMatches,
         NoOrphanBox, PcInv, Agreement, Quiet, Observe, Replied, StartExtra,
         ExtraStates

\* Create keeps the invariant.
LEMMA LCreate == ASSUME IInv, NEW c \in StartCalls, Create(c), Observe PROVE IInv'
  BY DEF IInv, ClientTypeOK, TypeOK, OneCall, PcOwner, DeadCore, CancelMatches,
         NoOrphanBox, PcInv, Agreement, Quiet, Observe, Replied, Create, BoxStates

\* StartFail keeps the invariant.
LEMMA LStartFail ==
  ASSUME IInv, NEW c \in StartCalls, StartFail(c), Observe PROVE IInv'
  BY DEF IInv, ClientTypeOK, TypeOK, OneCall, PcOwner, DeadCore, CancelMatches,
         NoOrphanBox, PcInv, Agreement, Quiet, Observe, Replied, StartFail

\* BoxClosed keeps the invariant.
LEMMA LBoxClosed ==
  ASSUME IInv, NEW c \in StartCalls, BoxClosed(c), Observe PROVE IInv'
  BY DEF IInv, ClientTypeOK, TypeOK, OneCall, PcOwner, DeadCore, CancelMatches,
         NoOrphanBox, PcInv, Agreement, Quiet, Observe, Replied, BoxClosed,
         BoxStates

\* ExtraExits keeps the invariant.
LEMMA LExtraExits ==
  ASSUME IInv, NEW c \in StartCalls, ExtraExits(c), Observe PROVE IInv'
  BY DEF IInv, ClientTypeOK, TypeOK, OneCall, PcOwner, DeadCore, CancelMatches,
         NoOrphanBox, PcInv, Agreement, Quiet, Observe, Replied, ExtraExits,
         ExtraStates

\* StopWaited keeps the invariant.
LEMMA LStopWaited ==
  ASSUME IInv, NEW c \in StopCalls, StopWaited(c), Observe PROVE IInv'
  BY DEF IInv, ClientTypeOK, TypeOK, OneCall, PcOwner, DeadCore, CancelMatches,
         NoOrphanBox, PcInv, Agreement, Quiet, Observe, Replied, StopWaited

\* A new call of the client keeps the invariant.
LEMMA LCall == ASSUME IInv, NEW c \in Calls, Call(c) PROVE IInv'
<1>1. Entry(c) \in {"start", "stop", "enable", "disable"}
      /\ (Entry(c) = "start" <=> c \in StartCalls)
      /\ (Entry(c) = "stop" <=> c \in StopCalls)
  BY DEF Entry
<1> QED
  BY <1>1 DEF IInv, ClientTypeOK, TypeOK, OneCall, PcOwner, DeadCore,
              CancelMatches, NoOrphanBox, PcInv, Agreement, Quiet, Observe,
              Replied, Call, Invoke

\* A relaunched core starts from empty globals.
LEMMA LRelaunch == ASSUME IInv, CoreRestarted PROVE IInv'
  BY DEF IInv, ClientTypeOK, TypeOK, OneCall, PcOwner, DeadCore, CancelMatches,
         NoOrphanBox, PcInv, Agreement, Quiet, Observe, Replied, CoreRestarted,
         Relaunch

\* Losing the GUI changes nothing in the core.
LEMMA LForceQuit == ASSUME IInv, ForceQuit PROVE IInv'
<1>1. UNCHANGED <<serverVars, up, deaths>> /\ gui' = FALSE
  BY DEF ForceQuit
<1>2. gui' \in BOOLEAN /\ proxy' \in BOOLEAN /\ controller' \in BOOLEAN
  BY <1>1, Zenon DEF IInv, ClientTypeOK, TypeOK, serverVars
<1>3. ClientTypeOK'
  BY <1>1, <1>2 DEF IInv, ClientTypeOK, TypeOK, serverVars
<1>4. OneCall' /\ PcOwner' /\ DeadCore' /\ CancelMatches' /\ NoOrphanBox'
  BY <1>1 DEF IInv, OneCall, PcOwner, DeadCore, CancelMatches, NoOrphanBox, serverVars
<1>5. PcInv' /\ Agreement'
  BY <1>1 DEF IInv, PcInv, Agreement, Quiet, serverVars
<1> QED
  BY <1>3, <1>4, <1>5 DEF IInv

\* The inductive step, one case per action.
LEMMA StepInv == ASSUME IInv, [Next]_vars PROVE IInv'
<1>1. ASSUME NEW c \in Calls, Call(c) PROVE IInv'
  BY <1>1, LCall
<1>2. CASE Handle
  <2>1. ASSUME NEW c \in StartCalls,
               StartStep(c) \/ AfterFunc(c) \/ BoxClosed(c) \/ ExtraExits(c)
        PROVE  IInv'
    BY <1>2, <2>1, LStartCheck, LStartExtraReject, LStartExtra, LCreate, LStartReturn,
       LStartFail, LAfterFunc, LBoxClosed, LExtraExits DEF StartStep, Handle
  <2>2. ASSUME NEW c \in StopCalls, StopStep(c) PROVE IInv'
    BY <1>2, <2>2, LStopCheck, LStopClose, LStopWaited, LStopExtra
      DEF StopStep, Handle
  <2>3. ASSUME NEW c \in EnableCalls, Enable(c) PROVE IInv'
    BY <1>2, <2>3, LEnable DEF Handle
  <2>4. ASSUME NEW c \in DisableCalls, Disable(c) PROVE IInv'
    BY <1>2, <2>4, LDisable DEF Handle
  <2> QED
    BY <1>2, <2>1, <2>2, <2>3, <2>4 DEF Handle, ServerStep
<1>3. CASE ForceQuit
  BY <1>3, LForceQuit
<1>4. CASE WaitpidExit
  BY <1>4, DeathIsUnderstood DEF WaitpidExit
<1>5. CASE CoreRestarted
  BY <1>5, LRelaunch
<1>6. CASE UNCHANGED vars
  BY <1>6 DEF IInv, ClientTypeOK, TypeOK, OneCall, PcOwner, DeadCore,
              CancelMatches, NoOrphanBox, PcInv, Agreement, Quiet, Observe,
              Replied, vars, serverVars
<1> QED
  BY <1>1, <1>2, <1>3, <1>4, <1>5, <1>6 DEF Next

\* The initial state satisfies the invariant.
LEMMA InitInv == ClientInit => IInv
<1> SUFFICES ASSUME ClientInit PROVE IInv
  OBVIOUS
<1>1. ClientTypeOK
  BY TypeInit
<1> QED
  BY <1>1 DEF ClientInit, Init, IInv, OneCall, PcOwner, DeadCore, CancelMatches,
              NoOrphanBox, PcInv, Agreement, Quiet

\* The strengthened invariant holds in every reachable state.
THEOREM Inductive == Spec => []IInv
  BY InitInv, StepInv, PTL DEF Spec

(***************************************************************************)
(* Every variable of the handlers and of the client keeps its type.        *)
(***************************************************************************)
THEOREM TypeCorrect == Spec => []ClientTypeOK
<1>1. IInv => ClientTypeOK
  BY DEF IInv
<1> QED
  BY <1>1, Inductive, PTL

(***************************************************************************)
(* For any number of calls: between calls the client's running flag and    *)
(* the core's BoxInstance agree.                                           *)
(***************************************************************************)
THEOREM ClientAgrees == Spec => []Agreement
<1>1. IInv => Agreement
  BY DEF IInv
<1> QED
  BY <1>1, Inductive, PTL

(***************************************************************************)
(* For any number of calls: no live box escapes BoxInstance.               *)
(***************************************************************************)
THEOREM NoOrphans == Spec => []NoOrphanBox
<1>1. IInv => NoOrphanBox
  BY DEF IInv
<1> QED
  BY <1>1, Inductive, PTL

\* A handler that does not panic leaves every other call's pc alone and does
\* not mark its own as lost.
LEMMA OnlyDeathLoses ==
  ASSUME IInv, NEW c \in StopCalls, pc[c] \in StopPcs, pc'[c] = "lost", Handle
  PROVE  Die /\ \/ \E d \in StartCalls : StartReturn(d) /\ BoxInstance = Nil
                \/ \E d \in StopCalls : StopClose(d) /\ (BoxInstance = Nil \/ InstanceCancel = Nil)
                \/ \E d \in StopCalls : StopExtra(d) /\ \E e \in StartCalls : extra[e] = "unstarted"
                \/ \E d \in EnableCalls : Enable(d)
<1> USE DEF IInv, ClientTypeOK, TypeOK
<1>1. ASSUME NEW d \in StartCalls,
             StartStep(d) \/ AfterFunc(d) \/ BoxClosed(d) \/ ExtraExits(d)
      PROVE  StartReturn(d) /\ BoxInstance = Nil /\ Die
  BY <1>1 DEF StartStep, StartCheck, StartExtraReject, StartExtra, Create,
              StartReturn,
             StartFail, AfterFunc, BoxClosed, ExtraExits
<1>2. ASSUME NEW d \in StopCalls, StopStep(d)
      PROVE  Die /\ \/ StopClose(d) /\ (BoxInstance = Nil \/ InstanceCancel = Nil)
                    \/ StopExtra(d) /\ \E e \in StartCalls : extra[e] = "unstarted"
  BY <1>2 DEF StopStep, StopCheck, StopClose, StopWaited, StopExtra
<1>3. ASSUME NEW d \in EnableCalls, Enable(d) PROVE Die
  BY <1>3 DEF Enable
<1>4. ASSUME NEW d \in DisableCalls, Disable(d) PROVE FALSE
  BY <1>4 DEF Disable
<1> QED
  BY <1>1, <1>2, <1>3, <1>4 DEF Handle, ServerStep

(***************************************************************************)
(* For any number of calls: Stop never brings the core down except over    *)
(* an extra process that could not be launched, or when the GUI is gone.   *)
(***************************************************************************)
THEOREM StopIsSafe == Spec => StopSurvives
<1> DEFINE Survives ==
      \A c \in StopCalls :
        pc[c] \in StopPcs /\ pc'[c] = "lost" =>
          ~gui \/ \E e \in StartCalls : extra[e] = "unstarted"
<1>1. IInv /\ [Next]_vars => [Survives]_vars
  <2> SUFFICES ASSUME IInv, Next, gui, NEW c \in StopCalls,
                      pc[c] \in StopPcs, pc'[c] = "lost"
               PROVE  \E e \in StartCalls : extra[e] = "unstarted"
    OBVIOUS
  <2>1. CASE Handle
    <3>1. PICK d \in Calls : /\ pc[d] \in Active
                             /\ \/ pc[d] = "startDone" /\ BoxInstance = Nil
                                \/ pc[d] = "stopClose" /\ (BoxInstance = Nil \/ InstanceCancel = Nil)
                                \/ pc[d] = "enable"
                                \/ \E e \in StartCalls : extra[e] = "unstarted"
      BY <2>1, OnlyDeathLoses DEF StartReturn, StopClose, StopExtra, Enable
    <3>2. d = c
      BY <3>1 DEF IInv, OneCall
    <3> QED
      BY <3>1, <3>2, Nil \notin StartCalls DEF IInv, PcInv, CancelMatches
  <2>2. ASSUME NEW d \in Calls, Call(d) PROVE FALSE
    BY <2>2 DEF Call, Invoke, Entry, IInv, ClientTypeOK, TypeOK
  <2>3. CASE ForceQuit \/ WaitpidExit \/ CoreRestarted
    BY <2>3 DEF ForceQuit, WaitpidExit, CoreRestarted, Relaunch, serverVars
  <2> QED
    BY <2>1, <2>2, <2>3 DEF Next
<1> QED
  BY <1>1, Inductive, PTL DEF Spec, StopSurvives

(***************************************************************************)
(* What the promise of OneInstance needs beside IInv: the call that will   *)
(* create a box has none yet, and a Start about to answer has a live one.  *)
(***************************************************************************)
FreshBox ==
  \A c \in StartCalls :
    /\ pc[c] \in {"idle", "start", "startExtra", "startCreate"} => box[c] = "none"
    /\ pc[c] = "startDone" => box[c] = "live"

\* A step of the handler of one call keeps FreshBox.
LEMMA FreshHandle == ASSUME IInv, FreshBox, Handle PROVE FreshBox'
<1> USE DEF IInv, ClientTypeOK, TypeOK, FreshBox
<1>1. CASE Die
  BY <1>1 DEF Die
<1>2. ASSUME NEW d \in StartCalls, StartStep(d), ~Die PROVE FreshBox'
  BY <1>2 DEF StartStep, StartCheck, StartExtraReject, StartExtra, Create, StartReturn,
              StartFail
<1>3. ASSUME NEW d \in StartCalls, AfterFunc(d) \/ BoxClosed(d) \/ ExtraExits(d)
      PROVE  FreshBox'
  BY <1>3 DEF AfterFunc, BoxClosed, ExtraExits
<1>4. ASSUME NEW d \in StopCalls, StopStep(d), ~Die PROVE FreshBox'
  <2>1. CASE StopClose(d)
    <3>1. /\ box' = [box EXCEPT ![BoxInstance] = IF @ = "live" THEN "closing" ELSE @]
          /\ pc' = [pc EXCEPT ![d] = "stopWait"]
          /\ pc[d] = "stopClose"
      BY <1>4, <2>1 DEF StopClose
    <3>2. \A c \in StartCalls : pc[c] # "startDone" /\ pc'[c] = pc[c]
      BY <3>1 DEF OneCall
    <3>3. \A c \in StartCalls : box[c] = "none" => box'[c] = "none"
      BY <3>1
    <3> QED
      BY <3>2, <3>3
  <2>2. CASE StopCheck(d) \/ StopWaited(d) \/ StopExtra(d)
    BY <1>4, <2>2 DEF StopCheck, StopWaited, StopExtra
  <2> QED
    BY <1>4, <2>1, <2>2 DEF StopStep
<1>5. ASSUME NEW d \in EnableCalls, Enable(d), ~Die PROVE FreshBox'
  BY <1>5 DEF Enable
<1>6. ASSUME NEW d \in DisableCalls, Disable(d) PROVE FreshBox'
  BY <1>6 DEF Disable
<1> QED
  BY <1>1, <1>2, <1>3, <1>4, <1>5, <1>6 DEF Handle, ServerStep

\* FreshBox holds in every reachable state.
THEOREM Freshness == Spec => []FreshBox
<1>1. ClientInit => FreshBox
  BY DEF ClientInit, Init, FreshBox
<1>2. ASSUME IInv, FreshBox, [Next]_vars PROVE FreshBox'
  <2>1. ASSUME NEW d \in Calls, Call(d) PROVE FreshBox'
    BY <1>2, <2>1 DEF Call, Invoke, Entry, IInv, ClientTypeOK, TypeOK, FreshBox
  <2>2. CASE Handle
    BY <1>2, <2>2, FreshHandle
  <2>3. CASE WaitpidExit
    BY <1>2, <2>3 DEF WaitpidExit, Die, IInv, ClientTypeOK, TypeOK, FreshBox
  <2>4. CASE ForceQuit \/ CoreRestarted \/ UNCHANGED vars
    BY <1>2, <2>4 DEF ForceQuit, CoreRestarted, Relaunch, vars, serverVars, FreshBox
  <2> QED
    BY <1>2, <2>1, <2>2, <2>3, <2>4 DEF Next
<1> QED
  BY <1>1, <1>2, Inductive, PTL DEF Spec

-----------------------------------------------------------------------------
\* The boxes that run, as the promise sees them, are the one of BoxInstance if any.
LEMMA LiveIsInstance ==
  ASSUME IInv, BoxInstance = Nil PROVE {b \in StartCalls : box[b] = "live"} = {}
  BY DEF IInv, NoOrphanBox

\* The core dies: a crash of the promise.
LEMMA DieCrashes == ASSUME IInv, Die, Observe PROVE Promise!Crash
<1>1. {b \in StartCalls : box'[b] = "live"} = {}
  BY DEF Die
<1>2. {b \in StartCalls : box'[b] # "none"} = {b \in StartCalls : box[b] # "none"}
  BY DEF Die, IInv, ClientTypeOK, TypeOK
<1>3. up' = FALSE
  BY DEF Die, Observe
<1> QED
  BY <1>1, <1>2, <1>3 DEF Promise!Crash

\* A step that neither touches a box nor answers a Start or a Stop is a stutter.
LEMMA StutterStep ==
  ASSUME IInv, Observe, UNCHANGED <<box, alive>>,
         \A c \in StartCalls : pc'[c] = "ok" => pc[c] \notin Active,
         \A c \in StopCalls : ~Replied(c)
  PROVE  UNCHANGED Promise!vars
<1>1. up' = up
  BY DEF Observe, Replied, IInv, ClientTypeOK, DeadCore
<1> QED
  BY <1>1 DEF Promise!vars

\* Create launches the instance, or stores nothing.
LEMMA CreateLaunches ==
  ASSUME IInv, FreshBox, NEW c \in StartCalls, Create(c), Observe
  PROVE  [Promise!Next]_Promise!vars
<1> USE DEF IInv, ClientTypeOK, TypeOK
<1>1. BoxInstance = Nil /\ ~up /\ box[c] = "none" /\ pc[c] = "startCreate" /\ alive
  BY DEF Create, PcInv, FreshBox
<1>2. CASE box' = [box EXCEPT ![c] = "live"]
  <2>1. {b \in StartCalls : box[b] = "live"} = {}
    BY <1>1, LiveIsInstance
  <2>2. {b \in StartCalls : box'[b] = "live"} = {c}
    BY <1>2, <2>1
  <2>3. {b \in StartCalls : box'[b] # "none"} = {b \in StartCalls : box[b] # "none"} \cup {c}
    BY <1>2
  <2>4. up' = up
    BY <1>1 DEF Observe, Replied, Create
  <2>5. c \notin {b \in StartCalls : box[b] # "none"}
    BY <1>1
  <2>6. Promise!Launch(c)
    BY <1>1, <2>1, <2>2, <2>3, <2>4, <2>5 DEF Promise!Launch
  <2> QED
    BY <2>6 DEF Promise!Next
<1>3. CASE UNCHANGED box
  BY <1>1, <1>3, StutterStep DEF Create, Replied
<1> QED
  BY <1>2, <1>3 DEF Create

\* The answer of Start announces the instance that runs.
LEMMA ReturnAnnounces ==
  ASSUME IInv, FreshBox, NEW c \in StartCalls, StartReturn(c), Observe
  PROVE  [Promise!Next]_Promise!vars
<1>1. CASE Die
  BY <1>1, DieCrashes DEF Promise!Next
<1>2. CASE ~Die
  <2>1. /\ pc[c] = "startDone" /\ pc' = [pc EXCEPT ![c] = "ok"] /\ alive' /\ UNCHANGED box
    BY <1>2 DEF StartReturn
  <2>2. ~up /\ box[c] = "live"
    BY <2>1 DEF IInv, PcInv, FreshBox
  <2>3. Replied(c) /\ pc'[c] = "ok"
    BY <2>1 DEF Replied, IInv, ClientTypeOK, TypeOK
  <2>4. up' = TRUE
    BY <2>1, <2>3 DEF Observe
  <2>5. Promise!Announce
    BY <2>1, <2>2, <2>4 DEF Promise!Announce
  <2> QED
    BY <2>5 DEF Promise!Next
<1> QED
  BY <1>1, <1>2

\* Closing the box takes down what the client was told of.
LEMMA CloseRetires ==
  ASSUME IInv, NEW c \in StopCalls, StopClose(c), Observe
  PROVE  [Promise!Next]_Promise!vars
<1>1. CASE Die
  BY <1>1, DieCrashes DEF Promise!Next
<1>2. CASE ~Die
  <2>1. /\ pc[c] = "stopClose" /\ pc' = [pc EXCEPT ![c] = "stopWait"] /\ alive /\ alive'
        /\ BoxInstance # Nil
        /\ box' = [box EXCEPT ![BoxInstance] = IF @ = "live" THEN "closing" ELSE @]
    BY <1>2 DEF StopClose
  <2>2. up /\ up'
    BY <2>1 DEF IInv, ClientTypeOK, TypeOK, PcInv, Observe, Replied
  <2>3. up' = up
    BY <2>2, Zenon DEF IInv, ClientTypeOK, Observe
  <2>4. {b \in StartCalls : box'[b] = "live"} = {}
    BY <2>1 DEF IInv, ClientTypeOK, TypeOK, NoOrphanBox
  <2>5. {b \in StartCalls : box'[b] # "none"} = {b \in StartCalls : box[b] # "none"}
    BY <2>1 DEF IInv, ClientTypeOK, TypeOK
  <2>6. CASE {b \in StartCalls : box[b] = "live"} # {}
    BY <2>2, <2>3, <2>4, <2>5, <2>6 DEF Promise!Retire, Promise!Next
  <2>7. CASE {b \in StartCalls : box[b] = "live"} = {}
    BY <2>3, <2>4, <2>5, <2>7 DEF Promise!vars
  <2> QED
    BY <2>6, <2>7
<1> QED
  BY <1>1, <1>2

\* The answer of Stop is the acknowledgement: nothing runs by then.
LEMMA AnswerAcknowledges ==
  ASSUME IInv, NEW c \in StopCalls, StopExtra(c), Observe
  PROVE  [Promise!Next]_Promise!vars
<1>1. CASE Die
  BY <1>1, DieCrashes DEF Promise!Next
<1>2. CASE ~Die
  <2>1. pc[c] = "stopExtra" /\ pc' = [pc EXCEPT ![c] = "ok"] /\ UNCHANGED box
    BY <1>2 DEF StopExtra
  <2>2. up /\ {b \in StartCalls : box[b] = "live"} = {}
    BY <2>1, LiveIsInstance DEF IInv, PcInv
  <2>3. Replied(c)
    BY <2>1 DEF Replied, IInv, ClientTypeOK, TypeOK
  <2>4. \A d \in StartCalls : ~Replied(d)
    BY <2>1 DEF Replied, IInv, ClientTypeOK, TypeOK
  <2>5. up' = FALSE
    BY <2>3, <2>4 DEF Observe
  <2>6. Promise!Acknowledge
    BY <2>1, <2>2, <2>5 DEF Promise!Acknowledge
  <2> QED
    BY <2>6 DEF Promise!Next
<1> QED
  BY <1>1, <1>2

\* Every other step of the handlers is a stutter or a crash.
LEMMA RestStutters ==
  ASSUME IInv, FreshBox, Handle,
         \A c \in StartCalls : ~Create(c) /\ ~StartReturn(c),
         \A c \in StopCalls : ~StopClose(c) /\ ~StopExtra(c)
  PROVE  [Promise!Next]_Promise!vars
<1> USE DEF IInv, ClientTypeOK, TypeOK
<1>0. Observe
  BY DEF Handle
<1>1. ASSUME NEW c \in StartCalls, StartStep(c) PROVE UNCHANGED Promise!vars
  BY <1>0, <1>1, StutterStep DEF StartStep, StartCheck, StartExtraReject, StartExtra,
                                 StartFail, Replied
<1>2. ASSUME NEW c \in StartCalls, AfterFunc(c) \/ ExtraExits(c)
      PROVE  UNCHANGED Promise!vars
  BY <1>0, <1>2, StutterStep DEF AfterFunc, ExtraExits, Replied
<1>3. ASSUME NEW c \in StartCalls, BoxClosed(c) PROVE UNCHANGED Promise!vars
  <2>1. up' = up
    BY <1>0, <1>3 DEF BoxClosed, Observe, Replied, DeadCore
  <2>2. {b \in StartCalls : box'[b] = "live"} = {b \in StartCalls : box[b] = "live"}
    BY <1>3 DEF BoxClosed
  <2>3. {b \in StartCalls : box'[b] # "none"} = {b \in StartCalls : box[b] # "none"}
    BY <1>3 DEF BoxClosed
  <2> QED
    BY <2>1, <2>2, <2>3 DEF Promise!vars
<1>4. ASSUME NEW c \in StopCalls, StopStep(c) PROVE UNCHANGED Promise!vars
  <2>1. pc[c] = "stop" => BoxInstance # Nil
    BY DEF PcInv
  <2> QED
    BY <1>0, <1>4, <2>1, StutterStep DEF StopStep, StopCheck, StopWaited, Replied
<1>5. ASSUME NEW c \in EnableCalls, Enable(c) PROVE [Promise!Next]_Promise!vars
  <2>1. CASE Die
    BY <1>0, <2>1, DieCrashes DEF Promise!Next
  <2>2. CASE ~Die
    <3>1. /\ UNCHANGED <<box, alive>>
          /\ \E l \in {"ok", "err"} : pc' = [pc EXCEPT ![c] = l]
      BY <1>5, <2>2 DEF Enable
    <3>2. UNCHANGED Promise!vars
      BY <1>0, <3>1, StutterStep DEF Replied
    <3> QED
      BY <3>2
  <2> QED
    BY <2>1, <2>2
<1>6. ASSUME NEW c \in DisableCalls, Disable(c) PROVE UNCHANGED Promise!vars
  BY <1>0, <1>6, StutterStep DEF Disable, Replied
<1> QED
  BY <1>1, <1>2, <1>3, <1>4, <1>5, <1>6 DEF Handle, ServerStep

(***************************************************************************)
(* For any number of calls: the handlers under a serial client implement   *)
(* OneInstance.  Create launches, the answer of Start announces, closing   *)
(* retires, the answer of Stop acknowledges, a death is a crash, and all   *)
(* else is a stutter.                                                      *)
(***************************************************************************)
THEOREM Refinement == Spec => KeepsPromise
<1>1. ClientInit => Promise!Init
  BY DEF ClientInit, Init, Promise!Init
<1>2. ASSUME IInv, FreshBox, [Next]_vars PROVE [Promise!Next]_Promise!vars
  <2>1. CASE Handle
    <3>1. Observe
      BY <2>1 DEF Handle
    <3> QED
      BY <1>2, <2>1, <3>1, CreateLaunches, ReturnAnnounces, CloseRetires,
         AnswerAcknowledges, RestStutters
  <2>2. CASE WaitpidExit
    BY <1>2, <2>2, DieCrashes DEF WaitpidExit, Promise!Next
  <2>3. CASE ForceQuit \/ CoreRestarted \/ (\E c \in Calls : Call(c)) \/ UNCHANGED vars
    BY <2>3 DEF ForceQuit, CoreRestarted, Relaunch, Call, Invoke, vars, serverVars,
                Promise!vars
  <2> QED
    BY <1>2, <2>1, <2>2, <2>3 DEF Next
<1> QED
  BY <1>1, <1>2, Inductive, Freshness, PTL DEF Spec, KeepsPromise, Promise!Spec

-----------------------------------------------------------------------------
(***************************************************************************)
(* The extra process.  Until the core dies, one that runs belongs to a     *)
(* Start that is still at it or has failed, or to the profile that is up,  *)
(* and then ExtraProcess leads to it.                                      *)
(***************************************************************************)
ExtraInv ==
  deaths = 0 =>
    \A e \in StartCalls : extra[e] = "running" =>
      /\ pc[e] \in {"startCreate", "startDone", "startFail", "ok", "err"}
      /\ pc[e] \in {"startCreate", "startDone", "ok"} => ExtraProcess = e
      /\ pc[e] = "ok" => up

\* Whatever kills the core ends the case ExtraInv is about.
LEMMA DeathCounts == ASSUME IInv, alive, Die, Observe PROVE ExtraInv'
<1>1. deaths' = deaths + 1 /\ deaths \in Nat
  BY DEF Die, Observe, IInv, ClientTypeOK
<1> QED
  BY <1>1 DEF ExtraInv

\* The handlers keep ExtraInv.
LEMMA ExtraStart ==
  ASSUME IInv, ExtraInv, NEW c \in StartCalls, StartStep(c), Observe PROVE ExtraInv'
<1> USE DEF IInv, ClientTypeOK, TypeOK, OneCall, PcInv, ExtraInv, Observe, Replied
<1>1. CASE Die
  BY <1>1, DeathCounts DEF StartStep, StartCheck, StartExtraReject, StartExtra, Create,
                          StartReturn, StartFail
<1>2. CASE StartCheck(c) \/ StartExtraReject(c)
  BY <1>2 DEF StartCheck, StartExtraReject
<1>3. CASE StartExtra(c)
  BY <1>3 DEF StartExtra
<1>4. CASE Create(c) \/ StartFail(c)
  BY <1>4 DEF Create, StartFail
<1>5. CASE StartReturn(c) /\ ~Die
  BY ZenonT(30), <1>5 DEF StartReturn
<1> QED
  BY <1>1, <1>2, <1>3, <1>4, <1>5 DEF StartStep

LEMMA ExtraStop ==
  ASSUME IInv, ExtraInv, NEW c \in StopCalls, StopStep(c), Observe PROVE ExtraInv'
<1> USE DEF IInv, ClientTypeOK, TypeOK, OneCall, PcInv, ExtraInv, Observe, Replied
<1>1. CASE Die
  BY <1>1, DeathCounts DEF StopStep, StopCheck, StopClose, StopWaited, StopExtra
<1>2. CASE StopCheck(c) \/ StopWaited(c)
  BY <1>2 DEF StopCheck, StopWaited
<1>3. CASE StopClose(c) /\ ~Die
  BY <1>3 DEF StopClose
<1>4. CASE StopExtra(c) /\ ~Die
  <2>1. /\ pc[c] = "stopExtra" /\ pc' = [pc EXCEPT ![c] = "ok"]
        /\ UNCHANGED alive
    BY <1>4 DEF StopExtra
  <2>2. \A e \in StartCalls : extra'[e] = "running" => extra[e] = "running" /\ ExtraProcess # e
    BY ZenonT(30), <1>4 DEF StopExtra
  <2>3. \A e \in StartCalls : extra'[e] = "running" /\ deaths = 0 => pc[e] \in {"startFail", "err"}
    BY <2>2
  <2> QED
    BY <2>1, <2>2, <2>3
<1> QED
  BY <1>1, <1>2, <1>3, <1>4 DEF StopStep

\* So does every other step.
LEMMA ExtraStep == ASSUME IInv, ExtraInv, [Next]_vars PROVE ExtraInv'
<1>1. CASE Handle
  <2> USE <1>1 DEF Handle
  <2>1. ASSUME NEW c \in StartCalls, StartStep(c) PROVE ExtraInv'
    BY <2>1, ExtraStart
  <2>2. ASSUME NEW c \in StopCalls, StopStep(c) PROVE ExtraInv'
    BY <2>2, ExtraStop
  <2> USE DEF IInv, ClientTypeOK, TypeOK, Observe, Replied
  <2>3. ASSUME NEW c \in StartCalls, AfterFunc(c) \/ BoxClosed(c) \/ ExtraExits(c)
        PROVE  ExtraInv'
    <3>1. /\ UNCHANGED <<pc, ExtraProcess, alive>>
          /\ \A e \in StartCalls : extra'[e] = "running" => extra[e] = "running"
      BY <2>3 DEF AfterFunc, BoxClosed, ExtraExits
    <3>2. up => up' \/ ~alive
      BY <3>1
    <3>3. deaths' = deaths
      BY <3>1
    <3> QED
      BY <3>1, <3>2, <3>3 DEF ExtraInv, DeadCore
  <2>4. ASSUME NEW c \in EnableCalls, Enable(c) PROVE ExtraInv'
    <3>1. CASE Die
      BY <2>4, <3>1, DeathCounts DEF Enable
    <3>2. CASE ~Die
      <4>1. /\ pc[c] = "enable" /\ UNCHANGED <<extra, ExtraProcess>> /\ alive /\ alive'
            /\ \E l \in {"ok", "err"} : pc' = [pc EXCEPT ![c] = l]
        BY <2>4, <3>2 DEF Enable
      <4>2. deaths' = deaths
        BY <4>1
      <4>3. \A d \in StopCalls : pc'[d] = pc[d]
        BY <4>1
      <4>4. up => up'
        BY <4>1, <4>3
      <4>5. \A e \in StartCalls : pc'[e] = pc[e]
        BY <4>1
      <4> HIDE DEF IInv, ClientTypeOK, TypeOK, Observe, Replied
      <4> QED
        BY <4>1, <4>2, <4>4, <4>5 DEF ExtraInv
    <3> QED
      BY <3>1, <3>2
  <2>5. ASSUME NEW c \in DisableCalls, Disable(c) PROVE ExtraInv'
    BY <2>5 DEF Disable, ExtraInv
  <2> QED
    BY <2>1, <2>2, <2>3, <2>4, <2>5 DEF ServerStep
<1>2. ASSUME NEW c \in Calls, Call(c) PROVE ExtraInv'
  BY <1>2 DEF Call, Invoke, Entry, ExtraInv, IInv, ClientTypeOK, TypeOK
<1>3. CASE WaitpidExit
  BY <1>3, DeathCounts DEF WaitpidExit
<1>4. CASE ForceQuit \/ CoreRestarted \/ UNCHANGED vars
  BY <1>4 DEF ForceQuit, CoreRestarted, Relaunch, vars, serverVars, ExtraInv
<1> QED
  BY <1>1, <1>2, <1>3, <1>4 DEF Next

(***************************************************************************)
(* For any number of calls: while the core has not died, an extra process  *)
(* is left without a profile only by a Start that answered with an error.  *)
(***************************************************************************)
THEOREM LeakIsExplained == Spec => []LeakOnlyFromFailedStart
<1>1. ClientInit => ExtraInv
  BY DEF ClientInit, Init, ExtraInv
<1>2. IInv /\ ExtraInv => LeakOnlyFromFailedStart
  BY DEF ExtraInv, LeakOnlyFromFailedStart, Quiet
<1> QED
  BY <1>1, <1>2, ExtraStep, Inductive, PTL DEF Spec
=============================================================================
