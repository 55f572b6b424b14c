----------------------------- MODULE SystemModes -----------------------------
(***************************************************************************)
(* The interception modes of the Windows build: system proxy, TUN ("vpn")  *)
(* and packet filter.  set_spmode_* of src/gharqad/ui/mainwindow_rpc.cpp   *)
(* and mainwindow.cpp, the elevation prompt, what a (re)started core and a *)
(* restarted program bring back, and the two holders of the OS proxy: the  *)
(* core's SystemProxyController and the inbound sing-box itself manages.   *)
(*                                                                         *)
(* The setters call each other, so they are functions on a record m of     *)
(* everything they read and write; an action applies them on the UI        *)
(* thread.  Their RPCs block that thread, and each has an outcome rpc.     *)
(***************************************************************************)
EXTENDS Integers

CONSTANTS
  RpcOutcomes, \* how an RPC to a core that listens may end, see Outcomes
  MaxClicks,   \* bound: what the user does, and restarts of the program
  MaxCrashes   \* bound: core deaths

ASSUME ModesAssumption ==
  /\ RpcOutcomes \subseteq {"ok", "refused", "late", "failed"}
  /\ {MaxClicks, MaxCrashes} \subseteq Nat

VARIABLES
  m,          \* the modes and what the setters touch, see Modes
  privileged, \* isAdminCache
  prompt,     \* who waits in get_elevated_permissions: "none", "click", "start"
  posted,     \* set_spmode_vpn posted after an elevation
  stuck,      \* the UI thread waits for an answer to the prompt it shows itself
  starting,   \* a profile_start was asked for
  coreUp, news, \* the core listens; its CoreStarted is in the UI queue
  left,       \* history: the OS proxy was set by a core that cannot reset it
  clicks, crashes

vars == <<m, privileged, prompt, posted, stuck, starting, coreUp, news, left,
          clicks, crashes>>

Names == {"system_proxy", "vpn", "packet_filter"}

\* What dataStore->Save() writes of the modes.
Saves == [remember_spmode : SUBSET Names, spmode_packet_filter : BOOLEAN]

Modes ==
  [spmode_system_proxy : BOOLEAN, spmode_vpn : BOOLEAN,
   spmode_packet_filter : BOOLEAN, remember_spmode : SUBSET Names,
   inbound : BOOLEAN,                       \* proxyInboundEnabled()
   remember_last_profile : BOOLEAN,
   disable_privilege_req : BOOLEAN,         \* the user wants no elevation prompt
   disk : Saves,
   box : {"none", "plain", "setsProxy"},    \* the instance and its inbound
   controller : BOOLEAN,                    \* SystemProxyController is enabled
   osProxy : BOOLEAN]                       \* the setting of the OS

TypeOK ==
  /\ m \in Modes
  /\ privileged \in BOOLEAN
  /\ prompt \in {"none", "click", "start"}
  /\ posted \in Nat
  /\ {stuck, starting, coreUp, left} \subseteq BOOLEAN
  /\ news \in Nat
  /\ clicks \in Nat
  /\ crashes \in Nat

\* A program just started, on what the one before saved and left behind.
Fresh(x) ==
  [x EXCEPT !.spmode_system_proxy = FALSE, !.spmode_vpn = FALSE,
            !.spmode_packet_filter = x.disk.spmode_packet_filter,
            !.remember_spmode = x.disk.remember_spmode,
            !.box = "none", !.controller = FALSE]

FirstStart ==
  {x \in Modes :
     /\ x = Fresh(x)
     /\ x.disk = [remember_spmode |-> {}, spmode_packet_filter |-> FALSE]
     /\ ~x.osProxy}

Init ==
  /\ m \in FirstStart
  /\ privileged \in BOOLEAN
  /\ prompt = "none" /\ posted = 0 /\ stuck = FALSE
  /\ starting = FALSE
  /\ coreUp = FALSE /\ news = 0 /\ left = FALSE
  /\ clicks = 0 /\ crashes = 0

-----------------------------------------------------------------------------
(***************************************************************************)
(* The core's side: SetSystemProxy does nothing without an instance or     *)
(* when the controller is enabled; ResetSystemProxy does nothing without   *)
(* an enabled controller; sing-box holds the proxy of its own inbound.     *)
(***************************************************************************)
Enable(x) ==
  IF x.box = "none" \/ x.controller THEN x
  ELSE [x EXCEPT !.controller = TRUE, !.osProxy = TRUE]

Disable(x) ==
  IF x.controller THEN [x EXCEPT !.controller = FALSE, !.osProxy = FALSE] ELSE x

\* sing-box: an inbound with set_system_proxy sets the OS proxy when it starts
\* and resets it when it closes.
InboundHolds(x) == x.box = "setsProxy"

\* Mutant of Stop: the controller is dropped without a reset.
MutStopNoReset(x) ==
  [x EXCEPT !.controller = FALSE, !.box = "none", !.osProxy = @ /\ ~InboundHolds(x)]

Stop(x) ==
  [x EXCEPT !.controller = FALSE, !.box = "none",
            !.osProxy = @ /\ ~x.controller /\ ~InboundHolds(x)]

\* The config's mixed-in inbound carries set_system_proxy (ConfigBuilder).
Start(x) ==
  LET sets == x.inbound /\ x.spmode_system_proxy IN
  [Stop(x) EXCEPT !.box = IF sets THEN "setsProxy" ELSE "plain",
                  !.osProxy = @ \/ sets]

\* An RPC is answered, answered although the OS refused (the GUI does not look
\* at the error text), runs into the timeout while the core goes on, or fails.
Outcomes == IF coreUp THEN RpcOutcomes ELSE {"failed"}
Answered(rpc) == rpc \in {"ok", "refused"}
Applied(rpc) == rpc \in {"ok", "late"}

-----------------------------------------------------------------------------
(***************************************************************************)
(* The setters.                                                            *)
(***************************************************************************)
Save(x) ==
  [x EXCEPT !.disk = [remember_spmode |-> x.remember_spmode,
                      spmode_packet_filter |-> x.spmode_packet_filter]]

\* set_spmode_packet_filter(false, false, false).
PacketFilterOff(x) ==
  IF x.spmode_packet_filter
  THEN [x EXCEPT !.spmode_packet_filter = FALSE,
                 !.remember_spmode = @ \ {"packet_filter"}]
  ELSE x

set_spmode_system_proxy(x, enable, save, rpc) ==
  LET x1 == IF enable THEN PacketFilterOff(x) ELSE x
      want == enable /\ x.inbound
      call == want # x1.spmode_system_proxy
      x2 == IF ~call \/ ~Applied(rpc) THEN x1
            ELSE IF want THEN Enable(x1) ELSE Disable(x1)
      now == IF call /\ ~Answered(rpc) THEN ~want ELSE want
      x3 == IF save
            THEN Save([x2 EXCEPT !.remember_spmode =
                         (@ \ {"system_proxy"}) \cup
                         {n \in {"system_proxy"} : now /\ x.remember_last_profile}])
            ELSE x2
  IN  [x3 EXCEPT !.spmode_system_proxy = now]

\* Mutant of set_spmode_vpn: the packet filter stays on.
MutVpnKeepsFilter(x, enable, save) ==
  LET x2 == IF save
            THEN Save([x EXCEPT !.remember_spmode =
                         (@ \ {"vpn", "packet_filter"}) \cup
                         {n \in {"vpn"} : enable}])
            ELSE x
  IN  IF enable = x.spmode_vpn THEN x ELSE [x2 EXCEPT !.spmode_vpn = enable]

\* set_spmode_vpn once no permission has to be asked for.
set_spmode_vpn(x, enable, save) ==
  LET x1 == IF enable THEN PacketFilterOff(x) ELSE x
      x2 == IF save
            THEN Save([x1 EXCEPT !.remember_spmode =
                         (@ \ {"vpn", "packet_filter"}) \cup
                         {n \in {"vpn"} : enable}])
            ELSE x1
  IN  IF enable = x.spmode_vpn THEN x ELSE [x2 EXCEPT !.spmode_vpn = enable]

\* Mutant of PacketFilterOn: the other modes stay remembered.
MutFilterOnRemembers(x, save, rpc) ==
  LET x1 == IF x.spmode_system_proxy
            THEN set_spmode_system_proxy(x, FALSE, FALSE, rpc) ELSE x
      x2 == [set_spmode_vpn(x1, FALSE, FALSE) EXCEPT !.spmode_packet_filter = TRUE]
      x3 == [x2 EXCEPT !.remember_spmode =
               @ \cup {n \in {"packet_filter"} : x.remember_last_profile}]
  IN  IF x.spmode_packet_filter /\ ~x.spmode_system_proxy /\ ~x.spmode_vpn THEN x
      ELSE IF x1.spmode_system_proxy THEN x1
      ELSE IF save THEN Save(x3) ELSE x2

\* Enabling clears the other two first and gives up if the proxy stays set.
PacketFilterOn(x, save, rpc) ==
  LET x1 == IF x.spmode_system_proxy
            THEN set_spmode_system_proxy(x, FALSE, FALSE, rpc) ELSE x
      x2 == [set_spmode_vpn(x1, FALSE, FALSE) EXCEPT
               !.remember_spmode = @ \ {"system_proxy", "vpn"},
               !.spmode_packet_filter = TRUE]
      x3 == [x2 EXCEPT !.remember_spmode =
               @ \cup {n \in {"packet_filter"} : x.remember_last_profile}]
  IN  IF x.spmode_packet_filter /\ ~x.spmode_system_proxy /\ ~x.spmode_vpn THEN x
      ELSE IF x1.spmode_system_proxy THEN x1
      ELSE IF save THEN Save(x3) ELSE x2

set_spmode_packet_filter(x, enable, save, rpc) ==
  IF enable THEN PacketFilterOn(x, save, rpc)
  ELSE IF save /\ x.spmode_packet_filter THEN Save(PacketFilterOff(x))
  ELSE PacketFilterOff(x)

-----------------------------------------------------------------------------
(***************************************************************************)
(* The user.  The prompt is a dialog with an event loop of its own: the    *)
(* tray and hotkey menus, timers and posted lambdas go on under it.        *)
(***************************************************************************)
Click ==
  /\ ~stuck
  /\ clicks < MaxClicks
  /\ clicks' = clicks + 1

\* profile_start(started_id) if a profile is started.
Restart(reached) == starting' \in {starting, starting \/ reached}

\* The menu, the hotkey and the check box.
ClickSystemProxy(enable) ==
  /\ Click
  /\ \E rpc \in Outcomes :
       m' = set_spmode_system_proxy(m, enable, TRUE, rpc)
  /\ UNCHANGED <<privileged, prompt, posted, stuck, starting, coreUp, news, left,
                 crashes>>

\* Without a proxy inbound the check box asks for its type; once one is chosen
\* the mode is set twice.
ChooseInbound ==
  /\ Click
  /\ ~m.inbound
  /\ \E r1, r2 \in Outcomes :
       m' = set_spmode_system_proxy(
              set_spmode_system_proxy([m EXCEPT !.inbound = TRUE], TRUE, TRUE, r1),
              TRUE, TRUE, r2)
  /\ Restart(TRUE)
  /\ UNCHANGED <<privileged, prompt, posted, stuck, coreUp, news, left, crashes>>

(***************************************************************************)
(* set_spmode_vpn(enable, save) with requestAdmin, on m = x; who is to go  *)
(* on after the prompt.  The packet filter is off before the prompt shows. *)
(* A second request under the prompt waits for the first one's result,     *)
(* which only this thread can produce.                                     *)
(***************************************************************************)
RequestVpn(x, enable, save, who) ==
  LET ask == enable /\ ~x.spmode_vpn /\ ~privileged' IN
  \/ /\ ~ask
     /\ m' = set_spmode_vpn(x, enable, save)
     /\ Restart(enable # x.spmode_vpn)
     /\ UNCHANGED <<prompt, stuck>>
  \/ /\ ask /\ x.disable_privilege_req
     /\ m' = PacketFilterOff(x)
     /\ UNCHANGED <<prompt, stuck, starting>>
  \/ /\ ask /\ ~x.disable_privilege_req
     /\ m' = PacketFilterOff(x)
     /\ stuck' = (prompt # "none")
     /\ prompt' = IF prompt = "none" THEN who ELSE prompt
     /\ UNCHANGED starting

ClickVpn(enable) ==
  /\ Click
  /\ UNCHANGED privileged
  /\ RequestVpn(m, enable, TRUE, "click")
  /\ UNCHANGED <<posted, coreUp, news, left, crashes>>

ClickPacketFilter(enable) ==
  /\ Click
  /\ \E rpc \in Outcomes : m' = set_spmode_packet_filter(m, enable, TRUE, rpc)
  /\ Restart(m'.spmode_packet_filter # m.spmode_packet_filter)
  /\ UNCHANGED <<privileged, prompt, posted, stuck, coreUp, news, left, crashes>>

\* menu_spmode_disabled.
ClickDisabled ==
  /\ Click
  /\ \E rpc \in Outcomes :
       m' = set_spmode_packet_filter(
              set_spmode_vpn(set_spmode_system_proxy(m, FALSE, TRUE, rpc), FALSE, TRUE),
              FALSE, TRUE, rpc)
  /\ Restart(m.spmode_vpn \/ m.spmode_packet_filter)
  /\ UNCHANGED <<privileged, prompt, posted, stuck, coreUp, news, left, crashes>>

\* A new random inbound port: the proxy is set anew.
NeedChoosePort ==
  /\ Click
  /\ m.spmode_system_proxy
  /\ \E r1, r2 \in Outcomes :
       m' = set_spmode_system_proxy(
              set_spmode_system_proxy(m, FALSE, TRUE, r1), TRUE, TRUE, r2)
  /\ UNCHANGED <<privileged, prompt, posted, stuck, starting, coreUp, news, left,
                 crashes>>

-----------------------------------------------------------------------------
\* The rest of the CoreStarted handler, after the TUN mode.
AfterVpn(x, rpc) ==
  IF "packet_filter" \in x.remember_spmode \/ x.spmode_packet_filter
  THEN PacketFilterOn(x, FALSE, rpc) ELSE x

(***************************************************************************)
(* The prompt is answered.  Yes kills the core, to have it started anew    *)
(* with the rights, and posts the mode; no forgets the mode.  Either way   *)
(* get_elevated_permissions returns false to its caller.                   *)
(***************************************************************************)
Killed(x) == [x EXCEPT !.box = "none", !.controller = FALSE]

AnswerPrompt(yes) ==
  /\ Click
  /\ prompt # "none"
  /\ prompt' = "none"
  /\ LET x == IF yes THEN Killed(m)
              ELSE [m EXCEPT !.remember_spmode = @ \ {"vpn"}]
     IN \E rpc \in (IF yes THEN {"failed"} ELSE Outcomes) :
          m' = IF prompt = "start" THEN AfterVpn(x, rpc) ELSE x
  /\ left' = (left \/ (yes /\ m.osProxy))
  /\ privileged' = (privileged \/ yes)
  /\ posted' = IF yes THEN posted + 1 ELSE posted
  /\ coreUp' = (coreUp /\ ~yes)
  /\ Restart(prompt = "start")
  /\ UNCHANGED <<stuck, news, crashes>>

\* The posted set_spmode_vpn(true, save, false) reads save through a pointer
\* into the frame that has returned.
PostedVpn ==
  /\ ~stuck
  /\ posted > 0
  /\ posted' = posted - 1
  /\ \E save \in BOOLEAN : m' = set_spmode_vpn(m, TRUE, save)
  /\ UNCHANGED <<privileged, prompt, stuck, starting, coreUp, news, left, clicks, crashes>>

-----------------------------------------------------------------------------
CoreListens ==
  /\ ~coreUp
  /\ coreUp' = TRUE
  /\ news' = news + 1
  /\ UNCHANGED <<m, privileged, prompt, posted, stuck, starting, left, clicks, crashes>>

(***************************************************************************)
(* CoreStarted: the cached privilege is renewed and the remembered modes   *)
(* are set again, which may show the prompt in the middle of the handler.  *)
(***************************************************************************)
CoreStarted ==
  /\ ~stuck
  /\ news > 0
  /\ news' = news - 1
  /\ privileged' \in {privileged, FALSE}
  /\ \E r1, r2 \in Outcomes :
       LET x1 == IF "system_proxy" \in m.remember_spmode
                 THEN set_spmode_system_proxy(m, TRUE, FALSE, r1) ELSE m
           vpn == "vpn" \in x1.remember_spmode
           asks == vpn /\ ~x1.spmode_vpn /\ ~privileged'
           x2 == IF ~vpn THEN x1
                 ELSE IF asks THEN PacketFilterOff(x1)
                 ELSE set_spmode_vpn(x1, TRUE, FALSE)
       IN  \/ /\ asks /\ ~m.disable_privilege_req
              /\ RequestVpn(x1, TRUE, FALSE, "start")
           \/ /\ ~asks \/ m.disable_privilege_req
              /\ m' = AfterVpn(x2, r2)
              /\ Restart(TRUE)
              /\ UNCHANGED <<prompt, stuck>>
  /\ UNCHANGED <<posted, coreUp, left, clicks, crashes>>

\* The core dies; nobody resets the OS proxy it had set.
CoreDies ==
  /\ coreUp
  /\ crashes < MaxCrashes
  /\ crashes' = crashes + 1
  /\ coreUp' = FALSE
  /\ m' = Killed(m)
  /\ left' = (left \/ m.osProxy)
  /\ UNCHANGED <<privileged, prompt, posted, stuck, starting, news, clicks>>

-----------------------------------------------------------------------------
\* profile_start as the core sees it: Stop, then Start, which may fail.
ProfileStarts ==
  /\ starting
  /\ starting' = FALSE
  /\ m' \in (IF coreUp THEN {Start(m), Stop(m)} ELSE {m})
  /\ UNCHANGED <<privileged, prompt, posted, stuck, coreUp, news, left, clicks, crashes>>

UserStart ==
  /\ Click
  /\ starting' = TRUE
  /\ UNCHANGED <<m, privileged, prompt, posted, stuck, coreUp, news, left, crashes>>

\* By the user, or after a failure.
ProfileStops ==
  /\ m.box # "none"
  /\ m' = Stop(m)
  /\ UNCHANGED <<privileged, prompt, posted, stuck, starting, coreUp, news, left,
                 clicks, crashes>>

\* The packet filter cannot start (start thread) or has died (2 s timer): the
\* mode is off and saved, and the profile will be stopped.
FilterLost ==
  /\ m.spmode_packet_filter
  /\ m.box # "none"
  /\ m' = Save(PacketFilterOff(m))
  /\ UNCHANGED <<privileged, prompt, posted, stuck, starting, coreUp, news, left,
                 clicks, crashes>>

-----------------------------------------------------------------------------
(***************************************************************************)
(* prepare_exit, and the program started again on what was saved.          *)
(***************************************************************************)
Exited(x, rpc) ==
  Save(PacketFilterOff(set_spmode_system_proxy(x, FALSE, FALSE, rpc)))

NewProgram(x) ==
  /\ m' = Fresh(x)
  /\ privileged' \in BOOLEAN
  /\ prompt' = "none" /\ posted' = 0 /\ stuck' = FALSE
  /\ starting' = FALSE
  /\ coreUp' = FALSE /\ news' = 0
  /\ UNCHANGED crashes

ExitAndStartAgain ==
  /\ Click
  /\ \E rpc \in Outcomes :
       \E x \in {Stop(Exited(m, rpc)), Killed(Exited(m, rpc))} :
         NewProgram(x) /\ left' = (left \/ x.osProxy)

\* Killed instead: the core's -waitpid goroutine exits without a reset.
ForceQuit ==
  /\ clicks < MaxClicks
  /\ clicks' = clicks + 1
  /\ NewProgram(m)
  /\ left' = (left \/ m.osProxy)

-----------------------------------------------------------------------------
Next ==
  \/ \E enable \in BOOLEAN :
       ClickSystemProxy(enable) \/ ClickVpn(enable) \/ ClickPacketFilter(enable)
  \/ \E yes \in BOOLEAN : AnswerPrompt(yes)
  \/ ChooseInbound \/ ClickDisabled \/ NeedChoosePort \/ PostedVpn
  \/ CoreListens \/ CoreStarted \/ CoreDies
  \/ ProfileStarts \/ UserStart \/ ProfileStops \/ FilterLost
  \/ ExitAndStartAgain \/ ForceQuit

Spec == Init /\ [][Next]_vars

-----------------------------------------------------------------------------
(***************************************************************************)
(* "Keeping one interception layer avoids loops and double proxying"       *)
(* (mainwindow_rpc.cpp:982-983): the packet filter mode is never on        *)
(* together with another one, whatever prompts, restarts, failures and     *)
(* remembered modes come in between.                                       *)
(***************************************************************************)
PacketFilterAlone ==
  m.spmode_packet_filter => ~m.spmode_system_proxy /\ ~m.spmode_vpn

(***************************************************************************)
(* What was saved brings back the packet filter alone or not at all, at    *)
(* whatever moment the program is killed (mainwindow_rpc.cpp:950-955,      *)
(* 994-1005; mainwindow.cpp:2308-2318, 2731-2738).                         *)
(***************************************************************************)
SavedFilterAlone ==
  /\ m.disk.spmode_packet_filter => m.disk.remember_spmode \subseteq {"packet_filter"}
  /\ "packet_filter" \in m.disk.remember_spmode => m.disk.spmode_packet_filter

(***************************************************************************)
(* The OS proxy is set only while the core holds the handle that resets    *)
(* it, unless a core or program ended holding it (internal/utils.go:45-73, *)
(* server.go:75-77, 176).                                                  *)
(***************************************************************************)
ProxyHeld == m.osProxy /\ ~left => m.controller \/ InboundHolds(m)

(***************************************************************************)
(* README.md:241: "enable `System proxy`, then disable it - this will      *)
(* reset the settings": switching the mode off resets the OS proxy.        *)
(***************************************************************************)
DisableResets ==
  [][m.spmode_system_proxy /\ ~m'.spmode_system_proxy => ~m'.osProxy]_vars
=============================================================================
