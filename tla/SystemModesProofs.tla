-------------------------- MODULE SystemModesProofs --------------------------
(***************************************************************************)
(* TLAPS proofs about SystemModes, for any RPC outcomes and any bounds: the *)
(* packet filter is never on together with another mode, what is saved     *)
(* brings it back alone, and somebody can reset the OS proxy.              *)
(***************************************************************************)
EXTENDS SystemModes, TLAPS

\* Alone on screen, in what is remembered and in what was saved.
Good(x) ==
  /\ x \in Modes
  /\ x.spmode_packet_filter => ~x.spmode_system_proxy /\ ~x.spmode_vpn
  /\ x.spmode_packet_filter => x.remember_spmode \subseteq {"packet_filter"}
  /\ "packet_filter" \in x.remember_spmode => x.spmode_packet_filter
  /\ x.disk.spmode_packet_filter => x.disk.remember_spmode \subseteq {"packet_filter"}
  /\ "packet_filter" \in x.disk.remember_spmode => x.disk.spmode_packet_filter

\* Switching the packet filter off keeps the record good.
LEMMA GoodOff ==
  ASSUME NEW x, Good(x)
  PROVE  Good(PacketFilterOff(x)) /\ ~PacketFilterOff(x).spmode_packet_filter
  BY ZenonT(30) DEF Good, PacketFilterOff, Modes, Names, Saves

\* Saving a good record keeps it good.
LEMMA GoodSave == ASSUME NEW x, Good(x) PROVE Good(Save(x))
  BY DEF Good, Save, Modes, Names, Saves

\* Saving, Enable and Disable change no mode.
LEMMA SameModes ==
  ASSUME NEW x \in Modes, NEW y \in {Save(x), Enable(x), Disable(x)}
  PROVE  /\ y.spmode_packet_filter = x.spmode_packet_filter
         /\ y.spmode_system_proxy = x.spmode_system_proxy
<1>1. CASE y = Save(x)
  BY <1>1 DEF Save, Modes
<1>2. CASE y = Enable(x)
  BY <1>2 DEF Enable, Modes
<1>3. CASE y = Disable(x)
  BY <1>3 DEF Disable, Modes
<1> QED
  BY <1>1, <1>2, <1>3

\* The core's handlers leave the modes alone.
LEMMA GoodCore ==
  ASSUME NEW x, Good(x)
  PROVE  Good(Enable(x)) /\ Good(Disable(x)) /\ Good(Stop(x)) /\ Good(Start(x))
         /\ Good(Killed(x)) /\ Good(Fresh(x))
<1>1. Good(Enable(x))
  BY ZenonT(30) DEF Good, Enable, Modes, Names, Saves
<1>1a. Good(Disable(x))
  BY DEF Good, Disable, Modes, Names, Saves
<1>2. Good(Stop(x))
  BY DEF Good, Stop, InboundHolds, Modes, Names, Saves
<1>3. Good(Start(x))
  <2> DEFINE y == Stop(x)
             sets == x.inbound /\ x.spmode_system_proxy
  <2>1. Start(x) = [y EXCEPT !.box = IF sets THEN "setsProxy" ELSE "plain",
                             !.osProxy = y.osProxy \/ sets]
    BY DEF Start
  <2>2. (y.osProxy \/ sets) \in BOOLEAN
    OBVIOUS
  <2> HIDE DEF y, sets
  <2>3. Good(y)
    BY <1>2 DEF y
  <2> QED
    BY <2>1, <2>2, <2>3 DEF Good, Modes, Names, Saves
<1>4. Good(Killed(x))
  BY DEF Good, Killed, Modes, Names, Saves
<1>5. Good(Fresh(x))
  BY DEF Good, Fresh, Modes, Names, Saves
<1> QED
  BY <1>1, <1>1a, <1>2, <1>3, <1>4, <1>5

-----------------------------------------------------------------------------
\* A good record stays good under the system proxy's setter.
LEMMA GoodProxy ==
  ASSUME NEW x, Good(x), NEW enable \in BOOLEAN, NEW save \in BOOLEAN, NEW rpc
  PROVE  Good(set_spmode_system_proxy(x, enable, save, rpc))
<1> DEFINE x1 == IF enable THEN PacketFilterOff(x) ELSE x
           want == enable /\ x.inbound
           call == want # x1.spmode_system_proxy
           x2 == IF ~call \/ ~Applied(rpc) THEN x1
                 ELSE IF want THEN Enable(x1) ELSE Disable(x1)
           now == IF call /\ ~Answered(rpc) THEN ~want ELSE want
           rem == [x2 EXCEPT !.remember_spmode =
                     (@ \ {"system_proxy"}) \cup
                     {n \in {"system_proxy"} : now /\ x.remember_last_profile}]
           x3 == IF save THEN Save(rem) ELSE x2
<1>1. Good(x1) /\ (enable => ~x1.spmode_packet_filter)
  BY GoodOff
<1>2. now \in BOOLEAN
  OBVIOUS
<1>3. now => enable \/ x1.spmode_system_proxy
  <2>1. x1.spmode_system_proxy \in BOOLEAN
    BY <1>1 DEF Good, Modes
  <2> HIDE DEF x1
  <2> QED
    BY <2>1, Zenon
<1>4. now => ~x1.spmode_packet_filter
  BY <1>1, <1>3 DEF Good
<1>5. Good(x2) /\ x2.spmode_packet_filter = x1.spmode_packet_filter
  <2>1. x2 \in {x1, Enable(x1), Disable(x1)}
    BY Zenon
  <2>2. x1 \in Modes
    BY <1>1 DEF Good
  <2>3. Good(Enable(x1)) /\ Good(Disable(x1))
    BY <1>1, GoodCore
  <2> HIDE DEF x1, x2
  <2> QED
    BY <1>1, <2>1, <2>2, <2>3, SameModes
<1>6. set_spmode_system_proxy(x, enable, save, rpc) = [x3 EXCEPT !.spmode_system_proxy = now]
  BY DEF set_spmode_system_proxy
<1> HIDE DEF x1, x2, now
<1>7. Good(rem) /\ rem.spmode_packet_filter = x2.spmode_packet_filter
  BY <1>2, <1>4, <1>5 DEF Good, Modes, Names, Saves
<1> HIDE DEF rem
<1>8. Good(x3) /\ x3.spmode_packet_filter = x1.spmode_packet_filter
  <2>1. rem \in Modes
    BY <1>7 DEF Good
  <2>2. Good(Save(rem)) /\ Save(rem).spmode_packet_filter = rem.spmode_packet_filter
    BY <1>7, <2>1, GoodSave, SameModes
  <2> QED
    BY <1>5, <1>7, <2>2
<1> HIDE DEF x3
<1> QED
  BY <1>2, <1>4, <1>6, <1>8 DEF Good, Modes

\* And under the TUN mode's.
LEMMA GoodVpn ==
  ASSUME NEW x, Good(x), NEW enable \in BOOLEAN, NEW save \in BOOLEAN
  PROVE  /\ Good(set_spmode_vpn(x, enable, save))
         /\ ~enable => /\ ~set_spmode_vpn(x, enable, save).spmode_vpn
                       /\ set_spmode_vpn(x, enable, save).spmode_system_proxy
                            = x.spmode_system_proxy
<1> DEFINE x1 == IF enable THEN PacketFilterOff(x) ELSE x
           rem == [x1 EXCEPT !.remember_spmode =
                     (@ \ {"vpn", "packet_filter"}) \cup {n \in {"vpn"} : enable}]
           x2 == IF save THEN Save(rem) ELSE x1
<1>1. CASE enable = x.spmode_vpn
  BY <1>1 DEF set_spmode_vpn
<1>2. CASE enable # x.spmode_vpn
  <2>1. set_spmode_vpn(x, enable, save) = [x2 EXCEPT !.spmode_vpn = enable]
    BY <1>2 DEF set_spmode_vpn
  <2>2. Good(x1) /\ ~x1.spmode_packet_filter /\ x1.spmode_system_proxy = x.spmode_system_proxy
    <3>1. x.spmode_vpn \in BOOLEAN /\ x \in Modes
      BY DEF Good, Modes
    <3>2. CASE enable
      BY <3>1, <3>2, GoodOff DEF PacketFilterOff, Modes
    <3>3. CASE ~enable
      BY <1>2, <3>1, <3>3 DEF Good
    <3> QED
      BY <3>2, <3>3
  <2> HIDE DEF x1
  <2>3. Good(rem) /\ ~rem.spmode_packet_filter /\ rem.spmode_system_proxy = x.spmode_system_proxy
    BY <2>2 DEF Good, Modes, Names, Saves
  <2>4. Good(x2) /\ ~x2.spmode_packet_filter /\ x2.spmode_system_proxy = x.spmode_system_proxy
    <3>1. rem \in Modes
      BY <2>3 DEF Good
    <3> HIDE DEF rem
    <3>2. Good(Save(rem)) /\ Save(rem).spmode_packet_filter = rem.spmode_packet_filter
          /\ Save(rem).spmode_system_proxy = rem.spmode_system_proxy
      BY <2>3, <3>1, GoodSave, SameModes
    <3> QED
      BY <2>2, <2>3, <3>2
  <2> HIDE DEF x2
  <2> QED
    BY <2>1, <2>4 DEF Good, Modes
<1> QED
  BY <1>1, <1>2

\* And under the packet filter's.
LEMMA GoodFilterOn ==
  ASSUME NEW x, Good(x), NEW save \in BOOLEAN, NEW rpc
  PROVE  Good(PacketFilterOn(x, save, rpc))
<1> DEFINE x1 == IF x.spmode_system_proxy
                 THEN set_spmode_system_proxy(x, FALSE, FALSE, rpc) ELSE x
           y == set_spmode_vpn(x1, FALSE, FALSE)
           x2 == [y EXCEPT !.remember_spmode = @ \ {"system_proxy", "vpn"},
                           !.spmode_packet_filter = TRUE]
           x3 == [x2 EXCEPT !.remember_spmode =
                    @ \cup {n \in {"packet_filter"} : x.remember_last_profile}]
<1>1. Good(x1)
  BY GoodProxy
<1>2. PacketFilterOn(x, save, rpc) \in {x, x1}
      \/ (~x1.spmode_system_proxy /\ PacketFilterOn(x, save, rpc) = IF save THEN Save(x3) ELSE x2)
  BY Zenon DEF PacketFilterOn
<1> HIDE DEF x1
<1>3. Good(y) /\ ~y.spmode_vpn /\ y.spmode_system_proxy = x1.spmode_system_proxy
  BY <1>1, GoodVpn
<1> HIDE DEF y
<1>4. ASSUME ~x1.spmode_system_proxy PROVE Good(x2)
  BY <1>3, <1>4 DEF Good, Modes, Names, Saves
<1>5. ASSUME ~x1.spmode_system_proxy PROVE Good(x3)
  BY <1>3, <1>5 DEF Good, Modes, Names, Saves
<1> HIDE DEF x2, x3
<1> QED
  BY <1>1, <1>2, <1>4, <1>5, GoodSave

\* Both ways.
LEMMA GoodFilter ==
  ASSUME NEW x, Good(x), NEW enable \in BOOLEAN, NEW save \in BOOLEAN, NEW rpc
  PROVE  Good(set_spmode_packet_filter(x, enable, save, rpc))
  BY GoodFilterOn, GoodOff, GoodSave DEF set_spmode_packet_filter

\* The rest of the CoreStarted handler keeps the record good.
LEMMA GoodAfterVpn ==
  ASSUME NEW x, Good(x), NEW rpc PROVE Good(AfterVpn(x, rpc))
  BY GoodFilterOn DEF AfterVpn

-----------------------------------------------------------------------------
\* set_spmode_vpn with its prompt.
LEMMA GoodRequest ==
  ASSUME NEW x, Good(x), NEW enable \in BOOLEAN, NEW save \in BOOLEAN, NEW who,
         RequestVpn(x, enable, save, who)
  PROVE  Good(m')
  BY GoodVpn, GoodOff DEF RequestVpn

\* A first start has no mode on.
LEMMA GoodInit == Init => Good(m)
<1> SUFFICES ASSUME Init PROVE Good(m)
  OBVIOUS
<1>1. m \in Modes /\ m = Fresh(m)
      /\ m.disk = [remember_spmode |-> {}, spmode_packet_filter |-> FALSE]
  BY DEF Init, FirstStart
<1>2. /\ m.spmode_packet_filter = FALSE
      /\ m.remember_spmode = {}
  <2>1. ASSUME NEW x \in Modes
        PROVE  /\ Fresh(x).spmode_packet_filter = x.disk.spmode_packet_filter
               /\ Fresh(x).remember_spmode = x.disk.remember_spmode
    BY DEF Fresh, Modes
  <2> QED
    BY <1>1, <2>1
<1> QED
  BY <1>1, <1>2 DEF Good

\* Every step keeps the record good.
LEMMA GoodStep == ASSUME Good(m), [Next]_vars PROVE Good(m')
<1>1. ASSUME NEW enable \in BOOLEAN, ClickSystemProxy(enable) PROVE Good(m')
  BY <1>1, GoodProxy DEF ClickSystemProxy
<1>2. ASSUME NEW enable \in BOOLEAN, ClickVpn(enable) PROVE Good(m')
  BY <1>2, GoodRequest DEF ClickVpn
<1>3. ASSUME NEW enable \in BOOLEAN, ClickPacketFilter(enable) PROVE Good(m')
  BY <1>3, GoodFilter DEF ClickPacketFilter
<1>4. ASSUME NEW yes \in BOOLEAN, AnswerPrompt(yes) PROVE Good(m')
  <2> DEFINE x == IF yes THEN Killed(m) ELSE [m EXCEPT !.remember_spmode = @ \ {"vpn"}]
  <2>1. Good([m EXCEPT !.remember_spmode = @ \ {"vpn"}])
    BY DEF Good, Modes, Names
  <2>2. Good(x)
    BY <2>1, GoodCore
  <2>3. PICK rpc : m' = IF prompt = "start" THEN AfterVpn(x, rpc) ELSE x
    BY <1>4 DEF AnswerPrompt
  <2> HIDE DEF x
  <2> QED
    BY <2>2, <2>3, GoodAfterVpn
<1>5. CASE ChooseInbound
  <2> DEFINE x == [m EXCEPT !.inbound = TRUE]
  <2>1. Good(x)
    BY DEF Good, Modes
  <2>2. PICK r1, r2 : m' = set_spmode_system_proxy(
                             set_spmode_system_proxy(x, TRUE, TRUE, r1), TRUE, TRUE, r2)
    BY <1>5 DEF ChooseInbound
  <2> HIDE DEF x
  <2>3. Good(set_spmode_system_proxy(x, TRUE, TRUE, r1))
    BY <2>1, GoodProxy
  <2> QED
    BY <2>2, <2>3, GoodProxy
<1>6. CASE ClickDisabled
  <2>1. PICK rpc : m' = set_spmode_packet_filter(
                     set_spmode_vpn(set_spmode_system_proxy(m, FALSE, TRUE, rpc), FALSE, TRUE),
                     FALSE, TRUE, rpc)
    BY <1>6 DEF ClickDisabled
  <2>2. Good(set_spmode_system_proxy(m, FALSE, TRUE, rpc))
    BY GoodProxy
  <2>3. Good(set_spmode_vpn(set_spmode_system_proxy(m, FALSE, TRUE, rpc), FALSE, TRUE))
    BY <2>2, GoodVpn
  <2> QED
    BY <2>1, <2>3, GoodFilter
<1>7. CASE NeedChoosePort
  <2>1. PICK r1, r2 : m' = set_spmode_system_proxy(
                             set_spmode_system_proxy(m, FALSE, TRUE, r1), TRUE, TRUE, r2)
    BY <1>7 DEF NeedChoosePort
  <2>2. Good(set_spmode_system_proxy(m, FALSE, TRUE, r1))
    BY GoodProxy
  <2> QED
    BY <2>1, <2>2, GoodProxy
<1>8. CASE PostedVpn
  BY <1>8, GoodVpn DEF PostedVpn
<1>9. CASE CoreStarted
  <2>1. PICK r1, r2 :
          LET x1 == IF "system_proxy" \in m.remember_spmode
                    THEN set_spmode_system_proxy(m, TRUE, FALSE, r1) ELSE m
          IN  \/ RequestVpn(x1, TRUE, FALSE, "start")
              \/ \E x2 \in {x1, PacketFilterOff(x1), set_spmode_vpn(x1, TRUE, FALSE)} :
                   m' = AfterVpn(x2, r2)
    BY <1>9, Zenon DEF CoreStarted
  <2> DEFINE x1 == IF "system_proxy" \in m.remember_spmode
                   THEN set_spmode_system_proxy(m, TRUE, FALSE, r1) ELSE m
  <2>2. Good(x1)
    BY GoodProxy
  <2> HIDE DEF x1
  <2>3. CASE RequestVpn(x1, TRUE, FALSE, "start")
    BY <2>2, <2>3, GoodRequest
  <2>4. ASSUME NEW x2 \in {x1, PacketFilterOff(x1), set_spmode_vpn(x1, TRUE, FALSE)},
               m' = AfterVpn(x2, r2)
        PROVE  Good(m')
    <3>1. Good(x2)
      BY <2>2, GoodOff, GoodVpn
    <3> QED
      BY <2>4, <3>1, GoodAfterVpn
  <2> QED
    BY <2>1, <2>3, <2>4 DEF x1
<1>10. CASE CoreDies
  BY <1>10, GoodCore DEF CoreDies
<1>11. CASE ProfileStarts \/ ProfileStops
  BY <1>11, GoodCore DEF ProfileStarts, ProfileStops
<1>12. CASE FilterLost
  BY <1>12, GoodOff, GoodSave DEF FilterLost
<1>13. CASE ExitAndStartAgain
  <2>1. PICK rpc : \E x \in {Stop(Exited(m, rpc)), Killed(Exited(m, rpc))} : m' = Fresh(x)
    BY <1>13 DEF ExitAndStartAgain, NewProgram
  <2>2. Good(Exited(m, rpc))
    <3>1. Good(set_spmode_system_proxy(m, FALSE, FALSE, rpc))
      BY GoodProxy
    <3> QED
      BY <3>1, GoodOff, GoodSave DEF Exited
  <2>3. Good(Stop(Exited(m, rpc))) /\ Good(Killed(Exited(m, rpc)))
    BY <2>2, GoodCore
  <2> QED
    BY <2>1, <2>3, GoodCore
<1>14. CASE ForceQuit
  BY <1>14, GoodCore DEF ForceQuit, NewProgram
<1>15. CASE CoreListens \/ UserStart \/ UNCHANGED vars
  BY <1>15 DEF CoreListens, UserStart, vars
<1> QED
  BY <1>1, <1>2, <1>3, <1>4, <1>5, <1>6, <1>7, <1>8, <1>9, <1>10, <1>11, <1>12,
     <1>13, <1>14, <1>15 DEF Next

-----------------------------------------------------------------------------
\* The record is good in every reachable state.
THEOREM AlwaysGood == Spec => []Good(m)
<1>1. Good(m) /\ [Next]_vars => Good(m)'
  BY GoodStep
<1> QED
  BY <1>1, GoodInit, PTL DEF Spec

\* The packet filter mode is never on together with another one, for any RPC
\* outcomes and any number of steps (mainwindow_rpc.cpp:963-1021).
THEOREM FilterIsAlone == Spec => []PacketFilterAlone
<1>1. Good(m) => PacketFilterAlone
  BY DEF Good, PacketFilterAlone
<1> QED
  BY <1>1, AlwaysGood, PTL

\* What dataStore->Save() writes brings back the packet filter alone or not at
\* all (mainwindow.cpp:2308-2318).
THEOREM SavedIsAlone == Spec => []SavedFilterAlone
<1>1. Good(m) => SavedFilterAlone
  BY DEF Good, SavedFilterAlone
<1> QED
  BY <1>1, AlwaysGood, PTL

-----------------------------------------------------------------------------
(***************************************************************************)
(* The OS proxy has a holder.  On a record: what the core holds covers the *)
(* setting of the OS.  Only a kill takes the holder away and leaves the    *)
(* setting, and then history says so, for good.                            *)
(***************************************************************************)
Held(x) == x.osProxy => x.controller \/ InboundHolds(x)

\* The core's handlers keep the proxy held; a kill does when it is not set.
LEMMA HeldCore ==
  ASSUME NEW x \in Modes, Held(x)
  PROVE  /\ Held(Enable(x)) /\ Held(Disable(x)) /\ Held(Stop(x)) /\ Held(Start(x))
         /\ ~x.osProxy => Held(Killed(x)) /\ Held(Fresh(x))
<1>1. Held(Enable(x))
  BY DEF Held, Enable, InboundHolds, Modes
<1>2. Held(Disable(x))
  BY DEF Held, Disable, InboundHolds, Modes
<1>3. Held(Stop(x)) /\ ~Stop(x).osProxy /\ Stop(x) \in Modes
  BY DEF Held, Stop, InboundHolds, Modes
<1>4. Held(Start(x))
  <2> DEFINE y == Stop(x)
             sets == x.inbound /\ x.spmode_system_proxy
  <2>1. Start(x) = [y EXCEPT !.box = IF sets THEN "setsProxy" ELSE "plain",
                             !.osProxy = y.osProxy \/ sets]
    BY DEF Start
  <2> HIDE DEF y, sets
  <2>2. CASE sets
    BY <1>3, <2>1, <2>2 DEF y, Held, InboundHolds, Modes
  <2>3. CASE ~sets
    <3>1. (y.osProxy \/ sets) = FALSE
      BY <1>3, <2>3 DEF y
    <3> QED
      BY <1>3, <2>1, <3>1 DEF y, Held, InboundHolds, Modes
  <2> QED
    BY <2>2, <2>3
<1>5. ASSUME ~x.osProxy PROVE Held(Killed(x)) /\ Held(Fresh(x))
  BY <1>5 DEF Held, Killed, Fresh, InboundHolds, Modes
<1> QED
  BY <1>1, <1>2, <1>3, <1>4, <1>5

\* Saving, and switching the packet filter off, is no matter of the proxy.
LEMMA HeldSave ==
  ASSUME NEW x \in Modes, Held(x)
  PROVE  Held(Save(x)) /\ Held(PacketFilterOff(x))
  BY DEF Held, Save, PacketFilterOff, InboundHolds, Modes

\* Nor is a change of the fields the setters write themselves.
LEMMA HeldFields ==
  ASSUME NEW x \in Modes, Held(x), NEW rem, NEW b
  PROVE  /\ Held([x EXCEPT !.remember_spmode = rem])
         /\ Held([x EXCEPT !.spmode_system_proxy = b])
         /\ Held([x EXCEPT !.spmode_vpn = b])
         /\ Held([x EXCEPT !.remember_spmode = rem, !.spmode_packet_filter = TRUE])
         /\ Held([x EXCEPT !.inbound = TRUE])
  BY DEF Held, InboundHolds, Modes

\* The system proxy's setter: what it calls is Enable or Disable.
LEMMA HeldProxy ==
  ASSUME NEW x, Good(x), Held(x), NEW enable \in BOOLEAN, NEW save \in BOOLEAN, NEW rpc
  PROVE  Held(set_spmode_system_proxy(x, enable, save, rpc))
<1> DEFINE x1 == IF enable THEN PacketFilterOff(x) ELSE x
           want == enable /\ x.inbound
           call == want # x1.spmode_system_proxy
           x2 == IF ~call \/ ~Applied(rpc) THEN x1
                 ELSE IF want THEN Enable(x1) ELSE Disable(x1)
           now == IF call /\ ~Answered(rpc) THEN ~want ELSE want
           set == (x2.remember_spmode \ {"system_proxy"}) \cup
                  {n \in {"system_proxy"} : now /\ x.remember_last_profile}
           rem == [x2 EXCEPT !.remember_spmode = set]
           x3 == IF save THEN Save(rem) ELSE x2
<1>1. x \in Modes
  BY DEF Good
<1>2. Good(x1) /\ Held(x1)
  BY <1>1, GoodOff, HeldSave
<1>3. x2 \in {x1, Enable(x1), Disable(x1)}
  BY Zenon
<1>4. set_spmode_system_proxy(x, enable, save, rpc) = [x3 EXCEPT !.spmode_system_proxy = now]
  BY DEF set_spmode_system_proxy
<1>5. set \in SUBSET Names
  <2>1. x2.remember_spmode \in SUBSET Names
    <3> HIDE DEF x1, x2
    <3> QED
      BY <1>2, <1>3, GoodCore DEF Good, Modes
  <2> HIDE DEF x2, now
  <2> QED
    BY <2>1 DEF Names
<1> HIDE DEF x1
<1>6. x2 \in Modes /\ Held(x2)
  <2>1. x1 \in Modes
    BY <1>2 DEF Good
  <2>2. /\ Held(Enable(x1)) /\ Held(Disable(x1))
        /\ Enable(x1) \in Modes /\ Disable(x1) \in Modes
    BY <1>2, <2>1, HeldCore, GoodCore DEF Good
  <2> HIDE DEF x2
  <2> QED
    BY <1>2, <1>3, <2>1, <2>2
<1> HIDE DEF x2, now, set
<1>7. Held(rem) /\ rem \in Modes
  BY <1>5, <1>6, HeldFields DEF Modes
<1> HIDE DEF rem
<1>8. Held(Save(rem)) /\ Save(rem) \in Modes
  BY <1>7, HeldSave DEF Save, Modes, Saves
<1>9. Held(x3) /\ x3 \in Modes
  BY <1>6, <1>8
<1> HIDE DEF x3
<1> QED
  BY <1>4, <1>9, HeldFields

\* The TUN mode's setter does not touch it.
LEMMA HeldVpn ==
  ASSUME NEW x, Good(x), Held(x), NEW enable \in BOOLEAN, NEW save \in BOOLEAN
  PROVE  Held(set_spmode_vpn(x, enable, save))
<1> DEFINE x1 == IF enable THEN PacketFilterOff(x) ELSE x
           set == (x1.remember_spmode \ {"vpn", "packet_filter"})
                    \cup {n \in {"vpn"} : enable}
           rem == [x1 EXCEPT !.remember_spmode = set]
           x2 == IF save THEN Save(rem) ELSE x1
<1>1. Good(x1) /\ Held(x1) /\ x1 \in Modes
  BY GoodOff, HeldSave DEF Good
<1>2. set_spmode_vpn(x, enable, save) \in {x, [x2 EXCEPT !.spmode_vpn = enable]}
  BY Zenon DEF set_spmode_vpn
<1> HIDE DEF x1
<1>3. set \in SUBSET Names
  BY <1>1 DEF Modes, Names
<1> HIDE DEF set
<1>4. Held(rem) /\ rem \in Modes
  BY <1>1, <1>3, HeldFields DEF Modes
<1> HIDE DEF rem
<1>5. Held(x2) /\ x2 \in Modes
  <2>1. Held(Save(rem)) /\ Save(rem) \in Modes
    BY <1>4, HeldSave DEF Save, Modes, Saves
  <2> QED
    BY <1>1, <2>1
<1> HIDE DEF x2
<1> QED
  BY <1>2, <1>5, HeldFields

\* The packet filter's setter, on, calls the other two.
LEMMA HeldFilterOn ==
  ASSUME NEW x, Good(x), Held(x), NEW save \in BOOLEAN, NEW rpc
  PROVE  Held(PacketFilterOn(x, save, rpc))
<1> DEFINE x1 == IF x.spmode_system_proxy
                 THEN set_spmode_system_proxy(x, FALSE, FALSE, rpc) ELSE x
           y == set_spmode_vpn(x1, FALSE, FALSE)
           set == y.remember_spmode \ {"system_proxy", "vpn"}
           x2 == [y EXCEPT !.remember_spmode = set, !.spmode_packet_filter = TRUE]
           more == x2.remember_spmode
                     \cup {n \in {"packet_filter"} : x.remember_last_profile}
           x3 == [x2 EXCEPT !.remember_spmode = more]
<1>1. Good(x1) /\ Held(x1)
  BY GoodProxy, HeldProxy
<1>2. PacketFilterOn(x, save, rpc) \in {x, x1, x2, Save(x3)}
  BY Zenon DEF PacketFilterOn
<1> HIDE DEF x1
<1>3. y \in Modes /\ Held(y)
  BY <1>1, GoodVpn, HeldVpn DEF Good
<1> HIDE DEF y
<1>4. set \in SUBSET Names
  BY <1>3 DEF Modes
<1> HIDE DEF set
<1>5. x2 \in Modes /\ Held(x2)
  BY <1>3, <1>4, HeldFields DEF Modes
<1> HIDE DEF x2
<1>6. more \in SUBSET Names
  BY <1>5 DEF Modes, Names
<1> HIDE DEF more
<1>7. x3 \in Modes /\ Held(x3)
  BY <1>5, <1>6, HeldFields DEF Modes
<1> HIDE DEF x3
<1> QED
  BY <1>1, <1>2, <1>5, <1>7, HeldSave

\* Both ways, and the rest of the CoreStarted handler.
LEMMA HeldFilter ==
  ASSUME NEW x, Good(x), Held(x), NEW enable \in BOOLEAN, NEW save \in BOOLEAN, NEW rpc
  PROVE  Held(set_spmode_packet_filter(x, enable, save, rpc)) /\ Held(AfterVpn(x, rpc))
<1>1. Held(PacketFilterOff(x)) /\ Held(Save(PacketFilterOff(x)))
  BY GoodOff, HeldSave DEF Good
<1>2. Held(PacketFilterOn(x, save, rpc)) /\ Held(PacketFilterOn(x, FALSE, rpc))
  BY HeldFilterOn
<1> QED
  BY <1>1, <1>2 DEF set_spmode_packet_filter, AfterVpn

\* set_spmode_vpn with its prompt.
LEMMA HeldRequest ==
  ASSUME NEW x, Good(x), Held(x), NEW enable \in BOOLEAN, NEW save \in BOOLEAN, NEW who,
         RequestVpn(x, enable, save, who)
  PROVE  Held(m')
  BY HeldVpn, HeldSave DEF RequestVpn, Good

-----------------------------------------------------------------------------
\* History is not forgotten.
LEMMA LeftStays == ASSUME [Next]_vars, left PROVE left'
  BY DEF Next, vars, ClickSystemProxy, ClickVpn, ClickPacketFilter, AnswerPrompt,
         ChooseInbound, ClickDisabled, NeedChoosePort, PostedVpn, CoreListens,
         CoreStarted, CoreDies, ProfileStarts, UserStart, ProfileStops, FilterLost,
         ExitAndStartAgain, ForceQuit

\* A held proxy stays held, or the step is one that history records.
LEMMA HeldStep ==
  ASSUME Good(m), Held(m), [Next]_vars PROVE left' \/ Held(m')
<1>0. m \in Modes
  BY DEF Good
<1>1. ASSUME NEW enable \in BOOLEAN, ClickSystemProxy(enable) PROVE Held(m')
  BY <1>1, HeldProxy DEF ClickSystemProxy
<1>2. ASSUME NEW enable \in BOOLEAN, ClickVpn(enable) PROVE Held(m')
  BY <1>2, HeldRequest DEF ClickVpn
<1>3. ASSUME NEW enable \in BOOLEAN, ClickPacketFilter(enable) PROVE Held(m')
  BY <1>3, HeldFilter DEF ClickPacketFilter
<1>4. ASSUME NEW yes \in BOOLEAN, AnswerPrompt(yes) PROVE left' \/ Held(m')
  <2> DEFINE set == m.remember_spmode \ {"vpn"}
             x == IF yes THEN Killed(m) ELSE [m EXCEPT !.remember_spmode = set]
  <2>1. CASE yes /\ m.osProxy
    BY <1>4, <2>1 DEF AnswerPrompt
  <2>2. CASE ~(yes /\ m.osProxy)
    <3>1. Good([m EXCEPT !.remember_spmode = set])
      BY DEF Good, Modes, Names
    <3>2. Good(Killed(m))
      BY GoodCore
    <3>3. Held(x)
      BY <1>0, <2>2, HeldCore, HeldFields
    <3>4. Good(x)
      BY <3>1, <3>2
    <3>5. PICK rpc : m' = IF prompt = "start" THEN AfterVpn(x, rpc) ELSE x
      BY <1>4 DEF AnswerPrompt
    <3> HIDE DEF x
    <3> QED
      BY <3>3, <3>4, <3>5, HeldFilter
  <2> QED
    BY <2>1, <2>2
<1>5. CASE ChooseInbound
  <2> DEFINE x == [m EXCEPT !.inbound = TRUE]
  <2>1. Good(x) /\ Held(x)
    BY <1>0, HeldFields DEF Good, Modes
  <2>2. PICK r1, r2 : m' = set_spmode_system_proxy(
                             set_spmode_system_proxy(x, TRUE, TRUE, r1), TRUE, TRUE, r2)
    BY <1>5 DEF ChooseInbound
  <2> HIDE DEF x
  <2>3. /\ Good(set_spmode_system_proxy(x, TRUE, TRUE, r1))
        /\ Held(set_spmode_system_proxy(x, TRUE, TRUE, r1))
    BY <2>1, GoodProxy, HeldProxy
  <2> QED
    BY <2>2, <2>3, HeldProxy
<1>6. CASE ClickDisabled
  <2>1. PICK rpc : m' = set_spmode_packet_filter(
                     set_spmode_vpn(set_spmode_system_proxy(m, FALSE, TRUE, rpc), FALSE, TRUE),
                     FALSE, TRUE, rpc)
    BY <1>6 DEF ClickDisabled
  <2>2. /\ Good(set_spmode_system_proxy(m, FALSE, TRUE, rpc))
        /\ Held(set_spmode_system_proxy(m, FALSE, TRUE, rpc))
    BY GoodProxy, HeldProxy
  <2>3. LET y == set_spmode_vpn(set_spmode_system_proxy(m, FALSE, TRUE, rpc), FALSE, TRUE)
        IN  Good(y) /\ Held(y)
    BY <2>2, GoodVpn, HeldVpn
  <2> QED
    BY <2>1, <2>3, HeldFilter
<1>7. CASE NeedChoosePort
  <2>1. PICK r1, r2 : m' = set_spmode_system_proxy(
                             set_spmode_system_proxy(m, FALSE, TRUE, r1), TRUE, TRUE, r2)
    BY <1>7 DEF NeedChoosePort
  <2>2. /\ Good(set_spmode_system_proxy(m, FALSE, TRUE, r1))
        /\ Held(set_spmode_system_proxy(m, FALSE, TRUE, r1))
    BY GoodProxy, HeldProxy
  <2> QED
    BY <2>1, <2>2, HeldProxy
<1>8. CASE PostedVpn
  BY <1>8, HeldVpn DEF PostedVpn
<1>9. CASE CoreStarted
  <2>1. PICK r1, r2 :
          LET x1 == IF "system_proxy" \in m.remember_spmode
                    THEN set_spmode_system_proxy(m, TRUE, FALSE, r1) ELSE m
          IN  \/ RequestVpn(x1, TRUE, FALSE, "start")
              \/ \E x2 \in {x1, PacketFilterOff(x1), set_spmode_vpn(x1, TRUE, FALSE)} :
                   m' = AfterVpn(x2, r2)
    BY <1>9, Zenon DEF CoreStarted
  <2> DEFINE x1 == IF "system_proxy" \in m.remember_spmode
                   THEN set_spmode_system_proxy(m, TRUE, FALSE, r1) ELSE m
  <2>2. Good(x1) /\ Held(x1)
    BY GoodProxy, HeldProxy
  <2> HIDE DEF x1
  <2>3. CASE RequestVpn(x1, TRUE, FALSE, "start")
    BY <2>2, <2>3, HeldRequest
  <2>4. ASSUME NEW x2 \in {x1, PacketFilterOff(x1), set_spmode_vpn(x1, TRUE, FALSE)},
               m' = AfterVpn(x2, r2)
        PROVE  Held(m')
    <3>1. Good(PacketFilterOff(x1)) /\ Good(set_spmode_vpn(x1, TRUE, FALSE))
      BY <2>2, GoodOff, GoodVpn
    <3>2. Held(PacketFilterOff(x1)) /\ Held(set_spmode_vpn(x1, TRUE, FALSE))
      BY <2>2, HeldSave, HeldVpn DEF Good
    <3>3. Good(x2) /\ Held(x2)
      BY <2>2, <3>1, <3>2
    <3> QED
      BY <2>4, <3>3, HeldFilter
  <2> QED
    BY <2>1, <2>3, <2>4 DEF x1
<1>10. CASE CoreDies
  BY <1>0, <1>10, HeldCore DEF CoreDies
<1>11. CASE ProfileStarts \/ ProfileStops
  BY <1>0, <1>11, HeldCore DEF ProfileStarts, ProfileStops
<1>12. CASE FilterLost
  <2>1. Good(PacketFilterOff(m)) /\ Held(PacketFilterOff(m))
    BY <1>0, GoodOff, HeldSave
  <2> QED
    BY <1>12, <2>1, HeldSave DEF FilterLost, Good
<1>13. CASE ExitAndStartAgain
  <2>0. PICK rpc : \E x \in {Stop(Exited(m, rpc)), Killed(Exited(m, rpc))} :
                     m' = Fresh(x) /\ left' = (left \/ x.osProxy)
    BY <1>13 DEF ExitAndStartAgain, NewProgram
  <2>1. PICK x \in {Stop(Exited(m, rpc)), Killed(Exited(m, rpc))} :
          m' = Fresh(x) /\ left' = (left \/ x.osProxy)
    BY <2>0
  <2>2. Good(x)
    <3>1. Good(set_spmode_system_proxy(m, FALSE, FALSE, rpc))
      BY GoodProxy
    <3>2. Good(Exited(m, rpc))
      BY <3>1, GoodOff, GoodSave DEF Exited
    <3> QED
      BY <2>1, <3>2, GoodCore
  <2>3. CASE x.osProxy
    BY <2>1, <2>3
  <2>4. CASE ~x.osProxy
    BY <2>1, <2>2, <2>4, HeldCore DEF Good, Held
  <2> QED
    BY <2>3, <2>4
<1>14. CASE ForceQuit
  BY <1>0, <1>14, HeldCore DEF ForceQuit, NewProgram
<1>15. CASE CoreListens \/ UserStart \/ UNCHANGED vars
  BY <1>15 DEF CoreListens, UserStart, vars
<1> QED
  BY <1>1, <1>2, <1>3, <1>4, <1>5, <1>6, <1>7, <1>8, <1>9, <1>10, <1>11, <1>12,
     <1>13, <1>14, <1>15 DEF Next

\* A proxy set in the OS has a holder that will reset it, unless a core or a
\* program ended holding it: for any RPC outcomes, any crashes and restarts
\* (internal/utils.go:45-73, server.go:75-77, 176).
THEOREM ProxyHasHolder == Spec => []ProxyHeld
<1> DEFINE HInv == Good(m) /\ (left \/ Held(m))
<1>1. Init => HInv
  <2>1. ASSUME Init PROVE ~m.osProxy
    BY <2>1 DEF Init, FirstStart
  <2> QED
    BY <2>1, GoodInit DEF Held
<1>2. HInv /\ [Next]_vars => HInv'
  BY GoodStep, HeldStep, LeftStays
<1>3. HInv => ProxyHeld
  BY DEF ProxyHeld, Held
<1> QED
  BY <1>1, <1>2, <1>3, PTL DEF Spec
=============================================================================
