------------------------ MODULE RoutingProfilesProofs ------------------------
(***************************************************************************)
(* TLAPS proofs about RoutingProfiles, for any number of ids, objects,     *)
(* windows, edits and exits: a usable profile is the current one, and once *)
(* the threads are done, memory and disk have what the user has accepted.  *)
(*                                                                         *)
(* The threads of UpdateRouteChains save and drop records while routes     *)
(* already has the next list.  Two facts make up for that, and the         *)
(* invariant has both: a thread that has a record to drop holds the lock,  *)
(* and a profile that came into use meanwhile was put there by an OK       *)
(* whose own thread is still waiting for the lock.                         *)
(***************************************************************************)
EXTENDS RoutingProfiles, FiniteSetTheorems, TLAPS

-----------------------------------------------------------------------------
(* Sets of numbers.                                                        *)

\* A set of naturals that is not empty has a least element.
LEMMA NatMin == ASSUME NEW S \in SUBSET Nat, S # {} PROVE \E m \in S : \A n \in S : m <= n
<1> DEFINE R == OpToRel(<, Nat)
<1>1. IsWellFoundedOn(R, Nat)
  BY NatLessThanWellFounded
<1>2. \A x, y \in Nat : x < y => <<x, y>> \in R
  BY DEF OpToRel
<1> HIDE DEF R
<1>3. PICK m \in S : \A n \in S : <<n, m>> \notin R
  BY <1>1, WFMin
<1>4. \A n \in S : ~(n < m)
  BY <1>2, <1>3
<1>5. ASSUME NEW n \in S PROVE m <= n
  <2>1. ~(n < m) /\ n \in Nat /\ m \in Nat
    BY <1>4
  <2> QED
    BY <2>1
<1> QED
  BY <1>5

\* Max is an element of a bounded set of naturals, and its greatest: LoadManager takes
\* max_route_chain_id so.
LEMMA MaxIn == ASSUME NEW b \in Nat, NEW S \in SUBSET (0 .. b), S # {}
   PROVE Max(S) \in S /\ \A n \in S : n <= Max(S)
<1> DEFINE T == {n \in Nat : b - n \in S}
<1>1. PICK s \in S : TRUE
  OBVIOUS
<1>2. T \in SUBSET Nat /\ b - s \in T
  BY <1>1
<1>3. PICK m \in T : \A n \in T : m <= n
  BY <1>2, NatMin
<1>4. b - m \in S /\ \A n \in S : n <= b - m
  <2>1. b - m \in S
    OBVIOUS
  <2>2. ASSUME NEW n \in S PROVE n <= b - m
    <3>1. b - n \in T
      OBVIOUS
    <3>2. m <= b - n /\ m \in Nat /\ n \in 0 .. b
      BY <3>1, <1>3
    <3> HIDE DEF T
    <3> QED
      BY <3>2
  <2> QED BY <2>1, <2>2
<1>5. \E x \in S : \A n \in S : x >= n
  BY <1>4
<1>6. Max(S) \in S /\ \A n \in S : Max(S) >= n
  BY <1>5, Zenon DEF Max
<1> QED
  BY <1>6

\* Min is an element of a set of naturals: an object gets the first free number.
LEMMA MinIn == ASSUME NEW S \in SUBSET Nat, S # {}
   PROVE Min(S) \in S
  BY NatMin, Zenon DEF Min

-----------------------------------------------------------------------------
(* The invariant.                                                          *)

\* Whatever is referred to is there, what is in use is under its own id, and a thread saves
\* only what has an id.
ObjectsAre ==
  /\ \A o \in Refs : o # NoObj => heap[o] # NoObj
  /\ \A i \in Ids : routes[i] # NoObj => heap[routes[i]].id = i
  /\ \A j \in jobs : \A o \in j.save : heap[o].id # Unsaved

\* No id in use or named anywhere is above max_route_chain_id, so the next one is new.
Bounds ==
  /\ \A o \in Objs : heap[o] # NoObj => heap[o].id <= max_route_chain_id
  /\ \A i \in disk.ids \cup overtaken : i <= max_route_chain_id
  /\ \A j \in jobs : \A i \in j.left \cup j.drop : i <= max_route_chain_id

\* The profile chosen in the window is enabled; there is none if none of the list is.
RouteOk ==
  IF dialog.route = NoObj THEN Enabled(dialog.list) = {} ELSE heap[dialog.route].enabled

\* The window has profiles that were there when it was opened, each once, and new ones; what
\* it has chosen is enabled unless a refresh is still to come.
WindowIs ==
  /\ dialog.route \in dialog.list \cup {NoObj}
  /\ \A o \in dialog.list : heap[o].id \in dialog.had \cup {Unsaved}
  /\ \A o, p \in dialog.list : heap[o].id = heap[p].id /\ heap[o].id # Unsaved => o = p
  /\ dialog.open /\ ~dialog.pending => RouteOk
  /\ dialog.had \cap overtaken = {}
  /\ ~dialog.open => dialog = Closed

\* The profiles that were there when the window was opened are there until OK, since only OK
\* takes any away; during OK routes is empty.
PlaceIs ==
  /\ ui = "free" => dialog.had \subseteq Live.ids
  /\ ui = "filling" => /\ dialog.open /\ Enabled(dialog.list) # {}
                       /\ \A i \in Ids : routes[i] = NoObj
                       /\ wanted.ids \subseteq dialog.had \cup overtaken
  /\ ui = "dead" => ~dialog.open /\ hasty

\* No thread has the number of the window that is open.
Newest(n) == 0 < n /\ \A j \in jobs : j.op # n

\* The threads exclude each other, and each has what it is at.
Threads ==
  /\ \A j \in jobs : j.op \in 1 .. opens
  /\ dialog.open => Newest(opens)
  /\ \A j, k \in jobs : j.op = k.op => j = k
  /\ \A j \in jobs :
       /\ j.pc # "start" => locker = j.op
       /\ j.pc # "check" => j.left = {} /\ j.drop = {}
       /\ j.pc = "check" => j.save = {}

\* The profiles edited in use, in a cancelled window or in the one that is open.
Doubtful == leaked \cup dialog.touched

\* A thread is going to save the object in use.
Pending(i) == \E j \in jobs : routes[i] \in j.save

\* The record of a profile is there, and is the accepted one unless it is in doubt or stale.
OnDisk(i) ==
  /\ i \in disk.ids
  /\ i \notin Doubtful \cup stale => (i \in disk.on <=> i \in wanted.on)

\* A thread that has not begun is going to save the object in use: it comes after the drop.
Restored(i) == \E j \in jobs : j.pc = "start" /\ routes[i] \in j.save

\* A thread is still to look at the record, or has it in hand.
WillGo(i) == \E j \in jobs : j.pc \in {"start", "save"} \/ i \in j.left \cup j.drop

\* Memory has what the user has accepted, less what was overtaken; what is in use is on disk
\* or a thread is going to put it there; a record about to be dropped is not in use, or a
\* waiting thread writes it again; a record of nothing in use is one a thread has to meet.
Agreement ==
  /\ Live.ids = wanted.ids \ overtaken
  /\ \A i \in Live.ids \ Doubtful : i \in wanted.on <=> heap[routes[i]].enabled
  /\ \A i \in Live.ids : Pending(i) \/ OnDisk(i)
  /\ \A k \in jobs : \A i \in k.drop : i \in Live.ids => Restored(i)
  /\ \A i \in disk.ids \ Live.ids : WillGo(i)

\* The current profile is in use and saved, but for a message still under way, and enabled
\* but for edits in doubt and a refresh that came late.
CurrentIs ==
  /\ messages \/ savedCurrent = current_route_id
  /\ ui = "free" /\ ~torn => current_route_id \in Live.ids
  /\ ui = "free" /\ ~torn /\ Doubtful = {} =>
       Live.on # {} /\ (current_route_id \in Live.on \/ hasty)

\* While routes is being filled again, memory and disk have nothing to agree on.
RouteInv ==
  /\ RoutingTypeOK /\ ObjectsAre /\ Bounds /\ WindowIs /\ PlaceIs /\ Threads
  /\ (ui = "free" => Agreement) /\ CurrentIs

-----------------------------------------------------------------------------
(* New ids, and objects that are collected.                                *)

\* How many of a set of numbers are up to o.
Rank(S, o) == Cardinality({p \in S : p <= o})

\* The ids of the new profiles follow max_route_chain_id, each its own.
LEMMA Ranks ==
  ASSUME NEW S \in SUBSET Nat, IsFiniteSet(S)
  PROVE  /\ Cardinality(S) \in Nat
         /\ \A o \in S : Rank(S, o) \in 1 .. Cardinality(S)
         /\ \A o, q \in S : o # q => Rank(S, o) # Rank(S, q)
<1> DEFINE Up(o) == {p \in S : p <= o}
<1>1. Cardinality(S) \in Nat
  BY FS_CardinalityType
<1>2. ASSUME NEW o \in S PROVE IsFiniteSet(Up(o)) /\ Cardinality(Up(o)) \in 1 .. Cardinality(S)
  <2>1. Up(o) \subseteq S /\ o \in Up(o)
    OBVIOUS
  <2> HIDE DEF Up
  <2>2. IsFiniteSet(Up(o)) /\ Cardinality(Up(o)) <= Cardinality(S)
    BY <2>1, FS_Subset
  <2>3. Cardinality(Up(o)) \in Nat /\ Cardinality(Up(o)) # 0
    BY <2>1, <2>2, FS_CardinalityType, FS_EmptySet
  <2> QED
    BY <1>1, <2>2, <2>3
<1>3. ASSUME NEW o \in S, NEW q \in S, o < q PROVE Cardinality(Up(o)) # Cardinality(Up(q))
  <2>1. Up(o) \subseteq Up(q) /\ q \in Up(q) /\ q \notin Up(o)
    <3>1. ASSUME NEW p \in S, p <= o PROVE p <= q
      <4>1. p \in Nat /\ o \in Nat /\ q \in Nat
        OBVIOUS
      <4> QED
        BY <1>3, <3>1, <4>1
    <3>2. ~(q <= o) /\ q <= q
      <4>1. o \in Nat /\ q \in Nat
        OBVIOUS
      <4> QED
        BY <1>3, <4>1
    <3> QED
      BY <3>1, <3>2
  <2>2. IsFiniteSet(Up(q))
    BY <1>2
  <2> HIDE DEF Up
  <2>3. Cardinality(Up(o)) = Cardinality(Up(q)) => Up(o) = Up(q)
    BY <2>1, <2>2, FS_Subset
  <2> QED
    BY <2>1, <2>3
<1>4. ASSUME NEW o \in S, NEW q \in S, o # q PROVE Cardinality(Up(o)) # Cardinality(Up(q))
  <2>1. o < q \/ q < o
    BY <1>4
  <2> QED
    BY <1>3, <2>1
<1> QED
  BY <1>1, <1>2, <1>4 DEF Rank

\* A step keeps what is referred to after it.
LEMMA Collected ==
  ASSUME NEW h \in [Objs -> Profiles \cup {NoObj}], Collect(h)
  PROVE  /\ heap' \in [Objs -> Profiles \cup {NoObj}]
         /\ \A o \in Objs : heap'[o] # NoObj => heap'[o] = h[o]
         /\ \A o \in Objs : o \in Refs' => heap'[o] = h[o]
<1>1. heap' = [o \in Objs |-> IF o \in Refs' THEN h[o] ELSE NoObj]
  BY DEF Collect
<1> HIDE DEF Refs
<1> QED
  BY <1>1

\* A free object is not referred to.
LEMMA FreeIs ==
  ASSUME RoutingTypeOK, ObjectsAre, Free # {}
  PROVE  /\ Min(Free) \in Objs /\ heap[Min(Free)] = NoObj
         /\ \A i \in Ids : routes[i] # Min(Free)
         /\ Min(Free) \notin dialog.list /\ Min(Free) # dialog.route
         /\ \A j \in jobs : Min(Free) \notin j.save
<1>1. Free \in SUBSET Nat
  BY RoutingAssumption DEF Free
<1>2. Min(Free) \in Free
  BY <1>1, MinIn
<1>3. Min(Free) \in Objs /\ heap[Min(Free)] = NoObj /\ Min(Free) # NoObj
  BY <1>2, RoutingAssumption DEF Free
<1> QED
  BY <1>3 DEF ObjectsAre, Refs

-----------------------------------------------------------------------------
(* The window.                                                             *)

\* What the heap of a step must have, for the profiles in use and the threads.
HeapOk(h, doubtful) ==
  /\ \A i \in Ids : routes[i] # NoObj =>
       /\ h[routes[i]] # NoObj /\ h[routes[i]].id = i
       /\ i \in doubtful \/ h[routes[i]].enabled = heap[routes[i]].enabled
  /\ \A j \in jobs : \A o \in j.save : h[o] # NoObj /\ h[o].id # Unsaved
  /\ \A o \in Objs : h[o] # NoObj => h[o].id <= max_route_chain_id

\* What the list of the window must have.
ListOk(d, h) ==
  /\ d.route \in d.list \cup {NoObj}
  /\ \A o \in d.list : h[o] # NoObj /\ h[o].id \in d.had \cup {Unsaved}
  /\ \A o, p \in d.list : h[o].id = h[p].id /\ h[o].id # Unsaved => o = p
  /\ d.had \cap overtaken = {} /\ d.had \subseteq Live.ids

\* What it has chosen, once it is refreshed.
ChosenOk(d, h) ==
  IF d.route = NoObj THEN \A o \in d.list : ~h[o].enabled ELSE h[d.route].enabled

\* Both, when the window is the n-th.
WindowOk(d, h, n) ==
  /\ d.open /\ Newest(n)
  /\ ListOk(d, h) /\ (~d.pending => ChosenOk(d, h))

\* A step of the window that leaves such a heap and window keeps the invariant.
LEMMA WindowStep ==
  ASSUME RouteInv, ui = "free",
         UNCHANGED <<elsewhere, wanted, overtaken, stale, hasty, torn>>,
         opens' \in Nat, opens <= opens', ops' \in Nat, leaked' \in SUBSET Ids,
         NEW h \in [Objs -> Profiles \cup {NoObj}], Collect(h),
         dialog' \in Windows, Doubtful \subseteq Doubtful',
         HeapOk(h, Doubtful'), dialog' = Closed \/ WindowOk(dialog', h, opens')
  PROVE  RouteInv'
<1>0. /\ RoutingTypeOK /\ ObjectsAre /\ Bounds /\ WindowIs /\ PlaceIs /\ Threads
      /\ Agreement /\ CurrentIs
  BY DEF RouteInv
<1>1. /\ heap' \in [Objs -> Profiles \cup {NoObj}]
      /\ \A o \in Objs : heap'[o] # NoObj => heap'[o] = h[o]
      /\ \A o \in Objs : o \in Refs' => heap'[o] = h[o]
  BY Collected
<1>2. /\ routes' = routes /\ max_route_chain_id' = max_route_chain_id
      /\ current_route_id' = current_route_id /\ disk' = disk /\ savedCurrent' = savedCurrent
      /\ ui' = ui /\ messages' = messages /\ jobs' = jobs /\ locker' = locker
      /\ restarts' = restarts /\ wanted' = wanted /\ overtaken' = overtaken /\ stale' = stale
      /\ hasty' = hasty /\ torn' = torn
  BY DEF elsewhere, storeVars, diskVars
<1>3. /\ \A i \in Ids : routes[i] # NoObj => heap'[routes[i]] = h[routes[i]]
      /\ \A j \in jobs : \A o \in j.save : heap'[o] = h[o]
      /\ \A o \in dialog'.list : heap'[o] = h[o]
      /\ dialog'.route # NoObj => heap'[dialog'.route] = h[dialog'.route]
  <2>1. \A i \in Ids : routes[i] \in Objs \cup {NoObj}
    BY <1>0 DEF RoutingTypeOK
  <2>2. \A j \in jobs : j.save \subseteq Objs
    BY <1>0 DEF RoutingTypeOK, Job
  <2>3. dialog'.list \subseteq Objs /\ dialog'.route \in Objs \cup {NoObj}
    BY DEF Windows
  <2> QED
    BY <1>1, <1>2, <2>1, <2>2, <2>3 DEF Refs
<1>4. RoutingTypeOK'
  BY <1>0, <1>1, <1>2 DEF RoutingTypeOK
<1>5. Live'.ids = Live.ids /\ \A i \in Live.ids : i \in Ids /\ routes[i] # NoObj
  BY <1>2 DEF Live
<1>6. ObjectsAre' /\ Bounds'
  <2>1. \A o \in dialog'.list \cup {dialog'.route} : o # NoObj => h[o] # NoObj
    BY DEF Closed, WindowOk, ListOk
  <2>2. \A o \in Refs' : o # NoObj => heap'[o] # NoObj
    BY <1>2, <1>3, <2>1 DEF Refs, HeapOk
  <2>3. ObjectsAre'
    BY <1>2, <1>3, <2>2 DEF ObjectsAre, HeapOk
  <2>4. Bounds'
    BY <1>0, <1>1, <1>2 DEF Bounds, HeapOk
  <2> QED
    BY <2>3, <2>4
<1>7. WindowIs' /\ PlaceIs'
  <2>1. CASE dialog' = Closed
    BY <1>2, <2>1 DEF Closed, WindowIs, PlaceIs
  <2>2. CASE WindowOk(dialog', h, opens')
    <3>1. dialog'.open /\ ListOk(dialog', h) /\ (~dialog'.pending => ChosenOk(dialog', h))
      BY <2>2 DEF WindowOk
    <3>2. ~dialog'.pending => RouteOk'
      BY <1>3, <3>1 DEF RouteOk, ChosenOk, Enabled, ListOk
    <3>3. WindowIs'
      BY <1>2, <1>3, <3>1, <3>2 DEF WindowIs, ListOk
    <3> QED
      BY <1>2, <1>5, <3>1, <3>3 DEF PlaceIs, ListOk
  <2> QED
    BY <2>1, <2>2
<1>8. Threads'
  <2>1. \A j \in jobs : j.op \in 1 .. opens'
    <3>1. \A j \in jobs : j.op \in 1 .. opens /\ opens \in Nat
      BY <1>0 DEF Threads, RoutingTypeOK
    <3> QED
      BY <3>1
  <2>2. dialog'.open => Newest(opens)'
    BY <1>2 DEF Closed, WindowOk, Newest
  <2> QED
    BY <1>0, <1>2, <2>1, <2>2 DEF Threads
<1>9. Agreement'
  <2>1. \A i \in Live.ids : i \notin Doubtful' => heap'[routes[i]].enabled = heap[routes[i]].enabled
    BY <1>3, <1>5 DEF HeapOk
  <2>2. \A i \in Live.ids : i \notin Doubtful' => i \notin Doubtful
    OBVIOUS
  <2> HIDE DEF Doubtful, Live
  <2>3. \A i \in Live.ids : i \notin Doubtful' => (i \in wanted.on <=> heap'[routes[i]].enabled)
    BY <1>0, <2>1, <2>2 DEF Agreement
  <2>4. \A i \in Live.ids : OnDisk(i) => OnDisk(i)'
    BY <1>2, <2>2 DEF OnDisk
  <2>5. \A i \in Live.ids : Pending(i) => Pending(i)'
    BY <1>2 DEF Pending
  <2>6. \A i \in Live.ids : Restored(i) => Restored(i)'
    BY <1>2 DEF Restored
  <2>7. \A i : WillGo(i) => WillGo(i)'
    BY <1>2 DEF WillGo
  <2> QED
    BY <1>0, <1>2, <1>5, <2>3, <2>4, <2>5, <2>6, <2>7 DEF Agreement
<1>10. CurrentIs'
  <2>1. Doubtful' = {} => Doubtful = {} /\ Live'.on = Live.on
    <3> SUFFICES ASSUME Doubtful' = {} PROVE Doubtful = {} /\ Live'.on = Live.on
      OBVIOUS
    <3>1. \A i \in Live.ids : heap'[routes[i]].enabled = heap[routes[i]].enabled
      BY <1>3, <1>5 DEF HeapOk
    <3> QED
      BY <1>2, <3>1 DEF Live
  <2> HIDE DEF Live
  <2> QED
    BY <1>0, <1>2, <1>5, <2>1 DEF CurrentIs
<1> QED
  BY <1>4, <1>6, <1>7, <1>8, <1>9, <1>10 DEF RouteInv

\* What reloadProfileItems leaves.
LEMMA Reloaded ==
  ASSUME NEW d \in Windows, NEW h, reloadProfileItems(d, h), d.route \in d.list \cup {NoObj}
  PROVE  /\ dialog' \in Windows
         /\ dialog'.open = d.open /\ dialog'.list = d.list /\ dialog'.pending = d.pending
         /\ dialog'.had = d.had /\ dialog'.touched = d.touched
         /\ dialog'.route \in d.list \cup {NoObj} /\ ChosenOk(dialog', h)
<1>1. PICK r \in Chosen(d.list, d.route, h) : dialog' = [d EXCEPT !.route = r]
  BY DEF reloadProfileItems
<1>2. /\ r \in d.list \cup {NoObj}
      /\ IF r = NoObj THEN \A o \in d.list : ~h[o].enabled ELSE h[r].enabled
  <2>1. CASE d.route # NoObj /\ h[d.route].enabled
    <3>1. r = d.route
      BY <1>1, <2>1 DEF Chosen
    <3> QED
      BY <2>1, <3>1
  <2>2. CASE ~(d.route # NoObj /\ h[d.route].enabled)
    <3> DEFINE on == {o \in d.list : h[o].enabled}
    <3>1. r \in IF on = {} THEN {NoObj} ELSE on
      BY <1>1, <2>2 DEF Chosen
    <3>2. \A o \in d.list : o # NoObj
      BY RoutingAssumption DEF Windows
    <3>3. CASE on = {}
      BY <3>1, <3>3
    <3>4. CASE on # {}
      BY <3>1, <3>2, <3>4
    <3> QED
      BY <3>3, <3>4
  <2> QED
    BY <2>1, <2>2
<1>3. r \in Objs \cup {NoObj}
  BY <1>2 DEF Windows
<1>4. /\ dialog' \in Windows /\ dialog'.route = r
      /\ dialog'.open = d.open /\ dialog'.list = d.list /\ dialog'.pending = d.pending
      /\ dialog'.had = d.had /\ dialog'.touched = d.touched
  BY <1>1, <1>3 DEF Windows
<1> QED
  BY <1>2, <1>4 DEF ChosenOk

\* A step that ends in reloadProfileItems keeps the invariant.
LEMMA ReloadStep ==
  ASSUME RouteInv, ui = "free", UNCHANGED <<elsewhere, history>>,
         opens' \in Nat, opens <= opens', ops' \in Nat,
         NEW h \in [Objs -> Profiles \cup {NoObj}], Collect(h),
         NEW d \in Windows, reloadProfileItems(d, h),
         dialog.touched \subseteq d.touched, HeapOk(h, leaked \cup d.touched),
         d.open, Newest(opens'), ListOk(d, h)
  PROVE  RouteInv'
<1>1. UNCHANGED <<wanted, overtaken, stale, hasty, torn>> /\ leaked' = leaked
  BY DEF history
<1>2. /\ dialog' \in Windows
      /\ dialog'.open = d.open /\ dialog'.list = d.list /\ dialog'.pending = d.pending
      /\ dialog'.had = d.had /\ dialog'.touched = d.touched
      /\ dialog'.route \in d.list \cup {NoObj} /\ ChosenOk(dialog', h)
  BY Reloaded DEF ListOk
<1>3. leaked' \in SUBSET Ids
  BY <1>1 DEF RouteInv, RoutingTypeOK
<1>4. WindowOk(dialog', h, opens')
  BY <1>2 DEF WindowOk, ListOk
<1>5. Doubtful' = leaked \cup d.touched /\ Doubtful \subseteq Doubtful'
  BY <1>1, <1>2 DEF Doubtful
<1>6. HeapOk(h, Doubtful')
  BY <1>5
<1> QED
  BY <1>1, <1>2, <1>3, <1>4, <1>5, <1>6, WindowStep

\* The heap and the list as they are.
LEMMA AsTheyAre ==
  ASSUME RouteInv, ui = "free"
  PROVE  /\ heap \in [Objs -> Profiles \cup {NoObj}] /\ dialog \in Windows
         /\ opens \in Nat /\ opens <= opens
         /\ HeapOk(heap, Doubtful)
         /\ dialog.open => ListOk(dialog, heap) /\ Newest(opens)
<1>1. RoutingTypeOK /\ ObjectsAre /\ Bounds /\ WindowIs /\ PlaceIs /\ Threads
  BY DEF RouteInv
<1>2. heap \in [Objs -> Profiles \cup {NoObj}] /\ dialog \in Windows /\ opens \in Nat
  BY <1>1 DEF RoutingTypeOK
<1>3. NoObj \notin Objs /\ dialog.list \subseteq Objs /\ \A j \in jobs : j.save \subseteq Objs
  BY <1>1, RoutingAssumption DEF RoutingTypeOK, Job, Windows
<1>4. /\ \A i \in Ids : routes[i] # NoObj => heap[routes[i]] # NoObj
      /\ \A j \in jobs : \A o \in j.save : heap[o] # NoObj
      /\ \A o \in dialog.list : heap[o] # NoObj
  BY <1>1, <1>3 DEF ObjectsAre, Refs
<1>5. HeapOk(heap, Doubtful)
  BY <1>1, <1>4 DEF HeapOk, ObjectsAre, Bounds
<1>6. dialog.open => ListOk(dialog, heap) /\ Newest(opens)
  BY <1>1, <1>4 DEF ListOk, WindowIs, PlaceIs, Threads
<1> QED
  BY <1>2, <1>5, <1>6

\* The window starts with the profiles in use, each under its own id.
LEMMA OpenDialogKeeps ==
  ASSUME RouteInv, OpenDialog
  PROVE  RouteInv'
<1>1. /\ ui = "free" /\ ~dialog.open /\ opens' = opens + 1
      /\ UNCHANGED <<elsewhere, ops, history>> /\ Collect(heap)
  BY DEF OpenDialog
<1>2. /\ heap \in [Objs -> Profiles \cup {NoObj}] /\ opens \in Nat /\ HeapOk(heap, Doubtful)
  BY <1>1, AsTheyAre
<1>3. RoutingTypeOK /\ ObjectsAre /\ WindowIs /\ Threads /\ Agreement
  BY <1>1 DEF RouteInv
<1>4. dialog = Closed /\ Newest(opens')
  <2>1. \A j \in jobs : j.op \in 1 .. opens
    BY <1>3 DEF Threads
  <2> QED
    BY <1>1, <1>2, <1>3, <2>1 DEF WindowIs, Newest
<1> DEFINE list == {routes[i] : i \in Live.ids}
           now == IF current_route_id \in Live.ids THEN {routes[current_route_id]} ELSE list
<1>5. PICK r \in now :
        reloadProfileItems([Closed EXCEPT !.open = TRUE, !.list = list, !.route = r,
                                          !.had = Live.ids], heap)
  BY DEF OpenDialog
<1>6. Live.ids \subseteq Ids /\ list \subseteq Objs /\ \A o \in list : o # NoObj
  BY <1>3 DEF Live, RoutingTypeOK
<1>7. r \in list
  BY <1>5
<1>8. PICK d : d = [Closed EXCEPT !.open = TRUE, !.list = list, !.route = r, !.had = Live.ids]
  OBVIOUS
<1>9. /\ d \in Windows
      /\ d.open /\ d.list = list /\ d.route = r /\ d.had = Live.ids /\ d.touched = {}
  BY <1>6, <1>7, <1>8 DEF Windows, Closed
<1>10. reloadProfileItems(d, heap)
  BY <1>5, <1>8
<1>11. ListOk(d, heap)
  <2>1. \A o \in list : \E i \in Live.ids : o = routes[i] /\ heap[o].id = i /\ heap[o] # NoObj
    BY <1>2, <1>6 DEF HeapOk, Live
  <2>2. Live.ids \cap overtaken = {}
    BY <1>3 DEF Agreement
  <2> HIDE DEF list
  <2> QED
    BY <1>7, <1>9, <2>1, <2>2 DEF ListOk
<1>12. dialog.touched = {} /\ leaked \cup d.touched = Doubtful
  BY <1>4, <1>9 DEF Closed, Doubtful
<1>13. UNCHANGED <<elsewhere, history>> /\ opens' \in Nat /\ opens <= opens' /\ ops' \in Nat
  BY <1>1, <1>2, <1>3 DEF RoutingTypeOK
<1> QED
  BY <1>1, <1>2, <1>4, <1>9, <1>10, <1>11, <1>12, <1>13, ReloadStep

\* The queued refresh makes the chosen profile an enabled one again.
LEMMA RefreshKeeps ==
  ASSUME RouteInv, Refresh
  PROVE  RouteInv'
<1>1. /\ ui = "free" /\ dialog.pending
      /\ UNCHANGED <<elsewhere, opens, ops, history>> /\ Collect(heap)
      /\ reloadProfileItems([dialog EXCEPT !.pending = FALSE], heap)
  BY DEF Refresh
<1>2. /\ heap \in [Objs -> Profiles \cup {NoObj}] /\ dialog \in Windows
      /\ opens \in Nat /\ opens <= opens /\ HeapOk(heap, Doubtful)
      /\ dialog.open => ListOk(dialog, heap) /\ Newest(opens)
  BY <1>1, AsTheyAre
<1>3. RoutingTypeOK /\ WindowIs
  BY DEF RouteInv
<1>4. dialog.open
  BY <1>1, <1>3 DEF WindowIs, Closed
<1>5. PICK d : d = [dialog EXCEPT !.pending = FALSE]
  OBVIOUS
<1>6. /\ d \in Windows /\ d.open = dialog.open /\ d.list = dialog.list /\ d.route = dialog.route
      /\ d.had = dialog.had /\ d.touched = dialog.touched
  BY <1>2, <1>5 DEF Windows
<1>7. ListOk(d, heap)
  BY <1>2, <1>4, <1>6 DEF ListOk
<1>8. /\ UNCHANGED <<elsewhere, history>> /\ opens' = opens /\ ops' \in Nat
      /\ reloadProfileItems(d, heap)
  BY <1>1, <1>3, <1>5 DEF RoutingTypeOK
<1>9. HeapOk(heap, leaked \cup d.touched)
  BY <1>2, <1>6 DEF Doubtful
<1> QED
  BY <1>1, <1>2, <1>4, <1>6, <1>7, <1>8, <1>9, ReloadStep

\* A profile that is switched keeps its id, and if it is in use it is among the touched.
LEMMA ToggledIs ==
  ASSUME RouteInv, ui = "free", NEW o \in dialog.list, dialog.open
  PROVE  /\ Toggled(o) \in [Objs -> Profiles \cup {NoObj}]
         /\ Touches(o) \in Windows
         /\ Touches(o).open = dialog.open /\ Touches(o).list = dialog.list
         /\ Touches(o).route = dialog.route /\ Touches(o).had = dialog.had
         /\ Touches(o).pending = dialog.pending
         /\ dialog.touched \subseteq Touches(o).touched
         /\ HeapOk(Toggled(o), leaked \cup Touches(o).touched)
         /\ ListOk(dialog, Toggled(o))
<1>1. /\ heap \in [Objs -> Profiles \cup {NoObj}] /\ dialog \in Windows
      /\ HeapOk(heap, Doubtful) /\ ListOk(dialog, heap)
  BY AsTheyAre
<1>2. o \in Objs /\ heap[o] # NoObj /\ heap[o] \in Profiles
  BY <1>1 DEF ListOk, Windows
<1>3. PICK p : p = [heap[o] EXCEPT !.enabled = ~@]
  OBVIOUS
<1>4. p \in Profiles /\ p.id = heap[o].id /\ p # NoObj
  BY <1>2, <1>3, RoutingAssumption DEF Profiles
<1>5. PICK h : h = [heap EXCEPT ![o] = p]
  OBVIOUS
<1>6. Toggled(o) = h
  BY <1>3, <1>5 DEF Toggled
<1>7. /\ h \in [Objs -> Profiles \cup {NoObj}] /\ h[o] = p
      /\ \A q \in Objs : q # o => h[q] = heap[q]
  BY <1>1, <1>2, <1>4, <1>5
<1>8. PICK d : d = Touches(o)
  OBVIOUS
<1>9. /\ d \in Windows /\ d.open = dialog.open /\ d.list = dialog.list
      /\ d.route = dialog.route /\ d.had = dialog.had /\ d.pending = dialog.pending
      /\ d.touched = dialog.touched \cup {i \in Live.ids : routes[i] = o}
  <2>1. Live.ids \subseteq Ids
    BY DEF Live
  <2> HIDE DEF Live
  <2> QED
    BY <1>1, <1>8, <2>1 DEF Touches, Windows
<1>10. HeapOk(h, leaked \cup d.touched)
  <2>1. RoutingTypeOK
    BY DEF RouteInv
  <2>2. \A i \in Ids : routes[i] # NoObj => routes[i] \in Objs /\ i \in Live.ids
    BY <2>1 DEF RoutingTypeOK, Live
  <2>3. \A j \in jobs : j.save \subseteq Objs
    BY <2>1 DEF RoutingTypeOK, Job
  <2>4. \A q \in Objs : heap[q] # NoObj => h[q] # NoObj /\ h[q].id = heap[q].id
    BY <1>4, <1>7
  <2>5. \A q \in Objs : h[q] # NoObj => heap[q] # NoObj /\ h[q].id = heap[q].id
    BY <1>2, <1>4, <1>7
  <2>6. \A i \in Ids : routes[i] # NoObj =>
          i \in leaked \cup d.touched \/ h[routes[i]].enabled = heap[routes[i]].enabled
    <3> SUFFICES ASSUME NEW i \in Ids, routes[i] # NoObj, i \notin d.touched
                 PROVE  h[routes[i]] = heap[routes[i]]
      OBVIOUS
    <3>1. routes[i] # o
      BY <1>9, <2>2
    <3> QED
      BY <1>7, <2>2, <3>1
  <2> QED
    BY <1>1, <2>2, <2>3, <2>4, <2>5, <2>6 DEF HeapOk
<1>11. ListOk(dialog, h)
  <2>1. \A q \in dialog.list : h[q] # NoObj /\ h[q].id = heap[q].id
    BY <1>1, <1>4, <1>7 DEF ListOk, Windows
  <2> QED
    BY <1>1, <2>1 DEF ListOk
<1> QED
  BY <1>6, <1>7, <1>8, <1>9, <1>10, <1>11

\* The check box leaves the chosen profile as it is, with a refresh to come.
LEMMA CheckRouteKeeps ==
  ASSUME RouteInv, NEW o \in Objs, CheckRoute(o)
  PROVE  RouteInv'
<1>1. /\ ui = "free" /\ dialog.open /\ o \in dialog.list /\ ops' = ops + 1
      /\ UNCHANGED <<elsewhere, opens, history>> /\ Collect(Toggled(o))
      /\ dialog' = [Touches(o) EXCEPT !.pending = TRUE]
  BY DEF CheckRoute, InDialog, Op
<1>2. RoutingTypeOK
  BY DEF RouteInv
<1>3. PICK h, d : h = Toggled(o) /\ d = Touches(o)
  OBVIOUS
<1>4. /\ h \in [Objs -> Profiles \cup {NoObj}] /\ d \in Windows
      /\ d.open = dialog.open /\ d.list = dialog.list
      /\ d.route = dialog.route /\ d.had = dialog.had
      /\ dialog.touched \subseteq d.touched
      /\ HeapOk(h, leaked \cup d.touched) /\ ListOk(dialog, h)
  BY <1>1, <1>3, ToggledIs
<1>5. /\ dialog' \in Windows /\ dialog'.open /\ dialog'.pending /\ dialog'.list = dialog.list
      /\ dialog'.route = dialog.route /\ dialog'.had = dialog.had /\ dialog'.touched = d.touched
  BY <1>1, <1>3, <1>4 DEF Windows
<1>6. Newest(opens')
  BY <1>1, AsTheyAre
<1>7. WindowOk(dialog', h, opens')
  BY <1>4, <1>5, <1>6 DEF WindowOk, ListOk
<1>8. leaked' = leaked /\ UNCHANGED <<wanted, overtaken, stale, hasty, torn>>
  BY <1>1 DEF history
<1>9. Doubtful \subseteq Doubtful' /\ HeapOk(h, Doubtful')
  BY <1>4, <1>5, <1>8 DEF Doubtful
<1>10. /\ opens' \in Nat /\ opens <= opens' /\ ops' \in Nat /\ leaked' \in SUBSET Ids
       /\ Collect(h) /\ UNCHANGED elsewhere
  BY <1>1, <1>2, <1>3, <1>8 DEF RoutingTypeOK
<1> QED
  BY <1>1, <1>4, <1>5, <1>7, <1>8, <1>9, <1>10, WindowStep

\* The button refreshes the list at once.
LEMMA ToggleRouteKeeps ==
  ASSUME RouteInv, NEW o \in Objs, ToggleRoute(o)
  PROVE  RouteInv'
<1>1. /\ ui = "free" /\ dialog.open /\ o \in dialog.list /\ ops' = ops + 1
      /\ UNCHANGED <<elsewhere, opens, history>> /\ Collect(Toggled(o))
      /\ reloadProfileItems(Touches(o), Toggled(o))
  BY DEF ToggleRoute, InDialog, Op
<1>2. RoutingTypeOK
  BY DEF RouteInv
<1>3. PICK h, d : h = Toggled(o) /\ d = Touches(o)
  OBVIOUS
<1>4. /\ h \in [Objs -> Profiles \cup {NoObj}] /\ d \in Windows
      /\ d.open = dialog.open /\ d.list = dialog.list
      /\ d.route = dialog.route /\ d.had = dialog.had
      /\ dialog.touched \subseteq d.touched
      /\ HeapOk(h, leaked \cup d.touched) /\ ListOk(dialog, h)
  BY <1>1, <1>3, ToggledIs
<1>5. ListOk(d, h) /\ d.open /\ Newest(opens')
  BY <1>1, <1>4, AsTheyAre DEF ListOk
<1>6. /\ opens' \in Nat /\ opens <= opens' /\ ops' \in Nat
      /\ Collect(h) /\ UNCHANGED <<elsewhere, history>> /\ reloadProfileItems(d, h)
  BY <1>1, <1>2, <1>3 DEF RoutingTypeOK
<1> QED
  BY <1>1, <1>4, <1>5, <1>6, ReloadStep

\* The combo box offers a profile that is disabled only before a refresh.
LEMMA updateCurrentRouteProfileKeeps ==
  ASSUME RouteInv, NEW o \in Objs, updateCurrentRouteProfile(o)
  PROVE  RouteInv'
<1>1. /\ ui = "free" /\ dialog.open /\ o \in dialog.list /\ ops' = ops + 1
      /\ heap[o].enabled \/ dialog.pending
      /\ UNCHANGED <<elsewhere, opens, history>> /\ Collect(heap)
      /\ dialog' = [dialog EXCEPT !.route = o]
  BY DEF updateCurrentRouteProfile, InDialog, Op
<1>2. /\ heap \in [Objs -> Profiles \cup {NoObj}] /\ dialog \in Windows
      /\ opens \in Nat /\ opens <= opens /\ HeapOk(heap, Doubtful)
      /\ ListOk(dialog, heap) /\ Newest(opens)
  BY <1>1, AsTheyAre
<1>3. RoutingTypeOK
  BY DEF RouteInv
<1>4. /\ dialog' \in Windows /\ dialog'.open /\ dialog'.pending = dialog.pending
      /\ dialog'.list = dialog.list /\ dialog'.route = o /\ dialog'.had = dialog.had
      /\ dialog'.touched = dialog.touched
  BY <1>1, <1>2 DEF Windows
<1>5. o # NoObj
  BY RoutingAssumption
<1>6. WindowOk(dialog', heap, opens')
  BY <1>1, <1>2, <1>4, <1>5 DEF WindowOk, ListOk, ChosenOk
<1>7. leaked' = leaked /\ UNCHANGED <<wanted, overtaken, stale, hasty, torn>>
  BY <1>1 DEF history
<1>8. Doubtful' = Doubtful
  BY <1>4, <1>7 DEF Doubtful
<1>9. /\ opens' \in Nat /\ opens <= opens' /\ ops' \in Nat /\ leaked' \in SUBSET Ids
      /\ UNCHANGED elsewhere
  BY <1>1, <1>2, <1>3, <1>7 DEF RoutingTypeOK
<1> QED
  BY <1>1, <1>2, <1>4, <1>6, <1>7, <1>8, <1>9, WindowStep

\* A new object changes nothing of the others.
LEMMA NewObject ==
  ASSUME RouteInv, ui = "free", Free # {}, NEW p \in Profiles, p.id <= max_route_chain_id
  PROVE  \E n, h :
    /\ n = Min(Free) /\ h = [heap EXCEPT ![n] = p]
    /\ n \in Objs /\ n # NoObj /\ n \notin dialog.list /\ n # dialog.route
    /\ h \in [Objs -> Profiles \cup {NoObj}] /\ h[n] = p /\ p # NoObj
    /\ \A o \in Objs : o # n => h[o] = heap[o]
    /\ HeapOk(h, Doubtful)
<1>0. PICK n, h : n = Min(Free) /\ h = [heap EXCEPT ![n] = p]
  OBVIOUS
<1>1. RoutingTypeOK /\ ObjectsAre
  BY DEF RouteInv
<1>2. /\ n \in Objs /\ \A i \in Ids : routes[i] # n
      /\ n \notin dialog.list /\ n # dialog.route
      /\ \A j \in jobs : n \notin j.save
  BY <1>0, <1>1, FreeIs
<1>3. heap \in [Objs -> Profiles \cup {NoObj}] /\ HeapOk(heap, Doubtful)
  BY AsTheyAre
<1>4. /\ h \in [Objs -> Profiles \cup {NoObj}] /\ h[n] = p /\ p # NoObj
      /\ \A o \in Objs : o # n => h[o] = heap[o]
  BY <1>0, <1>2, <1>3, RoutingAssumption
<1>5. n # NoObj
  BY <1>2, RoutingAssumption
<1>6. /\ \A i \in Ids : routes[i] # NoObj => routes[i] \in Objs /\ h[routes[i]] = heap[routes[i]]
      /\ \A j \in jobs : \A o \in j.save : h[o] = heap[o]
  BY <1>1, <1>2, <1>4 DEF RoutingTypeOK, Job
<1>7. HeapOk(h, Doubtful)
  BY <1>3, <1>4, <1>6 DEF HeapOk
<1> QED
  BY <1>0, <1>2, <1>4, <1>5, <1>7

\* New profiles have no id, so they are not among those in use.
LEMMA AddRouteKeeps ==
  ASSUME RouteInv, NEW enabled \in BOOLEAN, AddRoute(enabled)
  PROVE  RouteInv'
<1>1. PICK p : p = [id |-> Unsaved, enabled |-> enabled]
  OBVIOUS
<1>2. /\ ui = "free" /\ dialog.open /\ Free # {} /\ ops' = ops + 1
      /\ UNCHANGED <<elsewhere, opens, history>>
  BY DEF AddRoute, InDialog, Op
<1>3. /\ heap \in [Objs -> Profiles \cup {NoObj}] /\ dialog \in Windows
      /\ opens \in Nat /\ opens <= opens
      /\ ListOk(dialog, heap) /\ Newest(opens)
  BY <1>2, AsTheyAre
<1>4. RoutingTypeOK
  BY DEF RouteInv
<1>5. p \in Profiles /\ p.id = Unsaved /\ p.id <= max_route_chain_id
  BY <1>1, <1>4 DEF Profiles, Unsaved, RoutingTypeOK
<1>6. PICK n, h :
        /\ n = Min(Free) /\ h = [heap EXCEPT ![n] = p]
        /\ n \in Objs /\ n # NoObj /\ n \notin dialog.list /\ n # dialog.route
        /\ h \in [Objs -> Profiles \cup {NoObj}] /\ h[n] = p /\ p # NoObj
        /\ \A o \in Objs : o # n => h[o] = heap[o]
        /\ HeapOk(h, Doubtful)
  BY <1>2, <1>5, NewObject
<1>7. Collect(h) /\ reloadProfileItems([dialog EXCEPT !.list = @ \cup {n}], h)
  BY <1>1, <1>6, Zenon DEF AddRoute
<1>8. PICK d : d = [dialog EXCEPT !.list = @ \cup {n}]
  OBVIOUS
<1>9. /\ d \in Windows /\ d.open /\ d.list = dialog.list \cup {n} /\ d.route = dialog.route
      /\ d.had = dialog.had /\ d.touched = dialog.touched
  BY <1>2, <1>3, <1>6, <1>8 DEF Windows
<1>10. ListOk(d, h)
  <2>1. \A o \in dialog.list : h[o] = heap[o]
    BY <1>3, <1>6 DEF Windows
  <2> QED
    BY <1>3, <1>5, <1>6, <1>9, <2>1 DEF ListOk
<1>11. /\ opens' \in Nat /\ opens <= opens' /\ ops' \in Nat
       /\ UNCHANGED <<elsewhere, history>> /\ reloadProfileItems(d, h)
       /\ Newest(opens')
  BY <1>2, <1>3, <1>4, <1>7, <1>8 DEF RoutingTypeOK
<1>12. HeapOk(h, leaked \cup d.touched)
  BY <1>6, <1>9 DEF Doubtful
<1> QED
  BY <1>2, <1>6, <1>7, <1>9, <1>10, <1>11, <1>12, ReloadStep

\* A copy takes the place of the profile, with its id.
LEMMA EditRouteKeeps ==
  ASSUME RouteInv, NEW o \in Objs, EditRoute(o)
  PROVE  RouteInv'
<1>1. PICK p : p = heap[o]
  OBVIOUS
<1>2. /\ ui = "free" /\ dialog.open /\ o \in dialog.list /\ Free # {} /\ ops' = ops + 1
      /\ UNCHANGED <<elsewhere, opens, history>>
  BY DEF EditRoute, InDialog, Op
<1>3. /\ heap \in [Objs -> Profiles \cup {NoObj}] /\ dialog \in Windows
      /\ opens \in Nat /\ opens <= opens /\ HeapOk(heap, Doubtful)
      /\ ListOk(dialog, heap) /\ Newest(opens)
  BY <1>2, AsTheyAre
<1>4. RoutingTypeOK
  BY DEF RouteInv
<1>5. p \in Profiles /\ p.id <= max_route_chain_id
  BY <1>1, <1>2, <1>3 DEF ListOk, HeapOk
<1>6. PICK n, h :
        /\ n = Min(Free) /\ h = [heap EXCEPT ![n] = p]
        /\ n \in Objs /\ n # NoObj /\ n \notin dialog.list /\ n # dialog.route
        /\ h \in [Objs -> Profiles \cup {NoObj}] /\ h[n] = p /\ p # NoObj
        /\ \A q \in Objs : q # n => h[q] = heap[q]
        /\ HeapOk(h, Doubtful)
  BY <1>2, <1>5, NewObject
<1>7. /\ Collect(h)
      /\ reloadProfileItems([dialog EXCEPT !.list = (@ \ {o}) \cup {n},
                                           !.route = IF @ = o THEN n ELSE @], h)
  BY <1>1, <1>6, Zenon DEF EditRoute
<1>8. PICK d, r : /\ r = IF dialog.route = o THEN n ELSE dialog.route
                  /\ d = [dialog EXCEPT !.list = (@ \ {o}) \cup {n}, !.route = r]
  OBVIOUS
<1>9. reloadProfileItems(d, h)
  <2>1. d = [dialog EXCEPT !.list = (@ \ {o}) \cup {n}, !.route = IF @ = o THEN n ELSE @]
    BY <1>8
  <2> QED
    BY <1>7, <2>1
<1>10. /\ d \in Windows /\ d.open /\ d.list = (dialog.list \ {o}) \cup {n} /\ d.route = r
      /\ d.had = dialog.had /\ d.touched = dialog.touched
  <2>1. r \in Objs \cup {NoObj}
    BY <1>3, <1>6, <1>8 DEF Windows
  <2> QED
    BY <1>2, <1>3, <1>6, <1>8, <2>1 DEF Windows
<1>11. ListOk(d, h)
  <2>1. \A q \in dialog.list : h[q] = heap[q]
    BY <1>3, <1>6 DEF Windows
  <2>2. d.route \in d.list \cup {NoObj}
    BY <1>3, <1>8, <1>10 DEF ListOk
  <2>3. \A q \in d.list : \/ q = n /\ h[q] = heap[o]
                          \/ q \in dialog.list /\ q # o /\ h[q] = heap[q]
    BY <1>1, <1>6, <1>10, <2>1
  <2>4. \A q \in d.list : h[q] # NoObj /\ h[q].id \in d.had \cup {Unsaved}
    BY <1>2, <1>3, <1>10, <2>3 DEF ListOk
  <2>5. \A q, s \in d.list : h[q].id = h[s].id /\ h[q].id # Unsaved => q = s
    BY <1>2, <1>3, <2>3 DEF ListOk
  <2> QED
    BY <1>3, <1>10, <2>2, <2>4, <2>5 DEF ListOk
<1>12. /\ opens' \in Nat /\ opens <= opens' /\ ops' \in Nat
       /\ UNCHANGED <<elsewhere, history>>
       /\ Newest(opens')
  BY <1>2, <1>3, <1>4 DEF RoutingTypeOK
<1>13. HeapOk(h, leaked \cup d.touched)
  BY <1>6, <1>10 DEF Doubtful
<1> QED
  BY <1>2, <1>6, <1>7, <1>9, <1>10, <1>11, <1>12, <1>13, ReloadStep

\* Of the list one profile at least is left, and the chosen one is of it.
LEMMA DeleteRouteKeeps ==
  ASSUME RouteInv, NEW o \in Objs, DeleteRoute(o)
  PROVE  RouteInv'
<1> DEFINE list == dialog.list \ {o}
<1>1. PICK r \in IF dialog.route = o THEN list ELSE {dialog.route} :
        reloadProfileItems([dialog EXCEPT !.list = list, !.route = r], heap)
  BY DEF DeleteRoute
<1>2. /\ ui = "free" /\ dialog.open /\ o \in dialog.list /\ ops' = ops + 1
      /\ UNCHANGED <<elsewhere, opens, history>> /\ Collect(heap)
  BY DEF DeleteRoute, InDialog, Op
<1>3. /\ heap \in [Objs -> Profiles \cup {NoObj}] /\ dialog \in Windows
      /\ opens \in Nat /\ opens <= opens /\ HeapOk(heap, Doubtful)
      /\ ListOk(dialog, heap) /\ Newest(opens)
  BY <1>2, AsTheyAre
<1>4. RoutingTypeOK
  BY DEF RouteInv
<1>5. r \in list \cup {NoObj} /\ r \in Objs \cup {NoObj}
  BY <1>1, <1>3 DEF ListOk, Windows
<1>6. PICK d : d = [dialog EXCEPT !.list = list, !.route = r]
  OBVIOUS
<1>7. /\ d \in Windows /\ d.open /\ d.list = list /\ d.route = r
      /\ d.had = dialog.had /\ d.touched = dialog.touched
  BY <1>2, <1>3, <1>5, <1>6 DEF Windows
<1>8. ListOk(d, heap)
  BY <1>3, <1>5, <1>7 DEF ListOk
<1>9. /\ opens' \in Nat /\ opens <= opens' /\ ops' \in Nat
      /\ UNCHANGED <<elsewhere, history>> /\ reloadProfileItems(d, heap)
      /\ Newest(opens')
  BY <1>1, <1>2, <1>3, <1>4, <1>6 DEF RoutingTypeOK
<1>10. HeapOk(heap, leaked \cup d.touched)
  BY <1>3, <1>7 DEF Doubtful
<1> QED
  BY <1>2, <1>3, <1>7, <1>8, <1>9, <1>10, ReloadStep

\* What the window has touched is in doubt from now on.
LEMMA CancelKeeps ==
  ASSUME RouteInv, Cancel
  PROVE  RouteInv'
<1>1. /\ ui = "free" /\ dialog.open /\ dialog' = Closed
      /\ leaked' = leaked \cup dialog.touched
      /\ UNCHANGED <<elsewhere, opens, ops, wanted, overtaken, stale, hasty, torn>>
      /\ Collect(heap)
  BY DEF Cancel
<1>2. /\ heap \in [Objs -> Profiles \cup {NoObj}] /\ dialog \in Windows
      /\ opens \in Nat /\ opens <= opens /\ HeapOk(heap, Doubtful)
  BY <1>1, AsTheyAre
<1>3. RoutingTypeOK
  BY DEF RouteInv
<1>4. dialog' \in Windows /\ leaked' \in SUBSET Ids /\ ops' \in Nat /\ Doubtful' = Doubtful
  BY <1>1, <1>2, <1>3 DEF Windows, Closed, RoutingTypeOK, Doubtful
<1>5. /\ UNCHANGED <<elsewhere, wanted, overtaken, stale, hasty, torn>>
      /\ opens' \in Nat /\ opens <= opens'
  BY <1>1, <1>2
<1> QED
  BY <1>1, <1>2, <1>4, <1>5, WindowStep

-----------------------------------------------------------------------------
(* OK.                                                                     *)

\* routes.clear(): what was imported since the window was opened is lost.
LEMMA AcceptKeeps ==
  ASSUME RouteInv, Accept
  PROVE  RouteInv'
<1>1. /\ ui = "free" /\ dialog.open /\ Enabled(dialog.list) # {}
      /\ routes' = [i \in Ids |-> NoObj] /\ ui' = "filling"
      /\ overtaken' = overtaken \cup (Live.ids \ dialog.had)
      /\ UNCHANGED <<max_route_chain_id, current_route_id, diskVars, dialog, messages, jobs,
                     locker, opens, ops, restarts, wanted, leaked, stale, hasty, torn>>
      /\ Collect(heap)
  BY DEF Accept, MayAccept
<1>2. /\ RoutingTypeOK /\ ObjectsAre /\ Bounds /\ WindowIs /\ PlaceIs /\ Threads
      /\ Agreement /\ CurrentIs
  BY <1>1 DEF RouteInv
<1>3. UNCHANGED <<disk, savedCurrent>>
  BY <1>1 DEF diskVars
<1>4. /\ heap' \in [Objs -> Profiles \cup {NoObj}]
      /\ \A o \in Objs : heap'[o] # NoObj => heap'[o] = heap[o]
      /\ \A o \in Objs : o \in Refs' => heap'[o] = heap[o]
  <2>1. heap \in [Objs -> Profiles \cup {NoObj}]
    BY <1>2 DEF RoutingTypeOK
  <2> QED
    BY <1>1, <2>1, Collected
<1>5. /\ \A o \in dialog.list : heap'[o] = heap[o]
      /\ dialog.route # NoObj => heap'[dialog.route] = heap[dialog.route]
      /\ \A j \in jobs : \A o \in j.save : heap'[o] = heap[o]
  <2>1. dialog.list \subseteq Objs /\ \A j \in jobs : j.save \subseteq Objs
    BY <1>2 DEF RoutingTypeOK, Job, Windows
  <2>2. dialog.route \in Objs \cup {NoObj}
    BY <1>2 DEF RoutingTypeOK, Windows
  <2> QED
    BY <1>1, <1>4, <2>1, <2>2 DEF Refs
<1>6. Live.ids \subseteq Ids /\ \A i \in Live.ids : i <= max_route_chain_id
  <2>1. \A i \in Live.ids : i \in Ids /\ routes[i] \in Objs /\ heap[routes[i]].id = i
                            /\ heap[routes[i]] # NoObj
    BY <1>2 DEF Live, RoutingTypeOK, ObjectsAre, Refs
  <2> QED
    BY <1>2, <2>1 DEF Bounds
<1>7. RoutingTypeOK'
  <2>1. overtaken' \in SUBSET Ids
    BY <1>1, <1>2, <1>6 DEF RoutingTypeOK
  <2> QED
    BY <1>1, <1>2, <1>3, <1>4, <2>1 DEF RoutingTypeOK
<1>8. ObjectsAre'
  <2>1. \A o \in dialog.list \cup {dialog.route} : o # NoObj => heap[o] # NoObj
    BY <1>2 DEF ObjectsAre, Refs
  <2>2. \A j \in jobs : \A o \in j.save : o # NoObj => heap[o] # NoObj
    BY <1>2 DEF ObjectsAre, Refs
  <2>3. \A o \in Refs' : o # NoObj => heap'[o] # NoObj
    BY <1>1, <1>5, <2>1, <2>2 DEF Refs
  <2> QED
    BY <1>1, <1>2, <1>5, <2>3 DEF ObjectsAre
<1>9. Bounds'
  BY <1>1, <1>2, <1>3, <1>4, <1>6 DEF Bounds
<1>10. WindowIs' /\ PlaceIs'
  <2>1. dialog.open /\ ~dialog.pending => RouteOk'
    BY <1>1, <1>2, <1>5 DEF WindowIs, RouteOk, Enabled
  <2>2. WindowIs'
    BY <1>1, <1>2, <1>5, <2>1 DEF WindowIs
  <2>3. Enabled(dialog.list)' # {}
    BY <1>1, <1>5 DEF Enabled
  <2>4. wanted.ids \subseteq dialog.had \cup overtaken'
    BY <1>1, <1>2 DEF Agreement
  <2> QED
    BY <1>1, <2>2, <2>3, <2>4 DEF PlaceIs
<1>11. Threads' /\ CurrentIs'
  BY <1>1, <1>2, <1>3 DEF Threads, CurrentIs, Newest
<1> QED
  BY <1>1, <1>7, <1>8, <1>9, <1>10, <1>11 DEF RouteInv

\* The ids that AddRouteChain gives, and those the others have: no two are the same.
LEMMA IdsAre ==
  ASSUME RouteInv, ui = "filling", max_route_chain_id + Cardinality(Added) <= MaxId
  PROVE  /\ Cardinality(Added) \in Nat
         /\ \A o \in dialog.list :
              /\ o \in Objs /\ heap[o] \in Profiles /\ heap[o] # NoObj
              /\ IdOf(o) \in Ids /\ IdOf(o) <= max_route_chain_id + Cardinality(Added)
              /\ IdOf(o) \notin overtaken
              /\ IF o \in Added THEN IdOf(o) = NewId(o) /\ max_route_chain_id < IdOf(o)
                 ELSE IdOf(o) = heap[o].id /\ IdOf(o) <= max_route_chain_id
         /\ \A o, p \in dialog.list : IdOf(o) = IdOf(p) => o = p
<1>1. RoutingTypeOK /\ ObjectsAre /\ Bounds /\ WindowIs
  BY DEF RouteInv
<1>2. \A o \in dialog.list : o \in Objs /\ heap[o] \in Profiles /\ heap[o] # NoObj
  <2>1. \A o \in dialog.list : o \in Objs /\ o # NoObj
    BY <1>1, RoutingAssumption DEF RoutingTypeOK, Windows
  <2>2. \A o \in dialog.list : heap[o] # NoObj
    BY <1>1, <2>1 DEF ObjectsAre, Refs
  <2> QED
    BY <1>1, <2>1, <2>2 DEF RoutingTypeOK
<1>3. Added \in SUBSET Nat /\ IsFiniteSet(Added)
  <2>1. Added \subseteq Objs
    BY <1>2 DEF Added
  <2> QED
    BY <2>1, FS_Subset, RoutingAssumption
<1>4. /\ Cardinality(Added) \in Nat
      /\ \A o \in Added : Rank(Added, o) \in 1 .. Cardinality(Added)
      /\ \A o, q \in Added : o # q => Rank(Added, o) # Rank(Added, q)
  BY <1>3, Ranks
<1>5. \A o \in dialog.list : NewId(o) = max_route_chain_id + Rank(Added, o)
  <2>1. \A o : {p \in dialog.list : heap[p].id = Unsaved /\ p <= o} = {p \in Added : p <= o}
    BY DEF Added
  <2> QED
    BY <2>1 DEF NewId, Rank
<1>6. max_route_chain_id \in Nat /\ MaxId \in Nat
  BY <1>1, RoutingAssumption DEF RoutingTypeOK
<1>7. ASSUME NEW o \in Added
      PROVE  /\ IdOf(o) = NewId(o) /\ max_route_chain_id < IdOf(o) /\ IdOf(o) \in Ids
             /\ IdOf(o) <= max_route_chain_id + Cardinality(Added)
  <2>1. o \in dialog.list /\ IdOf(o) = NewId(o)
    BY DEF Added, IdOf
  <2>2. PICK c \in 1 .. Cardinality(Added) : IdOf(o) = max_route_chain_id + c
    BY <1>4, <1>5, <2>1
  <2> QED
    BY <1>4, <1>6, <2>1, <2>2 DEF Ids
<1>8. ASSUME NEW o \in dialog.list, o \notin Added
      PROVE  /\ IdOf(o) = heap[o].id /\ IdOf(o) \in Ids /\ IdOf(o) <= max_route_chain_id
             /\ IdOf(o) \in dialog.had
  <2>1. IdOf(o) = heap[o].id /\ heap[o].id # Unsaved
    BY <1>8 DEF Added, IdOf
  <2>2. heap[o].id \in Ids /\ heap[o].id <= max_route_chain_id
    BY <1>1, <1>2, <2>1 DEF Profiles, Bounds
  <2> QED
    BY <1>1, <2>1, <2>2 DEF WindowIs
<1>9. \A o \in dialog.list : IdOf(o) \notin overtaken
  <2>1. ASSUME NEW o \in Added, IdOf(o) \in overtaken PROVE FALSE
    <3>1. IdOf(o) <= max_route_chain_id /\ max_route_chain_id < IdOf(o) /\ IdOf(o) \in Nat
      BY <1>1, <1>7, <2>1 DEF Bounds, Ids
    <3> QED
      BY <1>6, <3>1
  <2> QED
    BY <1>1, <1>8, <2>1 DEF WindowIs
<1>10. \A o \in dialog.list : IdOf(o) <= max_route_chain_id + Cardinality(Added) /\ IdOf(o) \in Ids
  <2>1. ASSUME NEW o \in dialog.list, o \notin Added
        PROVE  IdOf(o) <= max_route_chain_id + Cardinality(Added)
    <3>1. IdOf(o) \in Nat /\ IdOf(o) <= max_route_chain_id
      BY <1>8, <2>1 DEF Ids
    <3> QED
      BY <1>4, <1>6, <3>1
  <2> QED
    BY <1>7, <1>8, <2>1
<1>11. ASSUME NEW o \in dialog.list, NEW p \in dialog.list, IdOf(o) = IdOf(p) PROVE o = p
  <2>1. CASE o \in Added /\ p \in Added
    <3>1. max_route_chain_id + Rank(Added, o) = max_route_chain_id + Rank(Added, p)
      BY <1>5, <1>7, <1>11, <2>1
    <3>2. Rank(Added, o) \in Nat /\ Rank(Added, p) \in Nat
      BY <1>4, <2>1
    <3>3. Rank(Added, o) = Rank(Added, p)
      BY <1>6, <3>1, <3>2
    <3> QED
      BY <1>4, <2>1, <3>3
  <2>2. CASE o \notin Added /\ p \notin Added
    <3>1. heap[o].id = heap[p].id /\ heap[o].id # Unsaved
      BY <1>8, <1>11, <2>2 DEF Added
    <3> QED
      BY <1>1, <3>1 DEF WindowIs
  <2>3. ASSUME NEW q \in Added, NEW r \in dialog.list, r \notin Added, IdOf(q) = IdOf(r)
        PROVE  FALSE
    <3>1. max_route_chain_id < IdOf(q) /\ IdOf(r) <= max_route_chain_id /\ IdOf(r) \in Nat
      BY <1>7, <1>8, <2>3 DEF Ids
    <3> QED
      BY <1>6, <2>3, <3>1
  <2> QED
    BY <1>11, <2>1, <2>2, <2>3
<1> QED
  BY <1>2, <1>4, <1>7, <1>8, <1>9, <1>10, <1>11

\* The rest of OK, with the profiles that are now in use.
LEMMA FillsIs ==
  ASSUME RouteInv, AcceptFills
  PROVE  /\ \A o \in dialog.list :
              /\ IdOf(o) \in Ids /\ routes'[IdOf(o)] = o
              /\ heap'[o] \in Profiles /\ heap'[o] # NoObj
              /\ heap'[o].id = IdOf(o) /\ heap'[o].enabled = heap[o].enabled
         /\ routes' \in [Ids -> Objs \cup {NoObj}]
         /\ \A i \in Ids : routes'[i] # NoObj => routes'[i] \in dialog.list /\ IdOf(routes'[i]) = i
         /\ Live'.ids = {IdOf(o) : o \in dialog.list}
         /\ Live'.on = {IdOf(o) : o \in Enabled(dialog.list)}
         /\ heap' \in [Objs -> Profiles \cup {NoObj}]
         /\ \A o \in Objs : heap'[o] # NoObj =>
              heap[o] # NoObj /\ (heap'[o] = heap[o] \/ o \in dialog.list)
         /\ \A j \in jobs : \A o \in j.save : heap'[o] = heap[o]
<1> DEFINE h == [o \in Objs |-> IF o \in Added THEN [heap[o] EXCEPT !.id = NewId(o)]
                                ELSE heap[o]]
<1>1. /\ ui = "filling" /\ max_route_chain_id + Cardinality(Added) <= MaxId
      /\ dialog' = Closed
      /\ jobs' = jobs \cup {[op |-> opens, pc |-> "start", save |-> ToSave, left |-> {},
                             drop |-> {}]}
      /\ Collect(h)
  BY DEF AcceptFills
<1>2. routes' = [i \in Ids |-> IF \E o \in dialog.list : IdOf(o) = i
                               THEN CHOOSE o \in dialog.list : IdOf(o) = i ELSE NoObj]
  BY DEF AcceptFills
<1>3. RoutingTypeOK /\ ObjectsAre
  BY DEF RouteInv
<1>4. /\ \A o \in dialog.list :
           /\ o \in Objs /\ heap[o] \in Profiles /\ heap[o] # NoObj
           /\ IdOf(o) \in Ids
           /\ IF o \in Added THEN IdOf(o) = NewId(o) ELSE IdOf(o) = heap[o].id
      /\ \A o, p \in dialog.list : IdOf(o) = IdOf(p) => o = p
  BY <1>1, IdsAre
<1>5. Added \subseteq dialog.list /\ \A o \in Added : heap[o].id = Unsaved
  BY DEF Added
<1>6. /\ h \in [Objs -> Profiles \cup {NoObj}]
      /\ \A o \in dialog.list : /\ h[o] \in Profiles /\ h[o].id = IdOf(o)
                                /\ h[o].enabled = heap[o].enabled
      /\ \A o \in Objs : o \notin dialog.list => h[o] = heap[o]
      /\ \A o \in Objs : o \notin Added => h[o] = heap[o]
  <2> HIDE DEF Added
  <2>1. ASSUME NEW o \in dialog.list
        PROVE h[o] \in Profiles /\ h[o].id = IdOf(o) /\ h[o].enabled = heap[o].enabled
    <3>1. CASE o \in Added
      <4>1. PICK p, n : p = heap[o] /\ n = NewId(o)
        OBVIOUS
      <4>2. h[o] = [p EXCEPT !.id = n]
        BY <1>4, <3>1, <4>1
      <4>3. p \in Profiles /\ n = IdOf(o) /\ n \in Ids
        BY <1>4, <3>1, <4>1
      <4>4. h[o] = [id |-> n, enabled |-> p.enabled]
        BY <4>2, <4>3 DEF Profiles
      <4> HIDE DEF h
      <4> QED
        BY <4>1, <4>3, <4>4 DEF Profiles
    <3>2. CASE o \notin Added
      BY <1>4, <3>2
    <3> QED
      BY <3>1, <3>2
  <2>2. \A o \in Objs : o \notin Added => h[o] = heap[o]
    OBVIOUS
  <2>3. h = [o \in Objs |-> h[o]]
    OBVIOUS
  <2> HIDE DEF h
  <2> QED
    BY <1>3, <1>5, <2>1, <2>2, <2>3 DEF RoutingTypeOK
<1> HIDE DEF h
<1>7. /\ routes' \in [Ids -> Objs \cup {NoObj}]
      /\ \A o \in dialog.list : routes'[IdOf(o)] = o
      /\ \A i \in Ids : routes'[i] # NoObj => routes'[i] \in dialog.list /\ IdOf(routes'[i]) = i
  <2>1. ASSUME NEW i \in Ids
        PROVE  \/ routes'[i] = NoObj /\ \A o \in dialog.list : IdOf(o) # i
               \/ routes'[i] \in dialog.list /\ IdOf(routes'[i]) = i
    <3>1. CASE \E o \in dialog.list : IdOf(o) = i
      <4>1. routes'[i] = CHOOSE o \in dialog.list : IdOf(o) = i
        BY <1>2, <3>1, Zenon
      <4>2. (CHOOSE o \in dialog.list : IdOf(o) = i) \in dialog.list
        BY <3>1, Zenon
      <4>3. IdOf(CHOOSE o \in dialog.list : IdOf(o) = i) = i
        BY <3>1, Zenon
      <4> QED
        BY <4>1, <4>2, <4>3
    <3>2. CASE ~ \E o \in dialog.list : IdOf(o) = i
      BY <1>2, <3>2, Zenon
    <3> QED
      BY <3>1, <3>2
  <2>2. routes' = [i \in Ids |-> routes'[i]]
    BY <1>2, Zenon
  <2>3. \A o \in dialog.list : routes'[IdOf(o)] = o
    BY <1>4, <2>1
  <2>4. \A i \in Ids : routes'[i] \in Objs \cup {NoObj}
    BY <1>4, <2>1
  <2>5. routes' \in [Ids -> Objs \cup {NoObj}]
    BY <2>2, <2>4
  <2> QED
    BY <2>1, <2>3, <2>5
<1>8. /\ heap' \in [Objs -> Profiles \cup {NoObj}]
      /\ \A o \in Objs : heap'[o] # NoObj => heap'[o] = h[o]
      /\ \A o \in Objs : o \in Refs' => heap'[o] = h[o]
  BY <1>1, <1>6, Collected
<1>9. \A o \in dialog.list : heap'[o] = h[o]
  <2>1. \A o \in dialog.list : o \in Refs'
    BY <1>4, <1>7 DEF Refs
  <2> QED
    BY <1>4, <1>8, <2>1
<1>10. \A j \in jobs : \A o \in j.save : heap'[o] = heap[o]
  <2>1. \A j \in jobs : \A o \in j.save : o \in Objs /\ o \in Refs' /\ o \notin Added
    <3>1. \A j \in jobs : j \in jobs' /\ j.save \subseteq Objs
      BY <1>1, <1>3 DEF RoutingTypeOK, Job
    <3>2. \A j \in jobs : \A o \in j.save : o \in Refs'
      BY <3>1 DEF Refs
    <3> QED
      BY <1>3, <1>5, <3>1, <3>2 DEF ObjectsAre
  <2> QED
    BY <1>6, <1>8, <2>1
<1>11. \A o \in Objs : heap'[o] # NoObj =>
         heap[o] # NoObj /\ (heap'[o] = heap[o] \/ o \in dialog.list)
  BY <1>4, <1>6, <1>8
<1>12. /\ Live'.ids = {IdOf(o) : o \in dialog.list}
       /\ Live'.on = {IdOf(o) : o \in Enabled(dialog.list)}
  <2>1. \A i : i \in Live'.ids <=> \E o \in dialog.list : IdOf(o) = i
    <3>1. \A i : i \in Live'.ids <=> i \in Ids /\ routes'[i] # NoObj
      BY DEF Live
    <3>2. \A o \in dialog.list : o # NoObj
      BY <1>4, RoutingAssumption
    <3> QED
      BY <1>4, <1>7, <3>1, <3>2
  <2>2. \A i : i \in Live'.on <=> i \in Live'.ids /\ heap'[routes'[i]].enabled
    BY DEF Live
  <2>3. \A i : i \in Live'.on <=> \E o \in Enabled(dialog.list) : IdOf(o) = i
    <3>1. \A o \in dialog.list : heap'[o].enabled <=> o \in Enabled(dialog.list)
      BY <1>6, <1>9 DEF Enabled
    <3>2. Enabled(dialog.list) \subseteq dialog.list
      BY DEF Enabled
    <3> HIDE DEF Live
    <3> QED
      BY <1>7, <2>1, <2>2, <3>1, <3>2
  <2> HIDE DEF Live
  <2> QED
    BY <2>1, <2>3
<1>13. \A o \in dialog.list : h[o] # NoObj
  BY <1>6, RoutingAssumption
<1> QED
  BY <1>4, <1>6, <1>7, <1>8, <1>9, <1>10, <1>11, <1>12, <1>13

\* The rest of OK: the list is in use, and a thread is going to save it.
LEMMA AcceptFillsKeeps ==
  ASSUME RouteInv, AcceptFills
  PROVE  RouteInv'
<1>1. PICK k : k = [op |-> opens, pc |-> "start", save |-> ToSave, left |-> {}, drop |-> {}]
  OBVIOUS
<1>2. PICK m : m = Cardinality(Added)
  OBVIOUS
<1>3. /\ ui = "filling"
      /\ max_route_chain_id' = max_route_chain_id + m /\ max_route_chain_id' <= MaxId
      /\ disk' = [ids |-> disk.ids \cup {IdOf(o) : o \in Added},
                  on |-> disk.on \cup {IdOf(o) : o \in Enabled(Added)}]
      /\ jobs' = jobs \cup {k}
      /\ dialog' = Closed
      /\ \/ /\ dialog.route = NoObj /\ ui' = "dead" /\ UNCHANGED <<current_route_id, messages>>
         \/ /\ dialog.route # NoObj /\ ui' = "free"
            /\ current_route_id' = IdOf(dialog.route) /\ messages' = TRUE
      /\ wanted' = [ids |-> (wanted.ids \ dialog.had) \cup {IdOf(o) : o \in dialog.list},
                    on |-> {IdOf(o) : o \in Enabled(dialog.list)}]
      /\ leaked' = {} /\ hasty' = dialog.pending /\ torn' = FALSE
      /\ UNCHANGED <<savedCurrent, locker, opens, ops, restarts, overtaken, stale>>
  BY <1>1, <1>2, Zenon DEF AcceptFills
<1>4. RoutingTypeOK /\ ObjectsAre /\ Bounds /\ WindowIs /\ PlaceIs /\ Threads /\ CurrentIs
  BY DEF RouteInv
<1>5. /\ m \in Nat /\ ToSave = dialog.list \ Added /\ Added \subseteq dialog.list
      /\ \A o \in dialog.list :
           /\ o \in Objs /\ IdOf(o) \in Ids /\ IdOf(o) <= max_route_chain_id + m
           /\ IdOf(o) \notin overtaken
           /\ o \in Added => max_route_chain_id < IdOf(o)
           /\ o \in ToSave => IdOf(o) = heap[o].id /\ IdOf(o) <= max_route_chain_id
      /\ \A o, p \in dialog.list : IdOf(o) = IdOf(p) => o = p
  <2>1. max_route_chain_id + Cardinality(Added) <= MaxId
    BY <1>2, <1>3
  <2>2. ToSave = dialog.list \ Added /\ Added \subseteq dialog.list
    BY DEF ToSave, Added
  <2> HIDE DEF Added
  <2> QED
    BY <1>2, <1>3, <2>1, <2>2, IdsAre
<1>6. /\ \A o \in dialog.list :
           /\ routes'[IdOf(o)] = o /\ heap'[o] \in Profiles /\ heap'[o] # NoObj
           /\ heap'[o].id = IdOf(o) /\ heap'[o].enabled = heap[o].enabled
      /\ routes' \in [Ids -> Objs \cup {NoObj}]
      /\ \A i \in Ids : routes'[i] # NoObj => routes'[i] \in dialog.list /\ IdOf(routes'[i]) = i
      /\ Live'.ids = {IdOf(o) : o \in dialog.list}
      /\ Live'.on = {IdOf(o) : o \in Enabled(dialog.list)}
      /\ heap' \in [Objs -> Profiles \cup {NoObj}]
      /\ \A o \in Objs : heap'[o] # NoObj =>
           heap[o] # NoObj /\ (heap'[o] = heap[o] \/ o \in dialog.list)
      /\ \A j \in jobs : \A o \in j.save : heap'[o] = heap[o]
  BY FillsIs
<1>7. /\ k.op = opens /\ k.pc = "start" /\ k.save = ToSave /\ k.left = {} /\ k.drop = {}
      /\ k \in Job
  BY <1>1, <1>4, <1>5 DEF Job, RoutingTypeOK
<1>8. /\ max_route_chain_id \in Nat /\ MaxId \in Nat /\ max_route_chain_id' \in 0 .. MaxId
  BY <1>3, <1>4, <1>5, RoutingAssumption DEF RoutingTypeOK
<1>9. Enabled(dialog.list) \subseteq dialog.list /\ Enabled(Added) \subseteq Added
  BY DEF Enabled
<1>10. PICK l, a, on, an : /\ l = {IdOf(o) : o \in dialog.list} /\ a = {IdOf(o) : o \in Added}
                           /\ on = {IdOf(o) : o \in Enabled(dialog.list)}
                           /\ an = {IdOf(o) : o \in Enabled(Added)}
  OBVIOUS
<1>11. /\ l \subseteq Ids /\ a \subseteq l /\ on \subseteq l /\ an \subseteq a
       /\ \A i \in l : i \notin overtaken /\ i <= max_route_chain_id'
       /\ \A i \in a : max_route_chain_id < i
       /\ \A i \in a : i \in an <=> i \in on
  <2>1. \A o \in Added : o \in Enabled(Added) <=> o \in Enabled(dialog.list)
    BY <1>5 DEF Enabled
  <2> HIDE DEF Added
  <2> QED
    BY <1>3, <1>5, <1>9, <1>10, <2>1
<1>12. /\ disk' = [ids |-> disk.ids \cup a, on |-> disk.on \cup an]
       /\ wanted' = [ids |-> (wanted.ids \ dialog.had) \cup l, on |-> on]
       /\ Live'.ids = l /\ Live'.on = on
  BY <1>3, <1>6, <1>10
<1>13. RoutingTypeOK'
  <2>1. disk' \in View /\ wanted' \in View
    BY <1>4, <1>11, <1>12 DEF View, RoutingTypeOK
  <2>2. dialog' \in Windows /\ jobs' \in SUBSET Job
    BY <1>3, <1>4, <1>7 DEF Windows, Closed, RoutingTypeOK
  <2>3. ui' \in {"free", "filling", "dead"} /\ messages' \in BOOLEAN
        /\ current_route_id' \in Ids \cup {Unsaved} /\ hasty' \in BOOLEAN
    <3>1. hasty' = dialog.pending /\ dialog.pending \in BOOLEAN
      BY <1>3, <1>4 DEF RoutingTypeOK, Windows
    <3>2. CASE dialog.route = NoObj
      <4>1. ui' = "dead" /\ UNCHANGED <<current_route_id, messages>>
        BY <1>3, <3>2, Zenon
      <4> QED
        BY <1>4, <3>1, <4>1 DEF RoutingTypeOK
    <3>3. CASE dialog.route # NoObj
      <4>1. ui' = "free" /\ current_route_id' = IdOf(dialog.route) /\ messages' = TRUE
        BY <1>3, <3>3, Zenon
      <4>2. IdOf(dialog.route) \in Ids
        BY <1>4, <1>5, <3>3 DEF WindowIs
      <4> QED
        BY <3>1, <4>1, <4>2
    <3> QED
      BY <3>2, <3>3
  <2>4. locker' = locker /\ opens' = opens /\ ops' = ops /\ restarts' = restarts
        /\ overtaken' = overtaken /\ stale' = stale /\ savedCurrent' = savedCurrent
        /\ leaked' = {} /\ torn' = FALSE
    BY <1>3
  <2>5. heap' \in [Objs -> Profiles \cup {NoObj}] /\ routes' \in [Ids -> Objs \cup {NoObj}]
    BY <1>6
  <2> QED
    BY <1>4, <1>8, <2>1, <2>2, <2>3, <2>4, <2>5 DEF RoutingTypeOK
<1>14. ObjectsAre'
  <2>1. \A j \in jobs : \A o \in j.save : o # NoObj => heap'[o] # NoObj
    BY <1>4, <1>6 DEF ObjectsAre, Refs
  <2>2. \A o \in Refs' : o # NoObj => heap'[o] # NoObj
    BY <1>3, <1>5, <1>6, <1>7, <2>1 DEF Refs, Closed
  <2>3. \A i \in Ids : routes'[i] # NoObj => heap'[routes'[i]].id = i
    BY <1>6
  <2>4. \A j \in jobs' : \A o \in j.save : heap'[o].id # Unsaved
    <3>1. \A o \in ToSave : heap'[o].id # Unsaved
      BY <1>5, <1>6 DEF Added
    <3> QED
      BY <1>3, <1>4, <1>6, <1>7, <3>1 DEF ObjectsAre
  <2> QED
    BY <2>2, <2>3, <2>4 DEF ObjectsAre
<1>15. Bounds'
  <2>1. ASSUME NEW n \in Nat, n <= max_route_chain_id PROVE n <= max_route_chain_id'
    BY <1>3, <1>5, <1>8, <2>1
  <2>2. ASSUME NEW o \in Objs, heap'[o] # NoObj PROVE heap'[o].id <= max_route_chain_id'
    <3>1. CASE o \in dialog.list
      BY <1>3, <1>5, <1>6, <3>1
    <3>2. CASE o \notin dialog.list
      <4>1. heap'[o] = heap[o] /\ heap[o] # NoObj
        BY <1>6, <2>2, <3>2
      <4>2. heap[o].id \in Nat /\ heap[o].id <= max_route_chain_id
        <5>1. heap[o] \in Profiles
          BY <1>4, <4>1 DEF RoutingTypeOK
        <5> QED
          BY <1>4, <4>1, <5>1 DEF Bounds, Profiles, Ids, Unsaved
      <4> QED
        BY <2>1, <4>1, <4>2
    <3> QED
      BY <3>1, <3>2
  <2>3. \A i \in disk.ids \cup overtaken : i \in Nat /\ i <= max_route_chain_id'
    BY <1>4, <2>1 DEF Bounds, RoutingTypeOK, View, Ids
  <2>4. \A j \in jobs : \A i \in j.left \cup j.drop : i \in Nat /\ i <= max_route_chain_id'
    BY <1>4, <2>1 DEF Bounds, RoutingTypeOK, Job, Ids
  <2>5. disk'.ids = disk.ids \cup a
    BY <1>12
  <2> QED
    BY <1>3, <1>7, <1>11, <2>2, <2>3, <2>4, <2>5 DEF Bounds
<1>16. \A i \in l : /\ routes'[i] \in dialog.list /\ IdOf(routes'[i]) = i
                    /\ heap'[routes'[i]].enabled <=> i \in on
                    /\ routes'[i] \in ToSave \/ i \in a
                    /\ i <= max_route_chain_id => routes'[i] \in ToSave
  <2> SUFFICES ASSUME NEW o \in dialog.list
               PROVE  LET i == IdOf(o) IN
                      /\ routes'[i] \in dialog.list /\ IdOf(routes'[i]) = i
                      /\ heap'[routes'[i]].enabled <=> i \in on
                      /\ routes'[i] \in ToSave \/ i \in a
                      /\ i <= max_route_chain_id => routes'[i] \in ToSave
    BY <1>10
  <2>1. routes'[IdOf(o)] = o
    BY <1>6
  <2>2. heap'[o].enabled <=> IdOf(o) \in on
    <3>1. heap[o].enabled <=> o \in Enabled(dialog.list)
      BY DEF Enabled
    <3> QED
      BY <1>5, <1>6, <1>9, <1>10, <3>1
  <2>3. o \in ToSave \/ o \in Added
    BY <1>5
  <2>4. o \in Added => IdOf(o) \in a /\ ~(IdOf(o) <= max_route_chain_id)
    BY <1>5, <1>8, <1>10 DEF Ids
  <2> QED
    BY <2>1, <2>2, <2>3, <2>4
<1>17. WindowIs' /\ PlaceIs'
  <2>1. WindowIs'
    BY <1>3 DEF WindowIs, Closed
  <2>2. ui' = "dead" => hasty'
    BY <1>3, <1>4 DEF WindowIs, PlaceIs, RouteOk
  <2> QED
    BY <1>3, <2>1, <2>2 DEF PlaceIs, Closed
<1>18. Threads'
  <2>1. dialog.open /\ opens \in Nat
    BY <1>3, <1>4 DEF PlaceIs, RoutingTypeOK
  <2>2. \A j \in jobs : j.op \in 1 .. opens /\ j.op # opens
    BY <1>4, <2>1 DEF Threads, Newest
  <2>3. opens \in 1 .. opens
    BY <1>4, <2>1 DEF Threads, Newest
  <2> QED
    BY <1>3, <1>4, <1>7, <2>2, <2>3 DEF Threads, Closed
<1>19. ui' = "free" => Agreement'
  <2>1. Live'.ids = wanted'.ids \ overtaken'
    BY <1>3, <1>4, <1>11, <1>12 DEF PlaceIs
  <2>2. \A i \in l : i \in wanted'.on <=> heap'[routes'[i]].enabled
    BY <1>12, <1>16
  <2>3. \A i \in l : Pending(i)' \/ OnDisk(i)'
    <3> SUFFICES ASSUME NEW i \in l, i \in a PROVE OnDisk(i)'
      BY <1>3, <1>7, <1>16 DEF Pending
    <3>1. i \notin disk.on
      BY <1>4, <1>8, <1>11 DEF Bounds, RoutingTypeOK, View, Ids
    <3> QED
      BY <1>11, <1>12, <3>1 DEF OnDisk
  <2>4. \A j \in jobs' : \A i \in j.drop : i \in l => Restored(i)'
    <3>1. \A j \in jobs' : \A i \in j.drop : i <= max_route_chain_id
      BY <1>3, <1>4, <1>7 DEF Bounds
    <3> QED
      BY <1>3, <1>7, <1>16, <3>1 DEF Restored
  <2>5. \A i : WillGo(i)'
    BY <1>3, <1>7 DEF WillGo
  <2> HIDE DEF Live
  <2> QED
    BY <1>12, <2>1, <2>2, <2>3, <2>4, <2>5 DEF Agreement
<1>20. CurrentIs'
  <2>1. messages' \/ savedCurrent' = current_route_id'
    BY <1>3, <1>4 DEF CurrentIs
  <2>2. ASSUME ui' = "free"
        PROVE  /\ current_route_id' \in Live'.ids /\ Live'.on # {}
               /\ current_route_id' \in Live'.on \/ hasty'
    <3>1. dialog.route \in dialog.list /\ current_route_id' = IdOf(dialog.route)
      BY <1>3, <1>4, <2>2 DEF WindowIs
    <3>2. Enabled(dialog.list) # {}
      BY <1>3, <1>4 DEF PlaceIs
    <3>3. ~dialog.pending => dialog.route \in Enabled(dialog.list)
      BY <1>3, <1>4, <2>2, <3>1 DEF WindowIs, PlaceIs, RouteOk, Enabled
    <3> HIDE DEF Live
    <3> QED
      BY <1>3, <1>10, <1>12, <3>1, <3>2, <3>3
  <2> HIDE DEF Live
  <2> QED
    BY <2>1, <2>2 DEF CurrentIs
<1> QED
  BY <1>13, <1>14, <1>15, <1>17, <1>18, <1>19, <1>20 DEF RouteInv

-----------------------------------------------------------------------------
(* The thread that saves.                                                  *)

\* What the threads of a step must have for the profiles to be right on disk.
DiskOk(js, d, stl) ==
  /\ \A i \in Live.ids :
       \/ \E j \in js : routes[i] \in j.save
       \/ i \in d.ids /\ (i \notin Doubtful \cup stl => (i \in d.on <=> i \in wanted.on))
  /\ \A k \in js : \A i \in k.drop : i \in Live.ids =>
       \E j \in js : j.pc = "start" /\ routes[i] \in j.save
  /\ \A i \in d.ids \ Live.ids :
       \E j \in js : j.pc \in {"start", "save"} \/ i \in j.left \cup j.drop

\* A step of thread j, which becomes k, keeps the invariant.
LEMMA JobFrame ==
  ASSUME RouteInv, UNCHANGED jobRest, Collect(heap), NEW j \in jobs, NEW k \in Job,
         \/ jobs' = (jobs \ {j}) \cup {k}
         \/ jobs' = jobs \ {j},
         k.op = j.op, k.save \subseteq j.save,
         \A i \in k.left \cup k.drop : i \in j.left \cup j.drop \/ i \in disk.ids,
         k.pc # "check" => k.left = {} /\ k.drop = {},
         k.pc = "check" => k.save = {},
         k.pc # "start" /\ (\A q \in jobs \ {j} : q.pc = "start"),
         k \in jobs' => locker' = j.op, locker' \in Nat,
         disk' \in View, stale' \in SUBSET Ids,
         \A i \in disk'.ids : i \in disk.ids \/ \E o \in j.save : heap[o].id = i,
         ui = "free" => DiskOk(jobs', disk', stale')
  PROVE  RouteInv'
<1>1. RoutingTypeOK /\ ObjectsAre /\ Bounds /\ WindowIs /\ PlaceIs /\ Threads /\ CurrentIs
  BY DEF RouteInv
<1>2. /\ routes' = routes /\ max_route_chain_id' = max_route_chain_id
      /\ current_route_id' = current_route_id /\ savedCurrent' = savedCurrent
      /\ dialog' = dialog /\ ui' = ui /\ messages' = messages /\ opens' = opens /\ ops' = ops
      /\ restarts' = restarts /\ wanted' = wanted /\ overtaken' = overtaken /\ leaked' = leaked
      /\ hasty' = hasty /\ torn' = torn
  BY DEF jobRest, storeVars
<1>3. /\ heap' \in [Objs -> Profiles \cup {NoObj}]
      /\ \A o \in Objs : heap'[o] # NoObj => heap'[o] = heap[o]
      /\ \A o \in Objs : o \in Refs' => heap'[o] = heap[o]
  <2>1. heap \in [Objs -> Profiles \cup {NoObj}]
    BY <1>1 DEF RoutingTypeOK
  <2> QED
    BY <2>1, Collected
<1>4. jobs' \subseteq Job /\ \A q \in jobs' : q \in jobs \ {j} \/ q = k
  BY <1>1 DEF RoutingTypeOK
<1>5. \A q \in jobs' : \E p \in jobs : q.save \subseteq p.save /\ q.op = p.op
  BY <1>4
<1>6. /\ \A i \in Ids : routes[i] # NoObj => heap'[routes[i]] = heap[routes[i]]
      /\ \A q \in jobs' : \A o \in q.save : heap'[o] = heap[o]
      /\ \A o \in dialog.list : heap'[o] = heap[o]
      /\ dialog.route # NoObj => heap'[dialog.route] = heap[dialog.route]
  <2>1. \A i \in Ids : routes[i] \in Objs \cup {NoObj}
    BY <1>1 DEF RoutingTypeOK
  <2>2. \A q \in jobs' : q.save \subseteq Objs
    BY <1>4 DEF Job
  <2>3. dialog.list \subseteq Objs /\ dialog.route \in Objs \cup {NoObj}
    BY <1>1 DEF Windows, RoutingTypeOK
  <2> QED
    BY <1>2, <1>3, <2>1, <2>2, <2>3 DEF Refs
<1>7. RoutingTypeOK'
  BY <1>1, <1>2, <1>3, <1>4 DEF RoutingTypeOK
<1>8. ObjectsAre'
  <2>1. \A o \in Refs' : o \in Refs
    BY <1>2, <1>5 DEF Refs
  <2>2. \A o \in Refs' : o # NoObj => heap'[o] = heap[o]
    BY <1>2, <1>6 DEF Refs
  <2>3. \A o \in Refs' : o # NoObj => heap'[o] # NoObj
    BY <1>1, <2>1, <2>2 DEF ObjectsAre
  <2>4. \A q \in jobs' : \A o \in q.save : heap'[o].id # Unsaved
    BY <1>1, <1>5, <1>6 DEF ObjectsAre
  <2> QED
    BY <1>1, <1>2, <1>6, <2>3, <2>4 DEF ObjectsAre
<1>9. Bounds'
  <2>1. \A o \in j.save : heap[o].id <= max_route_chain_id
    BY <1>1, RoutingAssumption DEF Bounds, ObjectsAre, Refs, RoutingTypeOK, Job
  <2>2. \A i \in disk'.ids : i <= max_route_chain_id
    BY <1>1, <2>1 DEF Bounds
  <2>3. \A i \in k.left \cup k.drop : i <= max_route_chain_id
    BY <1>1 DEF Bounds
  <2> QED
    BY <1>1, <1>2, <1>3, <1>4, <2>2, <2>3 DEF Bounds
<1>10. WindowIs' /\ PlaceIs'
  <2>1. dialog.open /\ ~dialog.pending => RouteOk'
    BY <1>1, <1>2, <1>6 DEF WindowIs, RouteOk, Enabled
  <2>2. WindowIs'
    BY <1>1, <1>2, <1>6, <2>1 DEF WindowIs
  <2>3. Enabled(dialog.list)' = Enabled(dialog.list)
    BY <1>2, <1>6 DEF Enabled
  <2>4. Live'.ids = Live.ids
    BY <1>2 DEF Live
  <2> HIDE DEF Live
  <2> QED
    BY <1>1, <1>2, <2>2, <2>3, <2>4 DEF PlaceIs
<1>11. Threads'
  <2>1. dialog.open => Newest(opens)'
    BY <1>1, <1>2, <1>5 DEF Threads, Newest
  <2>2. \A q \in jobs' : q.op \in 1 .. opens
    BY <1>1, <1>5 DEF Threads
  <2>3. \A q, p \in jobs' : q.op = p.op => q = p
    BY <1>1, <1>4 DEF Threads
  <2>4. \A q \in jobs' : q.pc # "start" => q = k
    BY <1>4
  <2>5. \A q \in jobs' : /\ q.pc # "start" => locker' = q.op
                         /\ q.pc # "check" => q.left = {} /\ q.drop = {}
                         /\ q.pc = "check" => q.save = {}
    BY <1>1, <1>4, <2>4 DEF Threads
  <2> QED
    BY <1>2, <2>1, <2>2, <2>3, <2>5 DEF Threads
<1>12. /\ Live'.ids = Live.ids /\ Live'.on = Live.on
       /\ \A i \in Live.ids : i \in Ids /\ routes[i] # NoObj
  BY <1>2, <1>6 DEF Live
<1> HIDE DEF Live
<1>13. Doubtful' = Doubtful
  BY <1>2 DEF Doubtful
<1>14. ui' = "free" => Agreement'
  <2> SUFFICES ASSUME ui = "free" PROVE Agreement'
    BY <1>2
  <2>1. Agreement
    BY DEF RouteInv
  <2>2. \A i \in Live.ids \ Doubtful : i \in wanted.on <=> heap'[routes[i]].enabled
    BY <1>6, <1>12, <2>1 DEF Agreement
  <2>3. \A i \in Live.ids : Pending(i)' \/ OnDisk(i)'
    BY <1>2, <1>13 DEF DiskOk, Pending, OnDisk
  <2>4. \A q \in jobs' : \A i \in q.drop : i \in Live.ids => Restored(i)'
    BY <1>2 DEF DiskOk, Restored
  <2>5. \A i \in disk'.ids \ Live.ids : WillGo(i)'
    BY DEF DiskOk, WillGo
  <2> QED
    BY <1>2, <1>12, <1>13, <2>1, <2>2, <2>3, <2>4, <2>5 DEF Agreement
<1>15. CurrentIs'
  BY <1>1, <1>2, <1>12, <1>13 DEF CurrentIs
<1> QED
  BY <1>7, <1>8, <1>9, <1>10, <1>11, <1>14, <1>15 DEF RouteInv

\* Beside a thread that has the lock, or when nobody has it, all threads wait.
LEMMA OthersWait ==
  ASSUME RouteInv, NEW j \in jobs, j.pc # "start" \/ locker = 0
  PROVE  /\ \A q \in jobs \ {j} : q.pc = "start"
         /\ j \in Job /\ j.op \in Nat /\ j.op # 0 /\ (j.pc # "start" => locker = j.op)
         /\ j.pc # "check" => j.left = {} /\ j.drop = {}
         /\ j.pc = "check" => j.save = {}
         /\ locker \in Nat /\ disk \in View /\ stale \in SUBSET Ids
<1>1. RoutingTypeOK /\ Threads
  BY DEF RouteInv
<1>2. \A q \in jobs : q.op \in Nat /\ q.op # 0 /\ (q.pc # "start" => locker = q.op)
  BY <1>1 DEF Threads, RoutingTypeOK
<1>3. \A q \in jobs \ {j} : q.pc = "start"
  BY <1>1, <1>2 DEF Threads
<1> QED
  BY <1>1, <1>2, <1>3 DEF Threads, RoutingTypeOK

\* What the invariant says of the threads and the disk.
LEMMA DiskIs ==
  ASSUME RouteInv, ui = "free"
  PROVE  /\ DiskOk(jobs, disk, stale)
         /\ \A i \in Live.ids \ Doubtful : i \in wanted.on <=> heap[routes[i]].enabled
<1>1. Agreement
  BY DEF RouteInv
<1> HIDE DEF Live, Doubtful
<1> QED
  BY <1>1 DEF Agreement, DiskOk, Pending, OnDisk, Restored, WillGo

\* The lock goes to one thread.
LEMMA JobLocksKeeps ==
  ASSUME RouteInv, NEW j \in jobs, JobLocks(j)
  PROVE  RouteInv'
<1>1. PICK k : k = [j EXCEPT !.pc = "save"]
  OBVIOUS
<1>2. /\ j.pc = "start" /\ locker = 0 /\ locker' = j.op
      /\ jobs' = (jobs \ {j}) \cup {k}
      /\ UNCHANGED <<jobRest, disk, stale>> /\ Collect(heap)
  BY <1>1 DEF JobLocks, Becomes
<1>3. /\ \A q \in jobs \ {j} : q.pc = "start"
      /\ j \in Job /\ j.op \in Nat /\ j.left = {} /\ j.drop = {}
      /\ locker \in Nat /\ disk \in View /\ stale \in SUBSET Ids
  BY <1>2, OthersWait
<1>4. /\ k \in Job /\ k.op = j.op /\ k.pc = "save" /\ k.save = j.save
      /\ k.left = {} /\ k.drop = {}
  BY <1>1, <1>3 DEF Job
<1>5. \A q \in jobs : q.drop = {}
  BY <1>3, RoutingAssumption DEF RouteInv, Threads
<1>6. ASSUME ui = "free" PROVE DiskOk(jobs', disk', stale')
  <2>1. DiskOk(jobs, disk, stale)
    BY <1>6, DiskIs
  <2> HIDE DEF Live, Doubtful
  <2> QED
    BY <1>2, <1>4, <1>5, <2>1 DEF DiskOk
<1> QED
  BY <1>2, <1>3, <1>4, <1>6, JobFrame

\* A record is written; if its object is out of use, the record is stale.
LEMMA JobSavesKeeps ==
  ASSUME RouteInv, NEW j \in jobs, NEW o \in Objs, JobSaves(j, o)
  PROVE  RouteInv'
<1>1. PICK k, i : k = [j EXCEPT !.save = @ \ {o}] /\ i = heap[o].id
  OBVIOUS
<1>2. /\ j.pc = "save" /\ o \in j.save
      /\ disk' = Saved(disk, i, heap[o].enabled)
      /\ stale' = IF routes[i] = o THEN stale \ {i} ELSE stale \cup {i}
      /\ jobs' = (jobs \ {j}) \cup {k}
      /\ UNCHANGED <<jobRest, locker>> /\ Collect(heap)
  BY <1>1 DEF JobSaves, Becomes
<1>3. /\ \A q \in jobs \ {j} : q.pc = "start"
      /\ j \in Job /\ j.op \in Nat /\ j.left = {} /\ j.drop = {} /\ locker = j.op
      /\ locker \in Nat /\ disk \in View /\ stale \in SUBSET Ids
  BY <1>2, OthersWait
<1>4. /\ k \in Job /\ k.op = j.op /\ k.pc = "save" /\ k.save = j.save \ {o}
      /\ k.left = {} /\ k.drop = {}
  BY <1>1, <1>2, <1>3 DEF Job
<1>5. i \in Ids /\ heap[o].enabled \in BOOLEAN
  <2>1. heap[o] # NoObj /\ heap[o].id # Unsaved
    BY <1>2, RoutingAssumption DEF RouteInv, ObjectsAre, Refs
  <2>2. heap[o] \in Profiles
    BY <2>1 DEF RouteInv, RoutingTypeOK
  <2> QED
    BY <1>1, <2>1, <2>2 DEF Profiles
<1>6. /\ disk' \in View /\ disk'.ids = disk.ids \cup {i}
      /\ i \in disk'.on <=> heap[o].enabled
      /\ \A n : n # i => (n \in disk'.on <=> n \in disk.on)
  <2>1. disk' = [ids |-> disk.ids \cup {i},
                 on |-> IF heap[o].enabled THEN disk.on \cup {i} ELSE disk.on \ {i}]
    BY <1>2 DEF Saved
  <2> QED
    BY <1>3, <1>5, <2>1 DEF View
<1>7. stale' \in SUBSET Ids
  BY <1>2, <1>3, <1>5
<1>8. ASSUME ui = "free" PROVE DiskOk(jobs', disk', stale')
  <2>1. /\ DiskOk(jobs, disk, stale)
        /\ \A n \in Live.ids \ Doubtful : n \in wanted.on <=> heap[routes[n]].enabled
    BY <1>8, DiskIs
  <2>2. \A n \in Live.ids : n \in Ids /\ (routes[n] = o => n = i)
    BY <1>1, RoutingAssumption DEF Live, RouteInv, ObjectsAre
  <2> HIDE DEF Live, Doubtful
  <2>3. ASSUME NEW n \in Live.ids
        PROVE  \/ \E q \in jobs' : routes[n] \in q.save
               \/ /\ n \in disk'.ids
                  /\ n \notin Doubtful \cup stale' => (n \in disk'.on <=> n \in wanted.on)
    <3>1. CASE routes[n] = o
      BY <1>2, <1>6, <2>1, <2>2, <3>1
    <3>2. CASE routes[n] # o
      <4>1. \A q \in jobs : routes[n] \in q.save => \E p \in jobs' : routes[n] \in p.save
        BY <1>2, <1>4, <3>2
      <4>2. CASE n = i
        BY <1>2, <1>6, <3>2, <4>2
      <4>3. CASE n # i
        <5>1. n \in stale' <=> n \in stale
          BY <1>2, <4>3
        <5> QED
          BY <1>6, <2>1, <4>1, <4>3, <5>1 DEF DiskOk
      <4> QED
        BY <4>2, <4>3
    <3> QED
      BY <3>1, <3>2
  <2>4. \A q \in jobs' : q.drop = {}
    BY <1>2, <1>3, <1>4, RoutingAssumption DEF RouteInv, Threads
  <2>5. \A n : \E q \in jobs' : q.pc \in {"start", "save"} \/ n \in q.left \cup q.drop
    BY <1>2, <1>4
  <2> QED
    BY <2>3, <2>4, <2>5 DEF DiskOk
<1>9. \A n \in disk'.ids : n \in disk.ids \/ \E p \in j.save : heap[p].id = n
  BY <1>1, <1>2, <1>6
<1> QED
  BY <1>2, <1>3, <1>4, <1>6, <1>7, <1>8, <1>9, JobFrame

\* The thread has saved its list, and takes the records for its scan.
LEMMA JobQueriesKeeps ==
  ASSUME RouteInv, NEW j \in jobs, JobQueries(j)
  PROVE  RouteInv'
<1>1. PICK k : k = [j EXCEPT !.pc = "check", !.left = disk.ids]
  OBVIOUS
<1>2. /\ j.pc = "save" /\ j.save = {} /\ jobs' = (jobs \ {j}) \cup {k}
      /\ UNCHANGED <<jobRest, disk, stale, locker>> /\ Collect(heap)
  BY <1>1 DEF JobQueries, Becomes
<1>3. /\ \A q \in jobs \ {j} : q.pc = "start"
      /\ j \in Job /\ j.op \in Nat /\ j.left = {} /\ j.drop = {} /\ locker = j.op
      /\ locker \in Nat /\ disk \in View /\ stale \in SUBSET Ids
  BY <1>2, OthersWait
<1>4. /\ k \in Job /\ k.op = j.op /\ k.pc = "check" /\ k.save = {}
      /\ k.left = disk.ids /\ k.drop = {}
  BY <1>1, <1>2, <1>3 DEF Job, View
<1>5. \A q \in jobs' : q.drop = {}
  BY <1>2, <1>3, <1>4, RoutingAssumption DEF RouteInv, Threads
<1>6. ASSUME ui = "free" PROVE DiskOk(jobs', disk', stale')
  <2>1. DiskOk(jobs, disk, stale)
    BY <1>6, DiskIs
  <2> HIDE DEF Live, Doubtful
  <2> QED
    BY <1>2, <1>4, <1>5, <2>1 DEF DiskOk
<1> QED
  BY <1>2, <1>3, <1>4, <1>6, JobFrame

\* A record is dropped only if routes does not have it when the thread looks.
LEMMA JobChecksKeeps ==
  ASSUME RouteInv, NEW j \in jobs, JobChecks(j)
  PROVE  RouteInv'
<1>1. PICK m, k : m = Min(j.left) /\ k = [j EXCEPT !.left = @ \ {m}, !.drop = {m} \ Live.ids]
  OBVIOUS
<1>2. /\ j.pc = "check" /\ j.drop = {} /\ j.left # {} /\ jobs' = (jobs \ {j}) \cup {k}
      /\ UNCHANGED <<jobRest, disk, stale, locker>> /\ Collect(heap)
  <2>1. k = [j EXCEPT !.left = @ \ {Min(@)}, !.drop = {Min(j.left)} \ Live.ids]
    BY <1>1
  <2> QED
    BY <2>1 DEF JobChecks, Becomes
<1>3. /\ \A q \in jobs \ {j} : q.pc = "start"
      /\ j \in Job /\ j.op \in Nat /\ j.save = {} /\ locker = j.op
      /\ locker \in Nat /\ disk \in View /\ stale \in SUBSET Ids
  BY <1>2, OthersWait
<1>4. m \in j.left /\ m \in Ids
  <2>1. j.left \in SUBSET Nat /\ j.left \subseteq Ids
    BY <1>3 DEF Job, Ids
  <2> QED
    BY <1>1, <1>2, <2>1, MinIn
<1>5. /\ k \in Job /\ k.op = j.op /\ k.pc = "check" /\ k.save = {}
      /\ k.left = j.left \ {m} /\ k.drop = {m} \ Live.ids
  <2> HIDE DEF Live
  <2> QED
    BY <1>1, <1>2, <1>3, <1>4 DEF Job
<1>6. \A q \in jobs' : \A i \in q.drop : i \notin Live.ids
  BY <1>2, <1>3, <1>5, RoutingAssumption DEF RouteInv, Threads
<1>7. ASSUME ui = "free" PROVE DiskOk(jobs', disk', stale')
  <2>1. DiskOk(jobs, disk, stale)
    BY <1>7, DiskIs
  <2> HIDE DEF Live, Doubtful
  <2>2. \A i \in Live.ids :
          (\E q \in jobs : routes[i] \in q.save) => \E q \in jobs' : routes[i] \in q.save
    BY <1>2, <1>3
  <2>3. \A i \in disk.ids \ Live.ids :
          (\E q \in jobs : q.pc \in {"start", "save"} \/ i \in q.left \cup q.drop) =>
          \E q \in jobs' : q.pc \in {"start", "save"} \/ i \in q.left \cup q.drop
    BY <1>2, <1>5
  <2> QED
    BY <1>2, <1>6, <2>1, <2>2, <2>3 DEF DiskOk
<1>8. \A i \in k.left \cup k.drop : i \in j.left \cup j.drop
  BY <1>4, <1>5
<1> QED
  BY <1>2, <1>3, <1>5, <1>7, <1>8, JobFrame

\* A record that has come into use since is one a waiting thread will save again.
LEMMA JobDropsKeeps ==
  ASSUME RouteInv, NEW j \in jobs, JobDrops(j)
  PROVE  RouteInv'
<1>1. PICK k : k = [j EXCEPT !.drop = {}]
  OBVIOUS
<1>2. /\ j.pc = "check" /\ jobs' = (jobs \ {j}) \cup {k}
      /\ disk' = [ids |-> disk.ids \ j.drop, on |-> disk.on \ j.drop]
      /\ stale' = stale \ j.drop
      /\ UNCHANGED <<jobRest, locker>> /\ Collect(heap)
  BY <1>1 DEF JobDrops, Becomes, Dropped
<1>3. /\ \A q \in jobs \ {j} : q.pc = "start"
      /\ j \in Job /\ j.op \in Nat /\ j.save = {} /\ locker = j.op
      /\ locker \in Nat /\ disk \in View /\ stale \in SUBSET Ids
  BY <1>2, OthersWait
<1>4. /\ k \in Job /\ k.op = j.op /\ k.pc = "check" /\ k.save = {}
      /\ k.left = j.left /\ k.drop = {}
  BY <1>1, <1>2, <1>3 DEF Job
<1>5. /\ disk' \in View /\ stale' \in SUBSET Ids
      /\ disk'.ids = disk.ids \ j.drop /\ disk'.on = disk.on \ j.drop
  BY <1>2, <1>3 DEF View
<1>6. \A q \in jobs' : q.drop = {}
  BY <1>2, <1>3, <1>4, RoutingAssumption DEF RouteInv, Threads
<1>7. ASSUME ui = "free" PROVE DiskOk(jobs', disk', stale')
  <2>1. DiskOk(jobs, disk, stale)
    BY <1>7, DiskIs
  <2> HIDE DEF Live, Doubtful
  <2>2. \A i \in Live.ids :
          (\E q \in jobs : routes[i] \in q.save) => \E q \in jobs' : routes[i] \in q.save
    BY <1>2, <1>3
  <2>3. \A i \in Live.ids : i \in j.drop => \E q \in jobs : routes[i] \in q.save
    BY <2>1 DEF DiskOk
  <2>4. \A i \in Live.ids :
          \/ \E q \in jobs' : routes[i] \in q.save
          \/ /\ i \in disk'.ids
             /\ i \notin Doubtful \cup stale' => (i \in disk'.on <=> i \in wanted.on)
    BY <1>2, <1>5, <2>1, <2>2, <2>3 DEF DiskOk
  <2>5. \A i \in disk'.ids \ Live.ids :
          \E q \in jobs' : q.pc \in {"start", "save"} \/ i \in q.left \cup q.drop
    BY <1>2, <1>4, <1>5, <2>1 DEF DiskOk
  <2> QED
    BY <1>6, <2>4, <2>5 DEF DiskOk
<1>8. \A i \in disk'.ids : i \in disk.ids
  BY <1>5
<1> QED
  BY <1>2, <1>3, <1>4, <1>5, <1>7, <1>8, JobFrame

\* The last thread to end leaves no record of a profile that is not in use.
LEMMA JobEndsKeeps ==
  ASSUME RouteInv, NEW j \in jobs, JobEnds(j)
  PROVE  RouteInv'
<1>1. /\ j.pc = "check" /\ j.left = {} /\ j.drop = {} /\ jobs' = jobs \ {j} /\ locker' = 0
      /\ UNCHANGED <<jobRest, disk, stale>> /\ Collect(heap)
  BY DEF JobEnds
<1>2. /\ \A q \in jobs \ {j} : q.pc = "start"
      /\ j \in Job /\ j.save = {}
      /\ disk \in View /\ stale \in SUBSET Ids
  BY <1>1, OthersWait
<1>3. \A q \in jobs' : q.drop = {}
  BY <1>1, <1>2, RoutingAssumption DEF RouteInv, Threads
<1>4. ASSUME ui = "free" PROVE DiskOk(jobs', disk', stale')
  <2>1. DiskOk(jobs, disk, stale)
    BY <1>4, DiskIs
  <2> HIDE DEF Live, Doubtful
  <2> QED
    BY <1>1, <1>2, <1>3, <2>1 DEF DiskOk
<1> QED
  BY <1>1, <1>2, <1>4, JobFrame

-----------------------------------------------------------------------------
(* The rest of the program.                                                *)

\* An imported profile has the next id and is on disk at once.
LEMMA ImportKeeps ==
  ASSUME RouteInv, NEW enabled \in BOOLEAN, Import(enabled)
  PROVE  RouteInv'
<1>1. PICK i, p : i = max_route_chain_id + 1 /\ p = [id |-> i, enabled |-> enabled]
  OBVIOUS
<1>2. PICK n, h : n = Min(Free) /\ h = [heap EXCEPT ![n] = p]
  OBVIOUS
<1>3. /\ ui = "free" /\ ops' = ops + 1 /\ Free # {} /\ max_route_chain_id < MaxId
      /\ UNCHANGED <<current_route_id, savedCurrent, dialog, ui, messages, jobs, locker, opens,
                     restarts, overtaken, leaked, stale, hasty, torn>>
      /\ max_route_chain_id' = i
      /\ disk' = Saved(disk, i, enabled) /\ wanted' = Saved(wanted, i, enabled)
  BY <1>1, Zenon DEF Import, Op
<1>4. routes' = [routes EXCEPT ![i] = n] /\ Collect(h)
  BY <1>1, <1>2, Zenon DEF Import
<1>5. /\ RoutingTypeOK /\ ObjectsAre /\ Bounds /\ WindowIs /\ PlaceIs /\ Threads /\ CurrentIs
      /\ Agreement
  BY <1>3 DEF RouteInv
<1>6. /\ n \in Objs /\ heap[n] = NoObj /\ \A j \in Ids : routes[j] # n
      /\ n \notin dialog.list /\ n # dialog.route
      /\ \A j \in jobs : n \notin j.save
  BY <1>2, <1>3, <1>5, FreeIs
<1>7. /\ max_route_chain_id \in Nat /\ i \in Ids /\ max_route_chain_id < i
      /\ \A m \in Nat : m <= max_route_chain_id => m <= i /\ m # i
  BY <1>1, <1>3, <1>5, RoutingAssumption DEF RoutingTypeOK, Ids
<1>8. /\ h \in [Objs -> Profiles \cup {NoObj}] /\ h[n] = p /\ p \in Profiles /\ p # NoObj
      /\ p.id = i /\ p.enabled = enabled
      /\ \A o \in Objs : o # n => h[o] = heap[o]
  <2>1. p \in Profiles /\ p.id = i /\ p.enabled = enabled
    BY <1>1, <1>7 DEF Profiles
  <2> QED
    BY <1>2, <1>5, <1>6, <2>1, RoutingAssumption DEF RoutingTypeOK
<1>9. /\ routes' \in [Ids -> Objs \cup {NoObj}] /\ routes'[i] = n
      /\ \A m \in Ids : m # i => routes'[m] = routes[m]
  BY <1>4, <1>5, <1>6, <1>7 DEF RoutingTypeOK
<1>10. /\ heap' \in [Objs -> Profiles \cup {NoObj}]
       /\ \A o \in Objs : heap'[o] # NoObj => heap'[o] = h[o]
       /\ \A o \in Objs : o \in Refs' => heap'[o] = h[o]
  BY <1>4, <1>8, Collected
<1>11. n # NoObj /\ NoObj \notin Objs
  BY <1>6, RoutingAssumption
<1>12. /\ Live.ids = {m \in Ids : routes[m] # NoObj}
       /\ Live.on = {m \in Live.ids : heap[routes[m]].enabled}
  BY DEF Live
<1>13. /\ Live'.ids = {m \in Ids : routes'[m] # NoObj}
       /\ Live'.on = {m \in Live'.ids : heap'[routes'[m]].enabled}
  BY DEF Live
<1>14. i \notin Live.ids
  <2>1. ASSUME i \in Live.ids PROVE FALSE
    <3>1. routes[i] \in Objs /\ heap[routes[i]].id = i /\ heap[routes[i]] # NoObj
      BY <1>5, <1>7, <1>12, <2>1 DEF ObjectsAre, Refs, RoutingTypeOK
    <3>2. i <= max_route_chain_id /\ i \in Nat
      BY <1>1, <1>5, <1>7, <3>1 DEF Bounds
    <3> QED
      BY <1>7, <3>2
  <2> QED
    BY <2>1
<1> HIDE DEF Live
<1>15. Live'.ids = Live.ids \cup {i}
  BY <1>7, <1>9, <1>11, <1>12, <1>13
<1>16. /\ \A m \in Live.ids : routes'[m] = routes[m] /\ heap'[routes[m]] = heap[routes[m]] /\ m # i
       /\ heap'[n] = p
       /\ \A j \in jobs : \A o \in j.save : heap'[o] = heap[o]
       /\ \A o \in dialog.list : heap'[o] = heap[o]
       /\ dialog.route # NoObj => heap'[dialog.route] = heap[dialog.route]
  <2>1. \A m \in Ids : routes'[m] \in Refs'
    BY DEF Refs
  <2>2. \A m \in Live.ids : m \in Ids /\ routes[m] \in Objs /\ routes[m] # n /\ m # i
    BY <1>5, <1>6, <1>12, <1>14 DEF RoutingTypeOK
  <2>3. \A j \in jobs : \A o \in j.save : o \in Objs /\ o \in Refs' /\ o # n
    BY <1>3, <1>5, <1>6 DEF RoutingTypeOK, Job, Refs
  <2>4. \A o \in dialog.list : o \in Objs /\ o \in Refs' /\ o # n
    BY <1>3, <1>5, <1>6 DEF RoutingTypeOK, Windows, Refs
  <2>5. dialog.route # NoObj => dialog.route \in Objs /\ dialog.route \in Refs' /\ dialog.route # n
    BY <1>3, <1>5, <1>6 DEF RoutingTypeOK, Windows, Refs
  <2>6. heap'[n] = p
    BY <1>6, <1>7, <1>8, <1>9, <1>10, <2>1
  <2>7. \A m \in Live.ids : routes'[m] = routes[m] /\ heap'[routes[m]] = heap[routes[m]] /\ m # i
    BY <1>8, <1>9, <1>10, <2>1, <2>2
  <2> QED
    BY <1>8, <1>10, <2>3, <2>4, <2>5, <2>6, <2>7
<1>17. /\ disk' \in View /\ disk'.ids = disk.ids \cup {i} /\ wanted' \in View
       /\ wanted'.ids = wanted.ids \cup {i}
       /\ (i \in disk'.on <=> enabled) /\ (i \in wanted'.on <=> enabled)
       /\ \A m : m # i => /\ m \in disk'.on <=> m \in disk.on
                          /\ m \in wanted'.on <=> m \in wanted.on
  <2>1. ASSUME NEW v \in View
        PROVE  /\ Saved(v, i, enabled) \in View /\ Saved(v, i, enabled).ids = v.ids \cup {i}
               /\ i \in Saved(v, i, enabled).on <=> enabled
               /\ \A m : m # i => (m \in Saved(v, i, enabled).on <=> m \in v.on)
    <3>1. PICK w : w = [ids |-> v.ids \cup {i},
                        on |-> IF enabled THEN v.on \cup {i} ELSE v.on \ {i}]
      OBVIOUS
    <3>2. Saved(v, i, enabled) = w
      BY <3>1 DEF Saved
    <3> QED
      BY <1>7, <3>1, <3>2 DEF View
  <2>2. disk \in View /\ wanted \in View
    BY <1>5 DEF RoutingTypeOK
  <2>3. /\ disk' \in View /\ disk'.ids = disk.ids \cup {i} /\ (i \in disk'.on <=> enabled)
        /\ \A m : m # i => (m \in disk'.on <=> m \in disk.on)
    BY <1>3, <2>1, <2>2
  <2>4. /\ wanted' \in View /\ wanted'.ids = wanted.ids \cup {i} /\ (i \in wanted'.on <=> enabled)
        /\ \A m : m # i => (m \in wanted'.on <=> m \in wanted.on)
    BY <1>3, <2>1, <2>2
  <2> QED
    BY <2>3, <2>4
<1>18. RoutingTypeOK'
  <2>1. max_route_chain_id' \in 0 .. MaxId
    BY <1>3, <1>7 DEF Ids
  <2> QED
    BY <1>3, <1>5, <1>9, <1>10, <1>17, <2>1 DEF RoutingTypeOK
<1>19. ObjectsAre'
  <2>1. \A m \in Ids : routes'[m] # NoObj => heap'[routes'[m]] # NoObj /\ heap'[routes'[m]].id = m
    <3> SUFFICES ASSUME NEW m \in Ids, routes'[m] # NoObj
                 PROVE  heap'[routes'[m]] # NoObj /\ heap'[routes'[m]].id = m
      OBVIOUS
    <3>1. CASE m = i
      BY <1>8, <1>9, <1>16, <3>1
    <3>2. CASE m # i
      <4>1. m \in Live.ids /\ heap[routes[m]] # NoObj /\ heap[routes[m]].id = m
        BY <1>5, <1>9, <1>12, <3>2 DEF ObjectsAre, Refs
      <4> QED
        BY <1>16, <4>1
    <3> QED
      BY <3>1, <3>2
  <2>2. \A o \in dialog.list \cup {dialog.route} : o # NoObj => heap'[o] # NoObj
    BY <1>5, <1>16 DEF ObjectsAre, Refs
  <2>3. \A j \in jobs : \A o \in j.save : o # NoObj => heap'[o] # NoObj /\ heap'[o].id # Unsaved
    BY <1>5, <1>16 DEF ObjectsAre, Refs
  <2>4. \A j \in jobs : j.save \subseteq Objs
    BY <1>5 DEF RoutingTypeOK, Job
  <2>5. \A o \in Refs' : o # NoObj => heap'[o] # NoObj
    BY <1>3, <2>1, <2>2, <2>3 DEF Refs
  <2> QED
    BY <1>3, <1>11, <2>1, <2>3, <2>4, <2>5 DEF ObjectsAre
<1>20. Bounds'
  <2>1. \A o \in Objs : heap'[o] # NoObj => heap'[o].id <= i
    <3> SUFFICES ASSUME NEW o \in Objs, heap'[o] # NoObj PROVE heap'[o].id <= i
      OBVIOUS
    <3>1. CASE o = n
      BY <1>7, <1>8, <1>16, <3>1 DEF Ids
    <3>2. CASE o # n
      <4>1. heap'[o] = heap[o] /\ heap[o] # NoObj /\ heap[o] \in Profiles
        BY <1>5, <1>8, <1>10, <3>2 DEF RoutingTypeOK
      <4>2. heap[o].id \in Nat /\ heap[o].id <= max_route_chain_id
        BY <1>5, <4>1 DEF Bounds, Profiles, Ids, Unsaved
      <4> QED
        BY <1>7, <4>1, <4>2
    <3> QED
      BY <3>1, <3>2
  <2>2. \A m \in disk'.ids \cup overtaken : m <= i
    BY <1>5, <1>7, <1>17 DEF Bounds, RoutingTypeOK, View, Ids
  <2>3. \A j \in jobs : \A m \in j.left \cup j.drop : m <= i
    BY <1>5, <1>7 DEF Bounds, RoutingTypeOK, Job, Ids
  <2> QED
    BY <1>3, <2>1, <2>2, <2>3 DEF Bounds
<1>21. WindowIs' /\ PlaceIs'
  <2>1. dialog.open /\ ~dialog.pending => RouteOk'
    BY <1>3, <1>5, <1>16 DEF WindowIs, RouteOk, Enabled
  <2>2. WindowIs'
    BY <1>3, <1>5, <1>16, <2>1 DEF WindowIs
  <2> QED
    BY <1>3, <1>5, <1>15, <2>2 DEF PlaceIs
<1>22. Threads'
  BY <1>3, <1>5 DEF Threads, Newest
<1>23. Doubtful' = Doubtful
  BY <1>3 DEF Doubtful
<1>24. Agreement'
  <2>1. i \notin overtaken
    BY <1>1, <1>5, <1>7 DEF Bounds
  <2>2. Live'.ids = wanted'.ids \ overtaken'
    BY <1>3, <1>5, <1>15, <1>17, <2>1 DEF Agreement
  <2>3. \A m \in Live'.ids \ Doubtful : m \in wanted'.on <=> heap'[routes'[m]].enabled
    BY <1>5, <1>8, <1>9, <1>15, <1>16, <1>17 DEF Agreement
  <2>4. \A m \in Live'.ids : Pending(m)' \/ OnDisk(m)'
    BY <1>3, <1>5, <1>15, <1>16, <1>17, <1>23 DEF Agreement, Pending, OnDisk
  <2>5. \A j \in jobs' : \A m \in j.drop : m \in Live'.ids => Restored(m)'
    <3>1. \A j \in jobs : i \notin j.drop
      BY <1>1, <1>5, <1>7 DEF Bounds
    <3> QED
      BY <1>3, <1>5, <1>15, <1>16, <3>1 DEF Agreement, Restored
  <2>6. \A m \in disk'.ids \ Live'.ids : WillGo(m)'
    BY <1>3, <1>5, <1>15, <1>17 DEF Agreement, WillGo
  <2> QED
    BY <1>23, <2>2, <2>3, <2>4, <2>5, <2>6 DEF Agreement
<1>25. CurrentIs'
  <2>1. \A m \in Live.on : m \in Live'.on
    BY <1>12, <1>13, <1>15, <1>16
  <2> QED
    BY <1>3, <1>5, <1>15, <1>23, <2>1 DEF CurrentIs
<1> QED
  BY <1>18, <1>19, <1>20, <1>21, <1>22, <1>24, <1>25 DEF RouteInv

\* The menu offers enabled profiles only.
LEMMA ChooseRouteKeeps ==
  ASSUME RouteInv, NEW i \in Ids, ChooseRoute(i)
  PROVE  RouteInv'
<1>1. /\ ui = "free" /\ ops' = ops + 1 /\ i \in Live.on /\ i \in Live.ids
      /\ current_route_id' = i /\ savedCurrent' = i
      /\ UNCHANGED <<heap, routes, max_route_chain_id, disk, dialog, ui, messages, jobs, locker,
                     opens, restarts, history>>
  BY DEF ChooseRoute, Op, Live
<1>2. /\ RoutingTypeOK /\ ObjectsAre /\ Bounds /\ WindowIs /\ PlaceIs /\ Threads /\ CurrentIs
      /\ Agreement
  BY <1>1 DEF RouteInv
<1>3. UNCHANGED <<wanted, overtaken, leaked, stale, hasty, torn>>
  BY <1>1 DEF history
<1>4. Live' = Live /\ Doubtful' = Doubtful
  BY <1>1, <1>3 DEF Live, Doubtful
<1> HIDE DEF Live, Doubtful
<1>5. RoutingTypeOK'
  BY <1>1, <1>2, <1>3 DEF RoutingTypeOK
<1>6. ObjectsAre' /\ Bounds' /\ Threads'
  BY <1>1, <1>2, <1>3 DEF ObjectsAre, Refs, Bounds, Threads, Newest
<1>7. WindowIs' /\ PlaceIs'
  BY <1>1, <1>2, <1>3, <1>4 DEF WindowIs, PlaceIs, RouteOk, Enabled
<1>8. Agreement'
  BY <1>1, <1>2, <1>3, <1>4 DEF Agreement, Pending, OnDisk, Restored, WillGo
<1>9. CurrentIs'
  BY <1>1, <1>2, <1>3, <1>4 DEF CurrentIs
<1> QED
  BY <1>5, <1>6, <1>7, <1>8, <1>9 DEF RouteInv

\* What is saved as the current profile is what it is by then.
LEMMA MessageArrivesKeeps ==
  ASSUME RouteInv, MessageArrives
  PROVE  RouteInv'
<1>1. /\ ui = "free" /\ messages' = FALSE /\ savedCurrent' = current_route_id
      /\ UNCHANGED <<heap, routes, max_route_chain_id, current_route_id, disk, dialog, ui, jobs,
                     locker, opens, ops, restarts, wanted, overtaken, leaked, stale, hasty, torn>>
  BY DEF MessageArrives, storeVars, history
<1>2. /\ RoutingTypeOK /\ ObjectsAre /\ Bounds /\ WindowIs /\ PlaceIs /\ Threads /\ CurrentIs
      /\ Agreement
  BY <1>1 DEF RouteInv
<1>3. Live' = Live /\ Doubtful' = Doubtful
  BY <1>1 DEF Live, Doubtful
<1> HIDE DEF Live, Doubtful
<1>4. RoutingTypeOK'
  BY <1>1, <1>2 DEF RoutingTypeOK
<1>5. ObjectsAre' /\ Bounds' /\ Threads'
  BY <1>1, <1>2 DEF ObjectsAre, Refs, Bounds, Threads, Newest
<1>6. WindowIs' /\ PlaceIs'
  BY <1>1, <1>2, <1>3 DEF WindowIs, PlaceIs, RouteOk, Enabled
<1>7. Agreement'
  BY <1>1, <1>2, <1>3 DEF Agreement, Pending, OnDisk, Restored, WillGo
<1>8. CurrentIs'
  BY <1>1, <1>2, <1>3 DEF CurrentIs
<1> QED
  BY <1>4, <1>5, <1>6, <1>7, <1>8 DEF RouteInv

\* What LoadManager makes of the records v.
Loaded(v) ==
  /\ routes = [i \in Ids |-> IF i \in v.ids THEN i ELSE NoObj]
  /\ heap = [o \in Objs |-> IF o \in v.ids THEN [id |-> o, enabled |-> o \in v.on] ELSE NoObj]
  /\ max_route_chain_id \in Ids /\ \A i \in v.ids : i <= max_route_chain_id
  /\ disk = v
  /\ dialog = Closed /\ ui = "free" /\ messages = FALSE /\ jobs = {} /\ locker = 0
  /\ overtaken = {} /\ stale = {} /\ current_route_id = savedCurrent
  /\ wanted \in View /\ wanted.ids = v.ids
  /\ savedCurrent \in Ids \cup {Unsaved}
  /\ opens \in Nat /\ ops \in Nat /\ restarts \in Nat /\ leaked \in SUBSET Ids
  /\ hasty \in BOOLEAN /\ torn \in BOOLEAN
  /\ \A i \in v.ids \ leaked : i \in wanted.on <=> i \in v.on
  /\ ~torn => savedCurrent \in v.ids
  /\ ~torn /\ leaked = {} => v.on # {} /\ (savedCurrent \in v.on \/ hasty)

\* The invariant holds of every program that has been loaded.
LoadedSatisfies == \A v \in View : Loaded(v) => RouteInv

\* A program that has been loaded satisfies the invariant.
LEMMA LoadedIs == LoadedSatisfies
<1> SUFFICES ASSUME NEW v \in View, Loaded(v)
             PROVE  RouteInv
  BY DEF LoadedSatisfies
<1>1. /\ v.ids \subseteq Ids /\ v.on \subseteq v.ids /\ Ids \subseteq Objs /\ NoObj \notin Objs
      /\ NoObj \notin Profiles
  BY RoutingAssumption DEF View
<1>2. /\ heap \in [Objs -> Profiles \cup {NoObj}]
      /\ \A o \in v.ids : heap[o] # NoObj /\ heap[o].id = o /\ (heap[o].enabled <=> o \in v.on)
      /\ \A o \in Objs : o \notin v.ids => heap[o] = NoObj
  <2>1. \A o \in v.ids : [id |-> o, enabled |-> o \in v.on] \in Profiles
    BY <1>1 DEF Profiles
  <2>2. heap = [o \in Objs |-> IF o \in v.ids THEN [id |-> o, enabled |-> o \in v.on] ELSE NoObj]
    BY DEF Loaded
  <2>3. \A o \in v.ids : heap[o] = [id |-> o, enabled |-> o \in v.on]
    BY <1>1, <2>2
  <2>4. \A o \in v.ids : heap[o].id = o /\ (heap[o].enabled <=> o \in v.on)
    <3> SUFFICES ASSUME NEW o \in v.ids
                 PROVE  heap[o].id = o /\ (heap[o].enabled <=> o \in v.on)
      OBVIOUS
    <3>1. CASE o \in v.on
      <4>1. heap[o] = [id |-> o, enabled |-> TRUE]
        BY <2>3, <3>1, Zenon
      <4> QED
        BY <3>1, <4>1
    <3>2. CASE o \notin v.on
      <4>1. (o \in v.on) = FALSE
        BY <3>2
      <4>2. heap[o] = [id |-> o, enabled |-> FALSE]
        BY <2>3, <4>1
      <4> QED
        BY <3>2, <4>2
    <3> QED
      BY <3>1, <3>2
  <2>5. \A o \in v.ids : heap[o] # NoObj
    BY <1>1, <2>1, <2>3
  <2>6. heap \in [Objs -> Profiles \cup {NoObj}]
    BY <2>1, <2>2
  <2>7. \A o \in Objs : o \notin v.ids => heap[o] = NoObj
    BY <2>2
  <2> QED
    BY <2>4, <2>5, <2>6, <2>7
<1>3. /\ routes \in [Ids -> Objs \cup {NoObj}]
      /\ \A i \in Ids : IF i \in v.ids THEN routes[i] = i ELSE routes[i] = NoObj
  BY <1>1 DEF Loaded
<1>4. Live.ids = v.ids /\ Live.on = v.on
  BY <1>1, <1>2, <1>3 DEF Live
<1>5. RoutingTypeOK
  <2>1. dialog \in Windows /\ max_route_chain_id \in 0 .. MaxId
    BY DEF Loaded, Closed, Windows, Ids
  <2>2. /\ disk \in View /\ wanted \in View /\ jobs \in SUBSET Job
        /\ ui \in {"free", "filling", "dead"} /\ messages \in BOOLEAN /\ locker \in Nat
        /\ {overtaken, leaked, stale} \subseteq SUBSET Ids
        /\ current_route_id \in Ids \cup {Unsaved} /\ savedCurrent \in Ids \cup {Unsaved}
        /\ opens \in Nat /\ ops \in Nat /\ restarts \in Nat
        /\ hasty \in BOOLEAN /\ torn \in BOOLEAN
    BY DEF Loaded
  <2> QED
    BY <1>2, <1>3, <2>1, <2>2 DEF RoutingTypeOK
<1>6. ObjectsAre /\ Bounds
  <2>1. \A o \in Refs : o # NoObj => o \in v.ids
    BY <1>3 DEF Refs, Loaded, Closed
  <2>2. ObjectsAre
    BY <1>1, <1>2, <1>3, <2>1 DEF ObjectsAre, Loaded
  <2>3. Bounds
    BY <1>2 DEF Bounds, Loaded
  <2> QED
    BY <2>2, <2>3
<1>7. WindowIs /\ PlaceIs /\ Threads
  BY DEF Loaded, Closed, WindowIs, PlaceIs, Threads
<1>8. Doubtful = leaked
  BY DEF Loaded, Closed, Doubtful
<1> HIDE DEF Live, Doubtful
<1>9. Agreement
  BY <1>1, <1>2, <1>3, <1>4, <1>8 DEF Loaded, Agreement, OnDisk
<1>10. CurrentIs
  BY <1>4, <1>8 DEF Loaded, CurrentIs
<1> QED
  BY <1>5, <1>6, <1>7, <1>9, <1>10 DEF RouteInv

\* What is on disk when the program ends is what has been asked for, less what is doubtful.
LEMMA EndsWith ==
  ASSUME RouteInv, jobs = {}, ~messages, ui = "free", ~torn
  PROVE  /\ disk.ids = Live.ids /\ Live.ids = wanted.ids \ overtaken
         /\ savedCurrent \in disk.ids
         /\ \A i \in disk.ids \ (Doubtful \cup stale) : i \in disk.on <=> i \in wanted.on
         /\ Doubtful = {} /\ stale = {} =>
              disk.on # {} /\ (savedCurrent \in disk.on \/ hasty)
<1>1. /\ RoutingTypeOK /\ Agreement /\ CurrentIs
  BY DEF RouteInv
<1>2. /\ \A i \in Live.ids : OnDisk(i)
      /\ \A i \in disk.ids \ Live.ids : FALSE
      /\ Live.ids = wanted.ids \ overtaken
      /\ \A i \in Live.ids \ Doubtful : i \in wanted.on <=> heap[routes[i]].enabled
  BY <1>1 DEF Agreement, Pending, WillGo
<1>3. /\ Live.on \subseteq Live.ids
      /\ \A i \in Live.ids : i \in Live.on <=> heap[routes[i]].enabled
  BY DEF Live
<1>4. disk.on \subseteq disk.ids
  BY <1>1 DEF RoutingTypeOK, View
<1> HIDE DEF Live, Doubtful
<1>5. disk.ids = Live.ids
  BY <1>2 DEF OnDisk
<1>6. /\ savedCurrent = current_route_id /\ current_route_id \in Live.ids
      /\ Doubtful = {} => Live.on # {} /\ (current_route_id \in Live.on \/ hasty)
  BY <1>1 DEF CurrentIs
<1>7. \A i \in disk.ids \ (Doubtful \cup stale) : i \in disk.on <=> i \in wanted.on
  BY <1>2, <1>5 DEF OnDisk
<1>8. ASSUME Doubtful = {}, stale = {}
      PROVE  disk.on = Live.on
  BY <1>2, <1>3, <1>4, <1>5, <1>7, <1>8
<1> QED
  BY <1>2, <1>5, <1>6, <1>7, <1>8

\* A restart loads what is on disk; only one in the middle of a save loads something else.
LEMMA RestartKeeps ==
  ASSUME RouteInv, Restart
  PROVE  RouteInv'
<1> DEFINE half == torn \/ jobs # {} \/ messages \/ ui # "free"
<1>1. /\ RoutingTypeOK
      /\ MaxId \in Nat /\ MaxId >= 2 /\ Ids = 1 .. MaxId
  BY RoutingAssumption DEF RouteInv, Ids
<1>2. disk \in View /\ wanted \in View /\ disk.ids \subseteq Ids
  BY <1>1 DEF RoutingTypeOK, View
<1>3. PICK v \in View :
        /\ v = IF disk.ids = {} THEN Saved(disk, 1, TRUE) ELSE disk
        /\ v.ids # {} /\ v.ids \subseteq Ids
        /\ disk.ids # {} => v = disk
  <2>1. Saved(disk, 1, TRUE) = [ids |-> disk.ids \cup {1}, on |-> disk.on \cup {1}]
    BY DEF Saved
  <2>2. PICK s : s = Saved(disk, 1, TRUE)
    OBVIOUS
  <2>3. s = [ids |-> disk.ids \cup {1}, on |-> disk.on \cup {1}]
    BY <2>1, <2>2, Zenon
  <2>4. s.ids = disk.ids \cup {1} /\ s.on = disk.on \cup {1}
    BY <2>3
  <2>5. s \in [ids : SUBSET Ids, on : SUBSET Ids]
    <3>1. 1 \in Ids
      BY <1>1
    <3>2. disk.ids \in SUBSET Ids /\ disk.on \in SUBSET Ids
      BY <1>2 DEF View
    <3> QED
      BY <2>3, <3>1, <3>2
  <2>6. s \in View /\ s.ids # {} /\ s.ids \subseteq Ids
    <3>1. disk.on \subseteq disk.ids
      BY <1>2 DEF View
    <3> QED
      BY <2>4, <2>5, <3>1 DEF View
  <2>7. CASE disk.ids = {}
    BY <2>2, <2>6, <2>7
  <2>8. CASE disk.ids # {}
    BY <1>2, <2>8
  <2> QED
    BY <2>7, <2>8
<1>4. v.ids # {} /\ v.ids \subseteq Ids /\ (disk.ids # {} => v = disk)
  BY <1>3, Zenon
<1>5. /\ disk' = v
      /\ routes' = [i \in Ids |-> IF i \in v.ids THEN i ELSE NoObj]
      /\ heap' = [o \in Objs |-> IF o \in v.ids THEN [id |-> o, enabled |-> o \in v.on]
                                 ELSE NoObj]
      /\ max_route_chain_id' = Max(v.ids)
      /\ wanted' = IF half THEN v
                   ELSE [ids |-> wanted.ids \ overtaken, on |-> wanted.on \ overtaken]
      /\ leaked' = IF half THEN {} ELSE leaked \cup dialog.touched \cup stale
      /\ torn' = half
  BY <1>3, Zenon DEF Restart
<1>6. /\ restarts' = restarts + 1 /\ current_route_id' = savedCurrent
      /\ dialog' = Closed /\ ui' = "free" /\ messages' = FALSE
      /\ jobs' = {} /\ locker' = 0 /\ overtaken' = {} /\ stale' = {}
      /\ UNCHANGED <<savedCurrent, opens, ops, hasty>>
  BY DEF Restart
<1>7. max_route_chain_id' \in Ids /\ \A i \in v.ids : i <= max_route_chain_id'
  <2>1. v.ids \in SUBSET (0 .. MaxId)
    BY <1>1, <1>4
  <2>2. Max(v.ids) \in v.ids /\ \A i \in v.ids : i <= Max(v.ids)
    BY <1>1, <1>4, <2>1, MaxIn
  <2> QED
    BY <1>4, <1>5, <2>2
<1>8. /\ savedCurrent' \in Ids \cup {Unsaved}
      /\ opens' \in Nat /\ ops' \in Nat /\ restarts' \in Nat
      /\ hasty' \in BOOLEAN /\ torn' \in BOOLEAN
      /\ leaked' \in SUBSET Ids
  <2>1. dialog.touched \subseteq Ids /\ leaked \subseteq Ids /\ stale \subseteq Ids
    BY <1>1 DEF RoutingTypeOK, Windows
  <2>2. leaked' \in SUBSET Ids
    BY <1>5, <2>1
  <2>3. torn' \in BOOLEAN
    BY <1>1, <1>5 DEF RoutingTypeOK
  <2> QED
    BY <1>1, <1>6, <2>2, <2>3 DEF RoutingTypeOK
<1>9. /\ wanted' \in View /\ wanted'.ids = v.ids
      /\ \A i \in v.ids \ leaked' : i \in wanted'.on <=> i \in v.on
      /\ ~torn' => savedCurrent' \in v.ids
      /\ ~torn' /\ leaked' = {} => v.on # {} /\ (savedCurrent' \in v.on \/ hasty')
  <2>1. CASE half
    BY <1>4, <1>5, <2>1
  <2>2. CASE ~half
    <3>1. /\ disk.ids = wanted.ids \ overtaken
          /\ savedCurrent \in disk.ids
          /\ \A i \in disk.ids \ (Doubtful \cup stale) : i \in disk.on <=> i \in wanted.on
          /\ Doubtful = {} /\ stale = {} =>
               disk.on # {} /\ (savedCurrent \in disk.on \/ hasty)
      <4>1. jobs = {} /\ ~messages /\ ui = "free" /\ ~torn
        BY <2>2
      <4> QED
        BY <4>1, EndsWith
    <3>2. v = disk
      BY <1>4, <3>1
    <3>3. leaked' = Doubtful \cup stale /\ torn' = FALSE
      BY <1>5, <2>2 DEF Doubtful
    <3> HIDE DEF Doubtful
    <3>4. wanted' = [ids |-> wanted.ids \ overtaken, on |-> wanted.on \ overtaken]
      BY <1>5, <2>2
    <3>5. /\ wanted'.ids = wanted.ids \ overtaken /\ wanted'.on = wanted.on \ overtaken
          /\ wanted' \in View
      BY <1>2, <3>4 DEF View
    <3> QED
      BY <1>6, <3>1, <3>2, <3>3, <3>5
  <2> QED
    BY <2>1, <2>2
<1>10. Loaded(v)'
  BY <1>5, <1>6, <1>7, <1>8, <1>9, Zenon DEF Loaded
<1>11. LoadedSatisfies'
  BY LoadedIs, PTL
<1> QED
  BY <1>10, <1>11, Zenon DEF LoadedSatisfies

\* The two profiles of an earlier session have been loaded.
LEMMA InitIs ==
  ASSUME Init
  PROVE  RouteInv
<1>1. MaxId \in Nat /\ MaxId >= 2 /\ Ids = 1 .. MaxId
  BY RoutingAssumption DEF Ids
<1>2. PICK on \in {{1}, {1, 2}} : LET two == {1, 2} IN
    /\ heap = [o \in Objs |-> IF o \in two THEN [id |-> o, enabled |-> o \in on] ELSE NoObj]
    /\ routes = [i \in Ids |-> IF i \in two THEN i ELSE NoObj]
    /\ max_route_chain_id = 2
    /\ current_route_id = 1 /\ savedCurrent = 1
    /\ disk = [ids |-> two, on |-> on] /\ wanted = disk
    /\ dialog = Closed /\ ui = "free" /\ messages = FALSE
    /\ jobs = {} /\ locker = 0
    /\ opens = 0 /\ ops = 0 /\ restarts = 0
    /\ overtaken = {} /\ leaked = {} /\ stale = {} /\ hasty = FALSE /\ torn = FALSE
  BY DEF Init
<1> DEFINE v == [ids |-> {1, 2}, on |-> on]
<1>3. v \in View /\ v.ids = {1, 2} /\ v.on = on
  BY <1>1 DEF View
<1> HIDE DEF v
<1>4. disk = v /\ wanted = v
  BY <1>2 DEF v
<1>5. /\ routes = [i \in Ids |-> IF i \in v.ids THEN i ELSE NoObj]
      /\ heap = [o \in Objs |-> IF o \in v.ids THEN [id |-> o, enabled |-> o \in v.on]
                                ELSE NoObj]
  BY <1>2, <1>3, Zenon
<1>6. /\ max_route_chain_id \in Ids /\ \A i \in v.ids : i <= max_route_chain_id
      /\ savedCurrent \in Ids \cup {Unsaved} /\ savedCurrent \in v.ids
      /\ v.on # {} /\ savedCurrent \in v.on
  BY <1>1, <1>2, <1>3
<1>7. /\ dialog = Closed /\ ui = "free" /\ messages = FALSE /\ jobs = {} /\ locker = 0
      /\ overtaken = {} /\ stale = {} /\ current_route_id = savedCurrent
      /\ opens \in Nat /\ ops \in Nat /\ restarts \in Nat /\ leaked \in SUBSET Ids
      /\ hasty \in BOOLEAN /\ torn \in BOOLEAN
  BY <1>2
<1>8. Loaded(v)
  BY <1>3, <1>4, <1>5, <1>6, <1>7 DEF Loaded
<1> QED
  BY <1>3, <1>8, LoadedIs DEF LoadedSatisfies

-----------------------------------------------------------------------------
(* The theorems.                                                           *)

\* A step of nothing keeps the invariant.
LEMMA StutterKeeps ==
  ASSUME RouteInv, UNCHANGED vars
  PROVE  RouteInv'
<1>1. UNCHANGED <<heap, routes, max_route_chain_id, current_route_id, disk, savedCurrent, dialog,
                  ui, messages, jobs, locker, opens, ops, restarts, wanted, overtaken, leaked,
                  stale, hasty, torn>>
  BY DEF vars, storeVars, diskVars, history
<1>2. /\ RoutingTypeOK /\ ObjectsAre /\ Bounds /\ WindowIs /\ PlaceIs /\ Threads /\ CurrentIs
      /\ (ui = "free" => Agreement)
  BY DEF RouteInv
<1>3. Live' = Live /\ Doubtful' = Doubtful
  BY <1>1 DEF Live, Doubtful
<1> HIDE DEF Live, Doubtful
<1>4. RoutingTypeOK'
  BY <1>1, <1>2 DEF RoutingTypeOK
<1>5. ObjectsAre' /\ Bounds' /\ Threads'
  BY <1>1, <1>2 DEF ObjectsAre, Refs, Bounds, Threads, Newest
<1>6. WindowIs' /\ PlaceIs'
  BY <1>1, <1>2, <1>3 DEF WindowIs, PlaceIs, RouteOk, Enabled
<1>7. ui' = "free" => Agreement'
  BY <1>1, <1>2, <1>3 DEF Agreement, Pending, OnDisk, Restored, WillGo
<1>8. CurrentIs'
  BY <1>1, <1>2, <1>3 DEF CurrentIs
<1> QED
  BY <1>4, <1>5, <1>6, <1>7, <1>8 DEF RouteInv

\* Every step keeps the invariant.
LEMMA StepKeeps ==
  ASSUME RouteInv, [Next]_vars
  PROVE  RouteInv'
<1>1. CASE UNCHANGED vars
  BY <1>1, StutterKeeps
<1>2. CASE Next
  <2>1. CASE OpenDialog
    BY <2>1, OpenDialogKeeps
  <2>2. CASE Refresh
    BY <2>2, RefreshKeeps
  <2>3. CASE Cancel
    BY <2>3, CancelKeeps
  <2>4. CASE Accept
    BY <2>4, AcceptKeeps
  <2>5. CASE AcceptFills
    BY <2>5, AcceptFillsKeeps
  <2>6. CASE MessageArrives
    <3>1. ui = "free"
      BY <2>6 DEF MessageArrives
    <3> QED
      BY <2>6, MessageArrivesKeeps
  <2>7. CASE Restart
    BY <2>7, RestartKeeps
  <2>8. ASSUME NEW o \in Objs,
               \/ CheckRoute(o) \/ ToggleRoute(o) \/ updateCurrentRouteProfile(o)
               \/ EditRoute(o) \/ DeleteRoute(o)
        PROVE  RouteInv'
    BY <2>8, CheckRouteKeeps, ToggleRouteKeeps, updateCurrentRouteProfileKeeps,
       EditRouteKeeps, DeleteRouteKeeps
  <2>9. ASSUME NEW enabled \in BOOLEAN, AddRoute(enabled) \/ Import(enabled)
        PROVE  RouteInv'
    BY <2>9, AddRouteKeeps, ImportKeeps
  <2>10. ASSUME NEW i \in Ids, ChooseRoute(i)
         PROVE  RouteInv'
    BY <2>10, ChooseRouteKeeps
  <2>11. ASSUME NEW j \in jobs, JobStep(j)
         PROVE  RouteInv'
    <3>1. ASSUME NEW o \in Objs, JobSaves(j, o)
          PROVE  RouteInv'
      BY <3>1, JobSavesKeeps
    <3>2. CASE JobLocks(j) \/ JobQueries(j) \/ JobChecks(j)
      BY <3>2, JobLocksKeeps, JobQueriesKeeps, JobChecksKeeps
    <3>3. CASE JobDrops(j) \/ JobEnds(j)
      BY <3>3, JobDropsKeeps, JobEndsKeeps
    <3> QED
      BY <2>11, <3>1, <3>2, <3>3, Zenon DEF JobStep
  <2> QED
    BY <1>2, <2>1, <2>2, <2>3, <2>4, <2>5, <2>6, <2>7, <2>8, <2>9, <2>10, <2>11, Zenon DEF Next
<1> QED
  BY <1>1, <1>2

(***************************************************************************)
(* The invariant, for any number of ids, objects, windows, edits and       *)
(* exits (ProfileManager::UpdateRouteChains, Database.cpp:1301-1331, and   *)
(* the window, dialog_manage_routes.cpp).                                  *)
(***************************************************************************)
THEOREM RouteInvHolds == Spec => []RouteInv
<1>1. Init => RouteInv
  BY InitIs
<1>2. RouteInv /\ [Next]_vars => RouteInv'
  BY StepKeeps
<1> QED
  BY <1>1, <1>2, PTL DEF Spec

\* The invariant says which profile may be current, and why the UI thread is gone.
LEMMA UsableNow == RouteInv => RouteIsUsable
<1> SUFFICES ASSUME RouteInv
             PROVE  RouteIsUsable
  OBVIOUS
<1>1. /\ CurrentIs /\ PlaceIs /\ WindowIs
  BY DEF RouteInv
<1>2. ASSUME Settled, leaked = {}, ~torn
      PROVE  /\ Live.on # {}
             /\ current_route_id \in Live.ids => current_route_id \in Live.on \/ hasty
  <2>1. ~dialog.open /\ ui = "free"
    BY <1>2 DEF Settled
  <2>2. dialog = Closed
    BY <1>1, <2>1 DEF WindowIs
  <2>3. Doubtful = {}
    BY <1>2, <2>2 DEF Doubtful, Closed
  <2> HIDE DEF Doubtful, Live
  <2> QED
    BY <1>1, <1>2, <2>1, <2>3 DEF CurrentIs
<1>3. ui = "dead" => hasty
  BY <1>1 DEF PlaceIs
<1> HIDE DEF Live
<1> QED
  BY <1>2, <1>3, Zenon DEF RouteIsUsable

\* Without a thread at work, the invariant says what memory and disk have.
LEMMA AcceptedNow == RouteInv => AsAccepted
<1> SUFFICES ASSUME RouteInv, Settled, jobs = {}
             PROVE  /\ Live.ids = wanted.ids \ overtaken
                    /\ disk.ids = Live.ids
                    /\ \A i \in Live.ids \ leaked : i \in wanted.on <=> i \in Live.on
                    /\ \A i \in Live.ids \ (leaked \cup stale) :
                         i \in wanted.on <=> i \in disk.on
  BY DEF AsAccepted
<1>1. ~dialog.open /\ ui = "free"
  BY DEF Settled
<1>2. Agreement /\ WindowIs
  BY <1>1 DEF RouteInv
<1>3. dialog = Closed
  BY <1>1, <1>2 DEF WindowIs
<1>4. Doubtful = leaked
  BY <1>3 DEF Doubtful, Closed
<1>5. /\ Live.ids = wanted.ids \ overtaken
      /\ \A i \in Live.ids \ leaked : i \in wanted.on <=> heap[routes[i]].enabled
      /\ \A i \in Live.ids : i \in disk.ids
      /\ \A i \in Live.ids \ (leaked \cup stale) : i \in disk.on <=> i \in wanted.on
      /\ \A i \in disk.ids \ Live.ids : FALSE
  BY <1>2, <1>4 DEF Agreement, Pending, OnDisk, WillGo
<1>6. \A i \in Live.ids : i \in Live.on <=> heap[routes[i]].enabled
  BY DEF Live
<1> HIDE DEF Live
<1> QED
  BY <1>5, <1>6

(***************************************************************************)
(* Some profile is enabled, and the current one is, unless a cancelled     *)
(* window, an OK before a refresh or a half-saved change say why not; and  *)
(* only the second makes OK dereference a null pointer                     *)
(* (dialog_manage_routes.cpp:1127-1145, 1360-1420; mainwindow_rpc.cpp:774; *)
(* ConfigBuilder.cpp:1416).                                                *)
(***************************************************************************)
THEOREM RouteUsable == Spec => []RouteIsUsable
BY RouteInvHolds, UsableNow, PTL

(***************************************************************************)
(* When the threads of UpdateRouteChains are done, memory and disk have    *)
(* the profiles the user has accepted, imported and enabled, in whatever   *)
(* order the windows, imports, threads, exits and crashes came             *)
(* (Database.cpp:1301-1331; dialog_manage_routes.cpp:1033, 1419).          *)
(***************************************************************************)
THEOREM KeptAsAccepted == Spec => []AsAccepted
BY RouteInvHolds, AcceptedNow, PTL
=============================================================================
