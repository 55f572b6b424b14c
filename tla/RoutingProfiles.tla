--------------------------- MODULE RoutingProfiles ---------------------------
(***************************************************************************)
(* The routing profiles: ProfileManager::routes, the window that edits     *)
(* them (DialogManageRoutes) and the thread that saves them.               *)
(*                                                                         *)
(* The window is not modal and works on the objects that are in use; OK    *)
(* replaces all of them by the list it has kept since it was opened.  The  *)
(* rest of the program goes on meanwhile: it imports profiles, chooses the *)
(* current one, builds configurations.                                     *)
(*                                                                         *)
(* A profile is abstracted to its id and whether it is enabled.  Priority  *)
(* only decides which of several enabled profiles comes first, which is    *)
(* left open.  A lookup in routes while the UI thread fills it again, a    *)
(* data race, finds the profile or not.                                    *)
(***************************************************************************)
EXTENDS Naturals, FiniteSets, FiniteSetsExt

CONSTANTS
  Objs,        \* bound: objects in memory at a time, numbers
  MaxId,       \* bound: the largest id
  MaxOpens,    \* bound: how often the window is opened
  MaxOps,      \* bound: what is done in it, and besides
  MaxRestarts, \* bound: exits and crashes of the program
  NoObj

Ids == 1 .. MaxId
Unsaved == 0 \* the id of a profile that has none, -1 in the code
Profiles == [id : Ids \cup {Unsaved}, enabled : BOOLEAN]

ASSUME RoutingAssumption ==
  /\ {MaxId, MaxOpens, MaxOps, MaxRestarts} \subseteq Nat
  /\ MaxId >= 2
  /\ Objs \subseteq Nat /\ IsFiniteSet(Objs) /\ Ids \subseteq Objs /\ NoObj \notin Objs
  /\ NoObj \notin Profiles

VARIABLES
  heap,              \* the objects that somebody refers to
  routes,            \* ProfileManager::routes
  max_route_chain_id,
  current_route_id,
  disk,              \* the records of the profiles
  savedCurrent,      \* current_route_id as saved
  dialog,            \* the window
  ui,                \* the UI thread: free, in UpdateRouteChains, or gone
  messages,          \* UpdateDataStore,RouteChanged is posted
  jobs,              \* the threads of UpdateRouteChains
  locker,            \* the one that holds ProfileManager::lock, or 0
  opens, ops, restarts,
  wanted,            \* history: the profiles as the user has left them
  overtaken,         \* history: those imported while the window was open
  leaked,            \* history: those edited in a window that was cancelled
  stale,             \* history: those whose record an object out of use wrote last
  hasty,             \* history: OK came before a queued refresh of the list
  torn               \* history: an exit came in the middle of a save

storeVars == <<routes, max_route_chain_id, current_route_id>>
diskVars == <<disk, savedCurrent>>
history == <<wanted, overtaken, leaked, stale, hasty, torn>>
vars == <<heap, storeVars, diskVars, dialog, ui, messages, jobs, locker, opens, ops,
          restarts, history>>

\* Profiles as their ids, and those among them that are enabled.
View == {v \in [ids : SUBSET Ids, on : SUBSET Ids] : v.on \subseteq v.ids}

\* list: chainList; route: currentRoute; pending: a refresh is queued; had: the ids
\* when it was opened; touched: history, the profiles in use it has edited
Windows == [open : BOOLEAN, list : SUBSET Objs, route : Objs \cup {NoObj},
            pending : BOOLEAN, had : SUBSET Ids, touched : SUBSET Ids]
Closed == [open |-> FALSE, list |-> {}, route |-> NoObj, pending |-> FALSE,
           had |-> {}, touched |-> {}]

\* A thread: the objects still to save, the records found and still to check, and the
\* one it is about to drop.
Job == [op : Nat, pc : {"start", "save", "check"}, save : SUBSET Objs,
        left : SUBSET Ids, drop : SUBSET Ids]

RoutingTypeOK ==
  /\ heap \in [Objs -> Profiles \cup {NoObj}]
  /\ routes \in [Ids -> Objs \cup {NoObj}]
  /\ max_route_chain_id \in 0 .. MaxId
  /\ current_route_id \in Ids \cup {Unsaved} /\ savedCurrent \in Ids \cup {Unsaved}
  /\ disk \in View /\ wanted \in View
  /\ dialog \in Windows
  /\ ui \in {"free", "filling", "dead"}
  /\ messages \in BOOLEAN
  /\ jobs \in SUBSET Job /\ locker \in Nat
  /\ opens \in Nat /\ ops \in Nat /\ restarts \in Nat
  /\ {overtaken, leaked, stale} \subseteq SUBSET Ids
  /\ hasty \in BOOLEAN /\ torn \in BOOLEAN

-----------------------------------------------------------------------------
Refs == {routes[i] : i \in Ids} \cup dialog.list \cup {dialog.route}
          \cup UNION {j.save : j \in jobs}

\* The heap after a step is h, less the objects nobody refers to any more.
Collect(h) == heap' = [o \in Objs |-> IF o \in Refs' THEN h[o] ELSE NoObj]

Free == {o \in Objs : heap[o] = NoObj}

Enabled(os) == {o \in os : heap[o].enabled}

Live ==
  LET ids == {i \in Ids : routes[i] # NoObj} IN
  [ids |-> ids, on |-> {i \in ids : heap[routes[i]].enabled}]

\* JsonStore::Save of a profile: its record.
Saved(d, i, enabled) ==
  [ids |-> d.ids \cup {i}, on |-> IF enabled THEN d.on \cup {i} ELSE d.on \ {i}]

Dropped(d, ids) == [ids |-> d.ids \ ids, on |-> d.on \ ids]

\* Two profiles from an earlier session; the first is the current one, the second may be
\* disabled.
Init ==
  \E on \in {{1}, {1, 2}} : LET two == {1, 2} IN
    /\ heap = [o \in Objs |-> IF o \in two THEN [id |-> o, enabled |-> o \in on] ELSE NoObj]
    /\ routes = [i \in Ids |-> IF i \in two THEN i ELSE NoObj]
    /\ max_route_chain_id = 2
    /\ current_route_id = 1 /\ savedCurrent = 1
    /\ disk = [ids |-> two, on |-> on] /\ wanted = disk
    /\ dialog = Closed /\ ui = "free" /\ messages = FALSE
    /\ jobs = {} /\ locker = 0
    /\ opens = 0 /\ ops = 0 /\ restarts = 0
    /\ overtaken = {} /\ leaked = {} /\ stale = {} /\ hasty = FALSE /\ torn = FALSE

Op == ui = "free" /\ ops < MaxOps /\ ops' = ops + 1
InDialog == dialog.open /\ Op

-----------------------------------------------------------------------------
(* The window.                                                             *)

elsewhere == <<storeVars, diskVars, ui, messages, jobs, locker, restarts>>

\* reloadProfileItems: the current profile is an enabled one, if there is any.
Chosen(list, route, h) ==
  IF route # NoObj /\ h[route].enabled
  THEN {route}
  ELSE LET on == {o \in list : h[o].enabled} IN IF on = {} THEN {NoObj} ELSE on

reloadProfileItems(d, h) ==
  \E r \in Chosen(d.list, d.route, h) : dialog' = [d EXCEPT !.route = r]

OpenDialog ==
  /\ ui = "free" /\ ~dialog.open
  /\ opens < MaxOpens /\ opens' = opens + 1
  /\ LET list == {routes[i] : i \in Live.ids}
         now == IF current_route_id \in Live.ids THEN {routes[current_route_id]} ELSE list
     IN  \E r \in now :
           reloadProfileItems([Closed EXCEPT !.open = TRUE, !.list = list, !.route = r,
                                             !.had = Live.ids], heap)
  /\ UNCHANGED <<elsewhere, ops, history>>
  /\ Collect(heap)

\* The last enabled profile stays enabled.
MayToggle(o) == ~heap[o].enabled \/ Cardinality(Enabled(dialog.list)) > 1

Toggled(o) == [heap EXCEPT ![o].enabled = ~@]

\* The edit hits the object in use, if it is one.
Touches(o) ==
  [dialog EXCEPT !.touched = @ \cup {i \in Live.ids : routes[i] = o}]

\* The check box: the list is refreshed later.
CheckRoute(o) ==
  /\ InDialog /\ o \in dialog.list /\ MayToggle(o)
  /\ dialog' = [Touches(o) EXCEPT !.pending = TRUE]
  /\ UNCHANGED <<elsewhere, opens, history>>
  /\ Collect(Toggled(o))

Refresh ==
  /\ ui = "free" /\ dialog.pending
  /\ reloadProfileItems([dialog EXCEPT !.pending = FALSE], heap)
  /\ UNCHANGED <<elsewhere, opens, ops, history>>
  /\ Collect(heap)

\* The button next to the list.
ToggleRoute(o) ==
  /\ InDialog /\ o \in dialog.list /\ MayToggle(o)
  /\ reloadProfileItems(Touches(o), Toggled(o))
  /\ UNCHANGED <<elsewhere, opens, history>>
  /\ Collect(Toggled(o))

\* The combo box has what was enabled when the list was last refreshed.
updateCurrentRouteProfile(o) ==
  /\ InDialog /\ o \in dialog.list /\ (heap[o].enabled \/ dialog.pending)
  /\ dialog' = [dialog EXCEPT !.route = o]
  /\ UNCHANGED <<elsewhere, opens, history>>
  /\ Collect(heap)

\* New, or a clone of one of the list.
AddRoute(enabled) ==
  /\ InDialog /\ Free # {}
  /\ enabled \in {TRUE} \cup {heap[o].enabled : o \in dialog.list}
  /\ UNCHANGED <<elsewhere, opens, history>>
  /\ LET n == Min(Free)
         h == [heap EXCEPT ![n] = [id |-> Unsaved, enabled |-> enabled]]
     IN  /\ reloadProfileItems([dialog EXCEPT !.list = @ \cup {n}], h)
         /\ Collect(h)

\* The editor returns a copy, which takes the place of the profile.
EditRoute(o) ==
  /\ InDialog /\ o \in dialog.list /\ Free # {}
  /\ UNCHANGED <<elsewhere, opens, history>>
  /\ LET n == Min(Free)
         h == [heap EXCEPT ![n] = heap[o]]
     IN  /\ reloadProfileItems([dialog EXCEPT !.list = (@ \ {o}) \cup {n},
                                              !.route = IF @ = o THEN n ELSE @], h)
         /\ Collect(h)

DeleteRoute(o) ==
  /\ InDialog /\ o \in dialog.list /\ Cardinality(dialog.list) > 1
  /\ LET list == dialog.list \ {o} IN
     \E r \in IF dialog.route = o THEN list ELSE {dialog.route} :
       reloadProfileItems([dialog EXCEPT !.list = list, !.route = r], heap)
  /\ UNCHANGED <<elsewhere, opens, history>>
  /\ Collect(heap)

\* What was edited in place stays edited.
Cancel ==
  /\ ui = "free" /\ dialog.open
  /\ dialog' = Closed
  /\ leaked' = leaked \cup dialog.touched
  /\ UNCHANGED <<elsewhere, opens, ops, wanted, overtaken, stale, hasty, torn>>
  /\ Collect(heap)

-----------------------------------------------------------------------------
(* OK: UpdateRouteChains.                                                  *)

\* Mutant: OK does not look at the list again.
MutMayAccept == dialog.list # {}

MayAccept == Enabled(dialog.list) # {}

\* routes.clear()
Accept ==
  /\ ui = "free" /\ dialog.open /\ MayAccept
  /\ routes' = [i \in Ids |-> NoObj]
  /\ ui' = "filling"
  /\ overtaken' = overtaken \cup (Live.ids \ dialog.had)
  /\ UNCHANGED <<max_route_chain_id, current_route_id, diskVars, dialog, messages, jobs,
                 locker, opens, ops, restarts, wanted, leaked, stale, hasty, torn>>
  /\ Collect(heap)

\* AddRouteChain, for each of the list that has no id yet: the next ids, in the order
\* in which they were made.
NewId(o) ==
  max_route_chain_id
    + Cardinality({p \in dialog.list : heap[p].id = Unsaved /\ p <= o})

IdOf(o) == IF heap[o].id = Unsaved THEN NewId(o) ELSE heap[o].id

Added == {o \in dialog.list : heap[o].id = Unsaved}

\* Mutant: what had an id is taken for saved.
MutToSave == {}

ToSave == dialog.list \ Added

\* The rest of UpdateRouteChains and of OK: a profile without an id is saved at once,
\* the others and what is gone are left to a thread.
AcceptFills ==
  /\ ui = "filling"
  /\ max_route_chain_id' = max_route_chain_id + Cardinality(Added)
  /\ max_route_chain_id' <= MaxId
  /\ routes' = [i \in Ids |-> IF \E o \in dialog.list : IdOf(o) = i
                              THEN CHOOSE o \in dialog.list : IdOf(o) = i ELSE NoObj]
  /\ disk' = [ids |-> disk.ids \cup {IdOf(o) : o \in Added},
              on |-> disk.on \cup {IdOf(o) : o \in Enabled(Added)}]
  /\ jobs' = jobs \cup {[op |-> opens, pc |-> "start", save |-> ToSave, left |-> {},
                         drop |-> {}]}
  /\ dialog' = Closed
  \* current_route_id = currentRoute->id; then the message is posted
  /\ IF dialog.route = NoObj
     THEN ui' = "dead" /\ UNCHANGED <<current_route_id, messages>>
     ELSE ui' = "free" /\ current_route_id' = IdOf(dialog.route) /\ messages' = TRUE
  /\ wanted' = [ids |-> (wanted.ids \ dialog.had) \cup {IdOf(o) : o \in dialog.list},
                on |-> {IdOf(o) : o \in Enabled(dialog.list)}]
  /\ leaked' = {} /\ hasty' = dialog.pending /\ torn' = FALSE
  /\ UNCHANGED <<savedCurrent, locker, opens, ops, restarts, overtaken, stale>>
  /\ Collect([o \in Objs |-> IF o \in Added THEN [heap[o] EXCEPT !.id = NewId(o)]
                             ELSE heap[o]])

\* dialog_message_impl
MessageArrives ==
  /\ ui = "free" /\ messages
  /\ messages' = FALSE
  /\ savedCurrent' = current_route_id
  /\ UNCHANGED <<heap, storeVars, disk, dialog, ui, jobs, locker, opens, ops, restarts,
                 history>>

-----------------------------------------------------------------------------
(* The thread of UpdateRouteChains.                                        *)

jobRest == <<storeVars, savedCurrent, dialog, ui, messages, opens, ops, restarts, wanted,
             overtaken, leaked, hasty, torn>>

Becomes(j, k) == jobs' = (jobs \ {j}) \cup {k}

JobLocks(j) ==
  /\ j.pc = "start" /\ locker = 0
  /\ locker' = j.op
  /\ Becomes(j, [j EXCEPT !.pc = "save"])
  /\ UNCHANGED <<jobRest, disk, stale>>
  /\ Collect(heap)

JobSaves(j, o) ==
  /\ j.pc = "save" /\ o \in j.save
  /\ LET i == heap[o].id IN
     /\ disk' = Saved(disk, i, heap[o].enabled)
     /\ stale' = IF routes[i] = o THEN stale \ {i} ELSE stale \cup {i}
  /\ Becomes(j, [j EXCEPT !.save = @ \ {o}])
  /\ UNCHANGED <<jobRest, locker>>
  /\ Collect(heap)

\* Query
JobQueries(j) ==
  /\ j.pc = "save" /\ j.save = {}
  /\ Becomes(j, [j EXCEPT !.pc = "check", !.left = disk.ids])
  /\ UNCHANGED <<jobRest, disk, stale, locker>>
  /\ Collect(heap)

\* routes.count(item), in the order of the ids
JobChecks(j) ==
  /\ j.pc = "check" /\ j.drop = {} /\ j.left # {}
  /\ Becomes(j, [j EXCEPT !.left = @ \ {Min(@)}, !.drop = {Min(j.left)} \ Live.ids])
  /\ UNCHANGED <<jobRest, disk, stale, locker>>
  /\ Collect(heap)

JobDrops(j) ==
  /\ j.pc = "check" /\ j.drop # {}
  /\ disk' = Dropped(disk, j.drop)
  /\ stale' = stale \ j.drop
  /\ Becomes(j, [j EXCEPT !.drop = {}])
  /\ UNCHANGED <<jobRest, locker>>
  /\ Collect(heap)

JobEnds(j) ==
  /\ j.pc = "check" /\ j.left = {} /\ j.drop = {}
  /\ jobs' = jobs \ {j}
  /\ locker' = 0
  /\ UNCHANGED <<jobRest, disk, stale>>
  /\ Collect(heap)

JobStep(j) ==
  \/ JobLocks(j) \/ JobQueries(j) \/ JobChecks(j) \/ JobDrops(j) \/ JobEnds(j)
  \/ \E o \in Objs : JobSaves(j, o)

-----------------------------------------------------------------------------
(* The rest of the program.                                                *)

\* import_route_profile, from the clipboard, a file or a download: AddRouteChain.
Import(enabled) ==
  /\ Op /\ Free # {} /\ max_route_chain_id < MaxId
  /\ UNCHANGED <<current_route_id, savedCurrent, dialog, ui, messages, jobs, locker, opens,
                 restarts, overtaken, leaked, stale, hasty, torn>>
  /\ LET i == max_route_chain_id + 1
         n == Min(Free)
     IN  /\ max_route_chain_id' = i
         /\ routes' = [routes EXCEPT ![i] = n]
         /\ disk' = Saved(disk, i, enabled)
         /\ wanted' = Saved(wanted, i, enabled)
         /\ Collect([heap EXCEPT ![n] = [id |-> i, enabled |-> enabled]])

\* The Routing menu offers the enabled profiles.
ChooseRoute(i) ==
  /\ Op /\ i \in Live.on \ {current_route_id}
  /\ current_route_id' = i /\ savedCurrent' = i
  /\ UNCHANGED <<heap, routes, max_route_chain_id, disk, dialog, ui, messages, jobs, locker,
                 opens, restarts, history>>

\* The program exits or dies and starts again: LoadManager, which makes a default
\* profile if it finds none.
Restart ==
  /\ restarts < MaxRestarts /\ restarts' = restarts + 1
  /\ LET loaded == IF disk.ids = {} THEN Saved(disk, 1, TRUE) ELSE disk
         half == torn \/ jobs # {} \/ messages \/ ui # "free"
     IN  /\ disk' = loaded
         /\ routes' = [i \in Ids |-> IF i \in loaded.ids THEN i ELSE NoObj]
         /\ heap' = [o \in Objs |-> IF o \in loaded.ids
                                    THEN [id |-> o, enabled |-> o \in loaded.on] ELSE NoObj]
         /\ max_route_chain_id' = Max(loaded.ids)
         /\ wanted' = IF half THEN loaded
                      ELSE [ids |-> wanted.ids \ overtaken, on |-> wanted.on \ overtaken]
         /\ leaked' = IF half THEN {} ELSE leaked \cup dialog.touched \cup stale
         /\ torn' = half
  /\ current_route_id' = savedCurrent
  /\ dialog' = Closed /\ ui' = "free" /\ messages' = FALSE
  /\ jobs' = {} /\ locker' = 0
  /\ overtaken' = {} /\ stale' = {}
  /\ UNCHANGED <<savedCurrent, opens, ops, hasty>>

Next ==
  \/ OpenDialog \/ Refresh \/ Cancel \/ Accept \/ AcceptFills \/ MessageArrives \/ Restart
  \/ \E o \in Objs : \/ CheckRoute(o) \/ ToggleRoute(o) \/ updateCurrentRouteProfile(o)
                     \/ EditRoute(o) \/ DeleteRoute(o)
  \/ \E enabled \in BOOLEAN : AddRoute(enabled) \/ Import(enabled)
  \/ \E i \in Ids : ChooseRoute(i)
  \/ \E j \in jobs : JobStep(j)

Spec == Init /\ [][Next]_vars

-----------------------------------------------------------------------------
Settled == ~dialog.open /\ ui = "free"

(***************************************************************************)
(* "At least one profile remains enabled" (CUSTOM_CHANGES.md:53), and the  *)
(* current one is enabled if it exists, so that the packet filter, which   *)
(* does not look, takes the same profile as the configuration: unless the  *)
(* window was cancelled after edits, OK came before a refresh, or an exit  *)
(* left half of a change on disk.  Only the second can make OK dereference *)
(* a null pointer (dialog_manage_routes.cpp:1127-1145, 1360-1420, 1545;    *)
(* mainwindow_rpc.cpp:774; ConfigBuilder.cpp:1416).                        *)
(***************************************************************************)
RouteIsUsable ==
  /\ Settled /\ leaked = {} /\ ~torn =>
       /\ Live.on # {}
       /\ current_route_id \in Live.ids => current_route_id \in Live.on \/ hasty
  /\ ui = "dead" => hasty

(***************************************************************************)
(* Once the threads are done, memory and disk have the profiles the user   *)
(* has accepted, imported and enabled.  Lost are those imported while the  *)
(* window was open; of the edits, those a cancelled window leaves behind   *)
(* and those an older thread has written over (Database.cpp:1301-1331;     *)
(* dialog_manage_routes.cpp:1033, 1419).                                   *)
(***************************************************************************)
AsAccepted ==
  Settled /\ jobs = {} =>
    /\ Live.ids = wanted.ids \ overtaken
    /\ disk.ids = Live.ids
    /\ \A i \in Live.ids \ leaked : i \in wanted.on <=> i \in Live.on
    /\ \A i \in Live.ids \ (leaked \cup stale) : i \in wanted.on <=> i \in disk.on
=============================================================================
