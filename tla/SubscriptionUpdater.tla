------------------------- MODULE SubscriptionUpdater -------------------------
(***************************************************************************)
(* Updates of subscriptions (src/gharqad/configs/sub/GroupUpdater.cpp) and *)
(* the user's operations, on the profile database.                         *)
(*                                                                         *)
(* An update reads the group's list, adds what is new in the subscription, *)
(* and deletes what is no longer in it, in a thread of its own and without *)
(* a lock; UI_update_all_groups updates one group after the other.         *)
(***************************************************************************)
EXTENDS ProfileDatabase

CONSTANTS
  SubClear,  \* the values of the setting sub_clear: a list is emptied first
  RmInvalid  \* those of sub_rm_invalid: invalid profiles are removed at the end

ASSUME UpdaterAssumption == SubClear \subseteq BOOLEAN /\ RmInvalid \subseteq BOOLEAN

VARIABLES
  upd,      \* the thread of an update
  updating  \* UI_update_all_groups_Updating

vars == <<dbVars, upd, updating>>

Idle == [pc |-> "idle", gid |-> Nil, content |-> {}, drop |-> {}, all |-> {},
         sub |-> {},     \* history: what the subscription has, while alone
         alone |-> TRUE] \* history: nothing else has changed the database

TypeOK ==
  /\ DbTypeOK
  /\ upd.pc \in {"idle", "begin", "fetch", "read", "clear", "save", "add", "drop",
                "finish", "hung"}
  /\ upd.gid \in Groups \cup {Nil}
  /\ upd.content \in SUBSET Keys /\ upd.sub \in SUBSET Keys
  /\ upd.drop \in SUBSET Ids
  /\ upd.all \in SUBSET Groups \* the groups UI_update_all_groups has still to update
  /\ updating \in BOOLEAN

Init == DbInit /\ upd = Idle /\ updating = FALSE

updRest == <<ops, updating>>

\* A step of somebody else.
Meanwhile == upd' = [upd EXCEPT !.alone = FALSE, !.sub = {}] /\ UNCHANGED updating

-----------------------------------------------------------------------------
(* What the user asks for.                                                 *)

Add(k, g) == Op /\ AddProfileBatch({k}, g) /\ Meanwhile

Delete(i) ==
  /\ \E g \in groups : i \in members[g]
  /\ Op /\ BatchDeleteProfiles({i}, TRUE) /\ Meanwhile

Move(i, g) ==
  /\ \E h \in groups : i \in members[h]
  /\ Op /\ MoveProfileBatch(i, g) /\ Meanwhile

DeleteGroup(g) == Op /\ BatchDeleteGroups(g) /\ Meanwhile

\* "Update from clipboard": the download takes its time, the id may be gone.
Replace(i, k) == Op /\ ReplaceProfile(i, k) /\ Meanwhile

RemoveInvalid(g) == Op /\ DropNulls(g) /\ Meanwhile

\* A test or a dialog takes a profile.
Get(i) == Op /\ HolderGets(i) /\ Meanwhile

\* Threads are still saving, or an update has deleted a list it has not saved yet.
HalfSaved == jobs # {} \/ upd.pc \in {"clear", "save"}

Exit == Restart(HalfSaved) /\ upd' = Idle /\ updating' = FALSE

-----------------------------------------------------------------------------
(* An update.                                                              *)

Goto(pc) == upd' = [upd EXCEPT !.pc = pc]
AtUpd(pc) == upd.pc = pc

AsyncUpdate(g) ==
  /\ AtUpd("idle") /\ Op /\ g \in groups
  /\ upd' = [Idle EXCEPT !.pc = "begin", !.gid = g]
  /\ UNCHANGED <<diskVars, memVars, jobs, locker, held, restarts, histVars, updating>>

UI_update_all_groups ==
  /\ AtUpd("idle") /\ Op /\ ~updating /\ groups # {}
  /\ updating' = TRUE
  /\ \E g \in groups :
       upd' = [Idle EXCEPT !.pc = "begin", !.gid = g, !.all = groups \ {g}]
  /\ UNCHANGED <<diskVars, memVars, jobs, locker, held, restarts, histVars>>

\* finish: serialUpdateSubscription goes on with the next group that is still there.
Finish ==
  LET next == upd.all \cap groups IN
  IF updating /\ next # {}
  THEN /\ \E g \in next : upd' = [Idle EXCEPT !.pc = "begin", !.gid = g, !.all = next \ {g}]
       /\ UNCHANGED updating
  ELSE upd' = Idle /\ updating' = FALSE

\* The thread finds its group, or has nothing to add to.
UpdateBegins ==
  /\ AtUpd("begin")
  /\ IF upd.gid \in groups THEN Goto("fetch") /\ UNCHANGED updating ELSE Finish
  /\ UNCHANGED dbVars

\* The group is archived, or the request fails.
UpdateFails == AtUpd("fetch") /\ Finish /\ UNCHANGED dbVars

\* The answer; the group may have been deleted meanwhile.
Fetched(content) ==
  /\ AtUpd("fetch")
  /\ LET alone == upd.gid \in groups /\ jobs = {} /\ held.pc = "none" IN
     upd' = [upd EXCEPT !.pc = "read", !.content = content, !.alone = alone,
                        !.sub = IF alone THEN content ELSE {}]
  /\ UNCHANGED <<dbVars, updating>>

KeyOf(i) == GetProfile(i).key

\* The bound on ids leaves room for what an update is going to add.
IdsLeft(content) == max_profile_id + Cardinality(content) <= MaxId

\* Mutant: the profiles that are kept need not differ.
MutKept(ids) == {keep \in SUBSET ids : \A i \in keep : KeyOf(i) \in upd.content}

\* What may be kept of a list: of each content at most one profile, the first that
\* is found.  The order of ProfileFilterKey is not a strict weak ordering, so that
\* ignore_map may miss a content it holds; it never finds a wrong one.
Kept(ids) ==
  {keep \in SUBSET ids :
     /\ \A i \in keep : KeyOf(i) \in upd.content
     /\ \A i, j \in keep : KeyOf(i) = KeyOf(j) => i = j}

\* The list is read and compared.
ReadList ==
  /\ AtUpd("read") /\ FALSE \in SubClear
  /\ \A i \in members[upd.gid] : Known(i)
  /\ \E keep \in Kept(members[upd.gid]) :
       LET news == upd.content \ {KeyOf(i) : i \in keep} IN
       /\ IdsLeft(news)
       /\ upd' = [upd EXCEPT !.pc = "save", !.drop = members[upd.gid] \ keep,
                             !.content = news]
  /\ UNCHANGED <<dbVars, updating>>

\* A listed id without a profile gives a key with a null pointer, which is
\* dereferenced once it is found not to be in the subscription.
ReadDies ==
  /\ AtUpd("read") /\ FALSE \in SubClear
  /\ \E i \in members[upd.gid] : ~Known(i)
  /\ Exit

\* sub_clear: all profiles but the running one are deleted, then the list emptied.
DeleteList ==
  /\ AtUpd("read") /\ TRUE \in SubClear /\ IdsLeft(upd.content)
  /\ BatchDeleteProfiles(members[upd.gid], FALSE)
  /\ Goto("clear") /\ UNCHANGED updRest

ClearList ==
  /\ AtUpd("clear")
  /\ members' = [members EXCEPT ![upd.gid] = {}]
  /\ Goto("save")
  /\ UNCHANGED <<diskVars, heap, cached, weak, groups, max_profile_id, started_id, jobs,
                 locker, held, restarts, histVars, updRest>>

\* group->Save(), without the lock, of a group that may have been deleted.
SaveGroup ==
  /\ AtUpd("save")
  /\ groupRec' = [groupRec EXCEPT ![upd.gid] = members[upd.gid]]
  /\ spoiled' = [spoiled EXCEPT !["inHand"] = @ \cup ({upd.gid} \cap deleted)]
  /\ Goto("add")
  /\ UNCHANGED <<record, memVars, jobs, locker, held, restarts, deleted, replaced, updRest>>

AddNew ==
  /\ AtUpd("add")
  /\ upd' = [upd EXCEPT !.pc = "drop", !.content = {}]
  /\ \/ upd.gid \in groups /\ upd.content # {} /\ AddProfileBatch(upd.content, upd.gid)
     \/ /\ upd.gid \notin groups \/ upd.content = {}
        /\ UNCHANGED <<diskVars, memVars, jobs, locker, held, restarts, histVars>>
  /\ UNCHANGED updRest

DropOld ==
  /\ AtUpd("drop")
  /\ BatchDeleteProfiles(upd.drop, TRUE)
  /\ upd' = [upd EXCEPT !.pc = "finish", !.drop = {}]
  /\ UNCHANGED updRest

\* PreFinishJob, with the removal of invalid profiles: it waits for as many pool
\* tasks as there are profiles; with none, for ever.
Listed == {i \in members[upd.gid] : Known(i)}

PreFinishHangs ==
  /\ AtUpd("finish") /\ TRUE \in RmInvalid /\ Listed = {}
  /\ upd' = [upd EXCEPT !.pc = "hung", !.sub = {}]
  /\ UNCHANGED <<dbVars, updating>>

PreFinish ==
  /\ AtUpd("finish")
  /\ \/ FALSE \in RmInvalid /\ UNCHANGED <<diskVars, memVars, jobs, locker, held, restarts, histVars>>
     \/ /\ TRUE \in RmInvalid
        /\ \E invalid \in (SUBSET Listed) \ {{}} : BatchDeleteProfiles(invalid, TRUE)
  /\ Finish
  /\ UNCHANGED ops

UpdateStep ==
  \/ UpdateBegins \/ UpdateFails
  \/ \E c \in SUBSET Keys : Fetched(c)
  \/ ReadList \/ ReadDies \/ DeleteList \/ ClearList \/ SaveGroup
  \/ AddNew \/ DropOld \/ PreFinishHangs \/ PreFinish

-----------------------------------------------------------------------------
Request ==
  \/ \E k \in Keys, g \in Groups : Add(k, g)
  \/ \E i \in Ids : Delete(i) \/ Get(i)
  \/ \E i \in Ids, g \in Groups : Move(i, g)
  \/ \E i \in Ids, k \in Keys : Replace(i, k)
  \/ \E g \in Groups : DeleteGroup(g) \/ RemoveInvalid(g) \/ AsyncUpdate(g)
  \/ UI_update_all_groups

Next ==
  \/ Request
  \/ UpdateStep
  \/ (\E j \in jobs : JobStep(j)) /\ UNCHANGED <<upd, updating>>
  \/ (HolderStep \/ \E i \in Ids : Evict(i)) /\ UNCHANGED <<upd, updating>>
  \/ Exit

Spec == Init /\ [][Next]_vars

-----------------------------------------------------------------------------
Quiet == jobs = {} /\ held.pc = "none" /\ upd.pc \in {"idle", "hung"}

\* A profile that was moved, a group that was deleted and is back, a profile whose id
\* such a group still lists, and everything after an exit in the middle of a save.
Spared(g, i) ==
  {g, i} \cap (spoiled["moved"] \cup spoiled["reused"] \cup (deleted \cap Groups)
                \cup spoiled["torn"]) # {}

(***************************************************************************)
(* A group lists no id without a profile: an update that meets one         *)
(* dereferences a null pointer (GroupUpdater.cpp:1512-1516, 1539-1541).    *)
(* Only a profile that was moved, whose record keeps the old group         *)
(* (Database.cpp:1057, 1081), an exit with threads still saving, and a     *)
(* group that an update has saved again after it was deleted               *)
(* (GroupUpdater.cpp:1524) can leave one.                                  *)
(***************************************************************************)
ListedExists ==
  Quiet => \A g \in groups : \A i \in members[g] : Known(i) \/ Spared(g, i)

(***************************************************************************)
(* No profile is listed by two groups, and no id is given to a second      *)
(* profile while a group still lists it, with the same exceptions          *)
(* (Database.cpp:985-992, 753-779, 1071-1074).                             *)
(***************************************************************************)
OneOwner ==
  \A g, h \in groups : \A i \in members[g] \cap members[h] : g = h \/ Spared(g, i) \/ Spared(h, i)

(***************************************************************************)
(* A deleted profile stays deleted, and so does a group, once the threads  *)
(* are done: its record comes back only when somebody had the object in    *)
(* hand when it was deleted, or got it again before the record was dropped *)
(* (Database.cpp:1118-1130, 995-1004, 1242-1253; ProxyEntity.cpp:107-113). *)
(***************************************************************************)
DeletedStays ==
  Quiet => \A x \in deleted \ UNION {spoiled[s] : s \in {"inHand", "askedLate", "torn"}} :
             IF x \in Groups THEN groupRec[x] = NoRecord ELSE record[x] = NoRecord

(***************************************************************************)
(* "the replaced entity may still be referenced, it must not write itself  *)
(* back" (Database.cpp:1024): once ReplaceProfile is done the record has   *)
(* the new content, and keeps it, unless a second object of the profile    *)
(* was in memory or the record was being read during the replacement.      *)
(***************************************************************************)
ReplacedStays ==
  \A i \in Ids \ (deleted \cup spoiled["aliased"] \cup spoiled["torn"]) :
    replaced[i] # Nil /\ (\A j \in jobs : i \notin j.uncache) =>
      record[i] # NoRecord /\ record[i].key = replaced[i]

\* The content of a profile, which a thread may just be about to write.
Content(i) ==
  IF Known(i) THEN KeyOf(i) ELSE (CHOOSE x \in {heap[o] : o \in Objs \ Free} : x.id = i).key

(***************************************************************************)
(* When nothing else has changed the database meanwhile, an update leaves  *)
(* the group with the contents of the subscription, each once, and at most *)
(* the running profile besides (GroupUpdater.cpp:1307-1316, 1500-1550).    *)
(* A profile that was read during its replacement is excepted: the update  *)
(* may compare the old content, which the LRU cache still has.             *)
(***************************************************************************)
UpdateSyncs ==
  /\ AtUpd("finish") /\ upd.alone /\ spoiled["torn"] = {}
  /\ \A i \in members[upd.gid] : ~Spared(upd.gid, i) /\ i \notin spoiled["aliased"]
  =>
    LET others == members[upd.gid] \ {started_id} IN
    /\ {Content(i) : i \in others} \subseteq upd.sub
    /\ upd.sub \subseteq {Content(i) : i \in members[upd.gid]}
    /\ \A i, j \in others : Content(i) = Content(j) => i = j
=============================================================================
