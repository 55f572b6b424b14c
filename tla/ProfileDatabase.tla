--------------------------- MODULE ProfileDatabase ---------------------------
(***************************************************************************)
(* ProfileManager of src/gharqad/dataStore/Database.cpp: the groups in     *)
(* memory, the two caches of profile objects, the records on disk, and the *)
(* threads that write the ones to the other.                               *)
(*                                                                         *)
(* A change is made in memory at once and saved by a thread of its own.    *)
(* These threads exclude each other (ProfileManager::lock) but start in    *)
(* any order, and everybody else (GetProfile, ProxyEntity::Save,           *)
(* Group::Save) does without the lock.  A profile may be in memory several *)
(* times: Save takes it out of cached_profiles, and the next GetProfile    *)
(* reads the record again.                                                 *)
(*                                                                         *)
(* A profile is abstracted to its content (key) and its group; the list of *)
(* a group is a set; a record and its bean are one.                        *)
(***************************************************************************)
EXTENDS Naturals, Sequences, FiniteSets, SequencesExt

CONSTANTS
  Keys,         \* contents a profile may have
  Groups,       \* ids of groups
  Objs,         \* bound: profile objects in memory at a time, numbers
  MaxId,        \* bound: the largest profile id
  MaxJobs,      \* bound: threads saving at a time
  MaxOps,       \* bound: operations asked for
  MaxRestarts,  \* bound: exits and crashes of the program
  NoId, Nil, NoRecord

Ids == 1 .. MaxId
Objects == [id : Ids, key : Keys, gid : Groups, no_save : BOOLEAN]
Records == [key : Keys, gid : Groups]

\* A group is told from a profile by its id, and nothing from something.
ASSUME DatabaseAssumption ==
  /\ IsFiniteSet(Keys) /\ IsFiniteSet(Groups)
  /\ Objs \subseteq Nat /\ IsFiniteSet(Objs) /\ Objs # {}
  /\ {MaxJobs, MaxOps, MaxRestarts} \subseteq Nat
  /\ MaxId \in Nat \ {0}
  /\ Groups \cap Ids = {}
  /\ NoId \notin Nat
  /\ Nil \notin Objs /\ Nil \notin Keys /\ Nil \notin Groups /\ Nil \notin Objects
  /\ NoRecord \notin Records /\ \A s \in SUBSET Ids : s # NoRecord

VARIABLES
  record,         \* disk: the record of a profile
  groupRec,       \* disk: the profiles a group lists, or NoRecord
  heap,           \* the objects in memory that somebody refers to
  cached,         \* cached_profiles
  weak,           \* weak_profiles, the LRU cache
  groups,         \* the groups in memory
  members,        \* Group::profiles of the group objects
  max_profile_id,
  started_id,     \* dataStore->started_id
  jobs,           \* threads that save
  locker,         \* the one that holds the lock, by its op, or 0
  held,           \* a thread that works on a profile (a test, a dialog)
  ops, restarts,
  deleted,        \* history: profiles and groups that were deleted
  replaced,       \* history: what a profile was replaced by
  spoiled         \* history: per exception below, the ids it has happened to

diskVars == <<record, groupRec>>
memVars == <<heap, cached, weak, groups, members, max_profile_id, started_id>>
histVars == <<deleted, replaced, spoiled>>
dbVars == <<diskVars, memVars, jobs, locker, held, ops, restarts, histVars>>


\* A thread that saves: the groups and objects it has still to save, the object
\* it has taken out of the cache and is about to write, what it drops at the end,
\* and the id ReplaceProfile uncaches once more.
Job == [op : Nat, groups : SUBSET Groups, ents : SUBSET Objs, write : Objs \cup {Nil},
        drop : SUBSET Ids, dropGroups : SUBSET Groups, uncache : SUBSET Ids]
NewJob == [op |-> Min({n \in 1 .. Cardinality(jobs) + 1 : \A j \in jobs : j.op # n}), 
           groups |-> {}, ents |-> {}, write |-> Nil, drop |-> {}, dropGroups |-> {},
           uncache |-> {}]

\* runOnNewThread
RunOnNewThread(j) == Cardinality(jobs) < MaxJobs /\ jobs' = jobs \cup {j}

NotHeld == [pc |-> "none", obj |-> Nil]

Spoilers == {"moved", "reused", "inHand", "askedLate", "aliased", "torn"}

DbTypeOK ==
  /\ record \in [Ids -> Records \cup {NoRecord}]
  /\ groupRec \in [Groups -> (SUBSET Ids) \cup {NoRecord}]
  /\ heap \in [Objs -> Objects \cup {Nil}]
  /\ cached \in [Ids -> Objs \cup {Nil}]
  /\ weak \in [Ids -> Objs \cup {Nil}]
  /\ groups \in SUBSET Groups
  /\ members \in [Groups -> SUBSET Ids]
  /\ max_profile_id \in 0 .. MaxId
  /\ started_id \in Ids \cup {NoId}
  /\ jobs \in SUBSET Job
  /\ locker \in Nat
  /\ held \in [pc : {"none", "loaded", "has", "write"}, obj : Objs \cup {Nil}]
  /\ ops \in Nat /\ restarts \in Nat
  /\ deleted \in SUBSET (Ids \cup Groups)
  /\ replaced \in [Ids -> Keys \cup {Nil}]
  /\ spoiled \in [Spoilers -> SUBSET (Ids \cup Groups)]

-----------------------------------------------------------------------------
(* Objects.                                                                *)

Refs == {cached[i] : i \in Ids} \cup {weak[i] : i \in Ids} \cup {held.obj}
          \cup UNION {j.ents \cup {j.write} : j \in jobs}

\* The heap after a step is h, less the objects nobody refers to any more.
Collect(h) == heap' = [o \in Objs |-> IF o \in Refs' THEN h[o] ELSE Nil]

Free == {o \in Objs : heap[o] = Nil}

\* n new objects, the first free ones.
Room(n) == Cardinality(Free) >= n
NewObj == Min(Free)

Put(h, o, x) == [h EXCEPT ![o] = x]

FromRecord(i) ==
  [id |-> i, key |-> record[i].key, gid |-> record[i].gid, no_save |-> FALSE]

\* The object the caches have for an id.
Cached(i) == IF cached[i] # Nil THEN cached[i] ELSE weak[i]

\* GetProfile(i) # nullptr, and what it returns.
Known(i) == Cached(i) # Nil \/ record[i] # NoRecord
GetProfile(i) == IF Cached(i) # Nil THEN heap[Cached(i)] ELSE FromRecord(i)

\* GetProfile leaves what it has loaded in weak_profiles.
Loaded(i) == IF Cached(i) # Nil THEN Cached(i) ELSE NewObj
CanLoad(i) == Known(i) /\ (Cached(i) # Nil \/ Room(1))

Uncached(c, ids) == [i \in DOMAIN c |-> IF i \in ids THEN Nil ELSE c[i]]

\* Somebody other than the caches has an object of profile i.
InHand(i) ==
  \/ held.obj # Nil /\ heap[held.obj].id = i
  \/ \E j \in jobs : \E o \in j.ents \cup {j.write} : o # Nil /\ heap[o].id = i

\* Deleted, but still on disk.
Dropping == UNION {j.drop : j \in jobs}

\* Whoever loads the profile reads a record that its replacement has still to write.
ReadsOld(i) == Cached(i) = Nil /\ \E j \in jobs : i \in j.uncache

Spoil(kind, xs) == spoiled' = [spoiled EXCEPT ![kind] = @ \cup xs]

-----------------------------------------------------------------------------
\* No profile yet, or one, which the list shows and which may be running.
DbInit ==
  \E first \in {{}, {1}}, k \in Keys, g \in Groups :
    /\ record = [i \in Ids |-> IF i \in first THEN [key |-> k, gid |-> g] ELSE NoRecord]
    /\ groupRec = [h \in Groups |-> IF h = g THEN first ELSE {}]
    /\ weak = [i \in Ids |-> IF i \in first THEN Min(Objs) ELSE Nil]
    /\ heap = [o \in Objs |-> IF \E i \in first : weak[i] = o
                               THEN [id |-> 1, key |-> k, gid |-> g, no_save |-> FALSE]
                               ELSE Nil]
    /\ cached = [i \in Ids |-> Nil]
    /\ groups = Groups
    /\ members = groupRec
    /\ max_profile_id = Cardinality(first)
    /\ started_id \in {NoId} \cup first
    /\ jobs = {} /\ locker = 0 /\ held = NotHeld
    /\ ops = 0 /\ restarts = 0
    /\ deleted = {} /\ replaced = [i \in Ids |-> Nil]
    /\ spoiled = [s \in Spoilers |-> {}]

Op == ops < MaxOps /\ ops' = ops + 1

-----------------------------------------------------------------------------
(* The operations.  Some are steps of a longer one, so that the counter of *)
(* operations is left to the action that takes them.                       *)

\* Mutant: ids are counted from the last record, not from the last one given out.
MutLastId == Max({0} \cup {i \in Ids : record[i] # NoRecord})

LastId == max_profile_id

\* A group that was deleted, and may be back, lists the id.
ListedBack(i) ==
  \E g \in deleted \cap Groups :
    i \in members[g] \/ (groupRec[g] # NoRecord /\ i \in groupRec[g])

\* New profiles of group gid, with the contents ks, get the next ids and are
\* listed and cached; a thread saves the group, then each of them.
AddProfileBatch(ks, gid) ==
  LET size == Cardinality(ks)
      key == SetToSeq(ks)
      obj == SetToSeq(Free)
      news == {LastId + n : n \in 1 .. size}
  IN  /\ gid \in groups /\ news \subseteq Ids /\ Room(size)
      /\ max_profile_id' = LastId + size
      /\ members' = [members EXCEPT ![gid] = @ \cup news]
      /\ cached' = [i \in Ids |-> IF i \in news THEN obj[i - LastId] ELSE cached[i]]
      /\ RunOnNewThread([NewJob EXCEPT !.groups = {gid},
                                        !.ents = {obj[n] : n \in 1 .. size}])
      /\ deleted' = deleted \ news
      /\ replaced' = [i \in Ids |-> IF i \in news THEN Nil ELSE replaced[i]]
      /\ Spoil("reused", {i \in news : ListedBack(i)})
      /\ UNCHANGED <<diskVars, weak, groups, started_id, locker, held, restarts>>
      /\ Collect([o \in Objs |->
           IF \E n \in 1 .. size : obj[n] = o
           THEN LET n == CHOOSE n \in 1 .. size : obj[n] = o IN
                [id |-> LastId + n, key |-> key[n], gid |-> gid, no_save |-> FALSE]
           ELSE heap[o]])

\* The running profile is skipped, and so is one GetProfile does not find.
Deletable(ids) == {i \in ids : i # started_id /\ Known(i)}

\* Mutant: the object in cached_profiles is forgotten, the LRU cache is not.
MutForget(ids) == cached' = Uncached(cached, ids) /\ weak' = weak

Forget(ids) == cached' = Uncached(cached, ids) /\ weak' = Uncached(weak, ids)

\* Mutant: only profiles in the cache are taken from their group's list.
MutOf(g, dels) == {i \in dels : cached[i] # Nil /\ GetProfile(i).gid = g}

\* The profiles to delete whose object names group g.
Of(g, dels) == {i \in dels : GetProfile(i).gid = g}

\* Profiles leave the caches and, unless unlist is FALSE (the caller passes -999),
\* the group their object names; a thread saves these groups and drops the records.
BatchDeleteProfiles(ids, unlist) ==
  LET dels == Deletable(ids)
      from(g) == IF unlist /\ g \in groups THEN Of(g, dels) ELSE {}
  IN  /\ members' = [g \in Groups |-> members[g] \ from(g)]
      /\ Forget(dels)
      /\ IF dels = {} THEN UNCHANGED jobs
         ELSE RunOnNewThread([NewJob EXCEPT !.groups = {g \in Groups : from(g) # {}},
                                            !.drop = dels])
      /\ deleted' = deleted \cup dels
      /\ Spoil("inHand", {i \in dels : InHand(i)})
      /\ UNCHANGED <<diskVars, groups, max_profile_id, started_id, locker, held,
                     restarts, replaced>>
      /\ Collect(heap)

\* Mutant: the replaced object may still save itself.
MutSilenced(o) == heap

Silenced(o) == [heap EXCEPT ![o].no_save = TRUE]

\* Another object of profile i than its cached one can still be saved, or the
\* record is just being read.
Aliased(i) ==
  \/ held.pc = "loaded" /\ heap[held.obj].id = i
  \/ \E o \in Objs : /\ o # Cached(i) /\ heap[o] # Nil
                     /\ heap[o].id = i /\ ~heap[o].no_save

\* The profile gets a new object, the old one is never saved again.  The thread
\* goes on to save it and to empty the caches a second time.
ReplaceProfile(i, k) ==
  LET old == Cached(i)
      h == IF old = Nil THEN heap ELSE Silenced(old)
  IN  /\ Known(i) /\ Room(1)
      /\ weak' = [weak EXCEPT ![i] = Nil]
      /\ cached' = [cached EXCEPT ![i] = NewObj]
      /\ RunOnNewThread([NewJob EXCEPT !.ents = {NewObj}, !.uncache = {i}])
      /\ replaced' = [replaced EXCEPT ![i] = k]
      /\ spoiled' = [spoiled EXCEPT
           !["aliased"] = @ \cup {x \in {i} : Aliased(x)},
           !["askedLate"] = @ \cup ({i} \cap Dropping)]
      /\ UNCHANGED <<diskVars, groups, members, max_profile_id, started_id, locker, held,
                     restarts, deleted>>
      /\ Collect([h EXCEPT ![NewObj] =
           [id |-> i, key |-> k, gid |-> GetProfile(i).gid, no_save |-> FALSE]])

\* The profile changes its list and its object; the thread saves the two lists
\* (the set of objects to save is never filled).
MoveProfileBatch(i, gid) ==
  LET old == GetProfile(i).gid IN
  /\ CanLoad(i) /\ gid \in groups /\ old \in groups /\ old # gid
  /\ members' = [members EXCEPT ![old] = @ \ {i}, ![gid] = @ \cup {i}]
  /\ weak' = [weak EXCEPT ![i] = IF cached[i] = Nil THEN Loaded(i) ELSE @]
  /\ RunOnNewThread([NewJob EXCEPT !.groups = {old, gid}])
  /\ spoiled' = [spoiled EXCEPT !["moved"] = @ \cup {i},
                                !["askedLate"] = @ \cup ({i} \cap deleted),
                                !["aliased"] = @ \cup {x \in {i} : ReadsOld(x)}]
  /\ UNCHANGED <<diskVars, cached, groups, max_profile_id, started_id, locker, held,
                 restarts, deleted, replaced>>
  /\ Collect([heap EXCEPT ![Loaded(i)] = [GetProfile(i) EXCEPT !.gid = gid]])

\* The group goes; the thread no longer finds it, so that its profiles stay, and
\* drops its record.
BatchDeleteGroups(g) ==
  /\ g \in groups /\ Cardinality(groups) > 1
  /\ groups' = groups \ {g}
  /\ RunOnNewThread([NewJob EXCEPT !.dropGroups = {g}])
  /\ deleted' = deleted \cup {g}
  /\ Spoil("inHand", {h \in {g} : \E j \in jobs : h \in j.groups})
  /\ UNCHANGED <<diskVars, heap, cached, weak, members, max_profile_id, started_id,
                 locker, held, restarts, replaced>>

\* "Remove invalid": ids without a profile leave the list.
DropNulls(g) ==
  LET nulls == {i \in members[g] : ~Known(i)} IN
  /\ g \in groups
  /\ members' = [members EXCEPT ![g] = @ \ nulls]
  /\ groupRec' = [groupRec EXCEPT ![g] = members'[g]]
  /\ UNCHANGED <<record, heap, cached, weak, groups, max_profile_id, started_id, jobs,
                 locker, held, restarts, histVars>>

-----------------------------------------------------------------------------
(* The threads that save.                                                  *)

Locks(j) == locker \in {0, j.op} /\ locker' = j.op
Becomes(j, k) == jobs' = (jobs \ {j}) \cup {k}

JobSavesGroup(j, g) ==
  /\ g \in j.groups /\ Locks(j)
  /\ groupRec' = [groupRec EXCEPT ![g] = members[g]]
  /\ Becomes(j, [j EXCEPT !.groups = @ \ {g}])
  /\ UNCHANGED <<record, memVars, held, ops, restarts, histVars>>

\* ProxyEntity::Save: out of cached_profiles first, whatever object is there.
JobUncaches(j, o) ==
  /\ j.groups = {} /\ j.write = Nil /\ o \in j.ents /\ Locks(j)
  /\ cached' = [cached EXCEPT ![heap[o].id] = Nil]
  /\ Becomes(j, [j EXCEPT !.ents = @ \ {o}, !.write = o])
  /\ UNCHANGED <<diskVars, weak, groups, members, max_profile_id, started_id, held, ops,
                 restarts, histVars>>
  /\ Collect(heap)

\* The record is written, unless the object was replaced.
Written(o) ==
  IF heap[o].no_save THEN record
  ELSE [record EXCEPT ![heap[o].id] = [key |-> heap[o].key, gid |-> heap[o].gid]]

JobWrites(j) ==
  /\ j.write # Nil /\ Locks(j)
  /\ record' = Written(j.write)
  /\ Becomes(j, [j EXCEPT !.write = Nil])
  /\ UNCHANGED <<groupRec, cached, weak, groups, members, max_profile_id, started_id, held,
                 ops, restarts, histVars>>
  /\ Collect(heap)

JobEnds(j) ==
  /\ j.groups = {} /\ j.ents = {} /\ j.write = Nil
  /\ locker \in {0, j.op} /\ locker' = 0
  /\ record' = [i \in Ids |-> IF i \in j.drop THEN NoRecord ELSE record[i]]
  /\ groupRec' = [g \in Groups |-> IF g \in j.dropGroups THEN NoRecord ELSE groupRec[g]]
  /\ jobs' = jobs \ {j}
  /\ Forget(j.uncache)
  /\ UNCHANGED <<groups, members, max_profile_id, started_id, held, ops, restarts, histVars>>
  /\ Collect(heap)

JobStep(j) ==
  \/ \E g \in Groups : JobSavesGroup(j, g)
  \/ \E o \in Objs : JobUncaches(j, o)
  \/ JobWrites(j)
  \/ JobEnds(j)

-----------------------------------------------------------------------------
(* A thread that works on one profile: it gets it, and saves it or not.    *)

heldRest == <<groups, members, max_profile_id, started_id, jobs, locker, restarts,
              deleted, replaced>>

\* GetProfile finds an object in a cache, or reads the record.
HolderGets(i) ==
  /\ held.pc = "none" /\ CanLoad(i)
  /\ held' = [pc |-> IF Cached(i) = Nil THEN "loaded" ELSE "has", obj |-> Loaded(i)]
  /\ spoiled' = [spoiled EXCEPT
       !["askedLate"] = @ \cup ({i} \cap Dropping),
       !["aliased"] = @ \cup {x \in {i} : ReadsOld(x)}]
  /\ UNCHANGED <<diskVars, cached, weak, heldRest>>
  /\ Collect([heap EXCEPT ![Loaded(i)] = GetProfile(i)])

\* What was read goes into weak_profiles, whatever has happened meanwhile.
HolderCaches ==
  /\ held.pc = "loaded"
  /\ weak' = [weak EXCEPT ![heap[held.obj].id] = held.obj]
  /\ held' = [held EXCEPT !.pc = "has"]
  /\ UNCHANGED <<diskVars, cached, heldRest, ops, spoiled>>
  /\ Collect(heap)

HolderUncaches ==
  /\ held.pc = "has"
  /\ cached' = [cached EXCEPT ![heap[held.obj].id] = Nil]
  /\ held' = [held EXCEPT !.pc = "write"]
  /\ UNCHANGED <<diskVars, weak, heldRest, ops, spoiled>>
  /\ Collect(heap)

HolderWrites ==
  /\ held.pc = "write"
  /\ record' = Written(held.obj)
  /\ held' = NotHeld
  /\ UNCHANGED <<groupRec, cached, weak, heldRest, ops, spoiled>>
  /\ Collect(heap)

\* The tests are stopped before this one, or a dialog only looks.
HolderLeaves ==
  /\ held.pc = "has"
  /\ held' = NotHeld
  /\ UNCHANGED <<diskVars, cached, weak, heldRest, ops, spoiled>>
  /\ Collect(heap)

HolderStep == HolderCaches \/ HolderUncaches \/ HolderWrites \/ HolderLeaves

\* The LRU cache makes room.
Evict(i) ==
  /\ weak[i] # Nil
  /\ weak' = [weak EXCEPT ![i] = Nil]
  /\ UNCHANGED <<diskVars, cached, held, heldRest, ops, spoiled>>
  /\ Collect(heap)

-----------------------------------------------------------------------------
\* The last id, as LoadManager finds it.
LoadedMax == Max({0} \cup {i \in Ids : record[i] # NoRecord})

\* History: nobody has an object in hand any more; a profile that was excepted is
\* as it is on disk.  After a torn exit nothing is claimed of what was there.
Forgive(torn) ==
  LET all == Ids \cup Groups
      past == IF torn THEN all
              ELSE Ids \cap (spoiled["inHand"] \cup spoiled["askedLate"]
                               \cup spoiled["aliased"])
  IN  /\ deleted' = deleted \ past
      /\ replaced' = [i \in Ids |-> IF i \in past THEN Nil ELSE replaced[i]]
      /\ spoiled' = [s \in Spoilers |->
           CASE s = "torn" -> IF torn THEN all ELSE spoiled[s]
             [] s \in {"moved", "reused"} -> IF torn THEN {} ELSE spoiled[s]
             [] OTHER -> spoiled[s] \ past]

\* The program exits or dies, its threads wherever they are, and is started again:
\* LoadManager.  An exit is torn when a change was only half on disk.
Restart(torn) ==
  /\ restarts < MaxRestarts /\ restarts' = restarts + 1
  /\ \E g \in Groups : groupRec[g] # NoRecord
  /\ groups' = {g \in Groups : groupRec[g] # NoRecord}
  /\ members' = [g \in Groups |-> IF groupRec[g] = NoRecord THEN {} ELSE groupRec[g]]
  /\ max_profile_id' = LoadedMax
  /\ started_id' = NoId
  /\ heap' = [o \in Objs |-> Nil]
  /\ cached' = [i \in Ids |-> Nil] /\ weak' = [i \in Ids |-> Nil]
  /\ jobs' = {} /\ locker' = 0 /\ held' = NotHeld
  /\ Forgive(torn)
  /\ UNCHANGED <<diskVars, ops>>
=============================================================================
