---------------------- MODULE SubscriptionUpdaterProofs ----------------------
(***************************************************************************)
(* TLAPS proofs about SubscriptionUpdater, for any profiles, groups,       *)
(* contents, objects and bounds: that the lists of the groups are sound,   *)
(* that deleted profiles and groups stay deleted, and replaced ones keep   *)
(* their new content, and that an update that nothing interferes with      *)
(* leaves its group with the contents of the subscription.                 *)
(*                                                                         *)
(* A group lists only profiles that exist, and no profile is in two lists: *)
(* neither is inductive.  ListInv is: it looks at the lists in memory and  *)
(* in the files together, counts a profile as alive while a thread is      *)
(* going to save it, keeps what a thread is going to drop out of every     *)
(* list, and bounds every id in use by max_profile_id.  It holds of a      *)
(* profile until something unusual is recorded of it (spoiled), and of     *)
(* everything until an exit has torn a save.                               *)
(*                                                                         *)
(* HistInv is about what was deleted or replaced: no object is left that   *)
(* could write the old record, and the thread that drops it, or writes the *)
(* new one, is still there.  It also says that the objects of a profile    *)
(* that may still be saved have one content, and the record has it too     *)
(* unless a thread is just replacing the profile (Coherent).               *)
(*                                                                         *)
(* Syncs says how far an update has come: what it has compared and what it *)
(* has still to add make up the subscription (Agreed), and the profiles    *)
(* to drop have a record, so that they are found.  It is about the content *)
(* GetProfile returns, which the caches must not spoil (Clean).            *)
(*                                                                         *)
(* Every operation has a lemma that it keeps the first (...Keeps), one for *)
(* the second (...History), and those that matter to an update one for     *)
(* the last (...Syncs); ListStep, HistStep and OperationHistory say once   *)
(* what is needed of a step for the first two, and Leaves for the last.    *)
(***************************************************************************)
EXTENDS SubscriptionUpdater, FiniteSetTheorems, TLAPS

-----------------------------------------------------------------------------
(* Sets of numbers, and a set as a sequence.                               *)

\* A set of naturals that is not empty has a least element.
LEMMA NatMin == ASSUME NEW S \in SUBSET Nat, S # {} PROVE \E m \in S : \A n \in S : m <= n
<1> DEFINE R == OpToRel(<, Nat)
<1>1. IsWellFoundedOn(R, Nat)
  BY NatLessThanWellFounded
<1>2. \A x, y \in Nat : x < y => <<x, y>> \in R
  BY DEF OpToRel
<1> HIDE DEF R
<1>3. PICK m \in S : \A n \in S : <<n, m>> \notin R
  BY <1>1, WFMin
<1>4. \A n \in S : ~(n < m)
  BY <1>2, <1>3
<1>5. ASSUME NEW n \in S PROVE m <= n
  <2>1. ~(n < m) /\ n \in Nat /\ m \in Nat
    BY <1>4
  <2> QED
    BY <2>1
<1> QED
  BY <1>5

\* Max is an element of a bounded set of naturals, and its greatest: LoadManager takes
\* max_profile_id so.
LEMMA MaxIn == ASSUME NEW b \in Nat, NEW S \in SUBSET (0 .. b), S # {}
   PROVE Max(S) \in S /\ \A n \in S : n <= Max(S)
<1> DEFINE T == {n \in Nat : b - n \in S}
<1>1. PICK s \in S : TRUE
  OBVIOUS
<1>2. T \in SUBSET Nat /\ b - s \in T
  BY <1>1
<1>3. PICK m \in T : \A n \in T : m <= n
  BY <1>2, NatMin
<1>4. b - m \in S /\ \A n \in S : n <= b - m
  <2>1. b - m \in S
    OBVIOUS
  <2>2. ASSUME NEW n \in S PROVE n <= b - m
    <3>1. b - n \in T
      OBVIOUS
    <3>2. m <= b - n /\ m \in Nat /\ n \in 0 .. b
      BY <3>1, <1>3
    <3> HIDE DEF T
    <3> QED
      BY <3>2
  <2> QED BY <2>1, <2>2
<1>5. \E x \in S : \A n \in S : x >= n
  BY <1>4
<1>6. Max(S) \in S /\ \A n \in S : Max(S) >= n
  BY <1>5, Zenon DEF Max
<1> QED
  BY <1>6

\* Min is an element of a set of naturals: a thread and an object get the first free number.
LEMMA MinIn == ASSUME NEW S \in SUBSET Nat, S # {}
   PROVE Min(S) \in S
  BY NatMin, Zenon DEF Min

\* SetToSeq lists a finite set, each element once: the profiles of AddProfileBatch.
LEMMA SetToSeqIs ==
  ASSUME NEW S, IsFiniteSet(S)
  PROVE  /\ SetToSeq(S) \in [1 .. Cardinality(S) -> S]
         /\ \A a, b \in 1 .. Cardinality(S) : SetToSeq(S)[a] = SetToSeq(S)[b] => a = b
         /\ \A x \in S : \E n \in 1 .. Cardinality(S) : SetToSeq(S)[n] = x
         /\ Cardinality(S) \in Nat
<1>1. Cardinality(S) \in Nat /\ ExistsBijection(1 .. Cardinality(S), S)
  BY FS_CardinalityType, Zenon
<1>4. \E g \in [1 .. Cardinality(S) -> S] : IsInjective(g)
  BY <1>1, Zenon DEF ExistsBijection, Bijection, Injection
<1>5. SetToSeq(S) \in [1 .. Cardinality(S) -> S] /\ IsInjective(SetToSeq(S))
  BY <1>4, Zenon DEF SetToSeq
<1>6. Cardinality(1 .. Cardinality(S)) = Cardinality(S)
  <2>1. PICK n \in Nat : n = Cardinality(S)
    BY <1>1
  <2>2. Cardinality(1 .. n) = IF 1 > n THEN 0 ELSE n - 1 + 1
    BY FS_Interval
  <2>3. Cardinality(1 .. n) = n
    BY <2>2
  <2> QED
    BY <2>1, <2>3
<1>7. SetToSeq(S) \in Surjection(1 .. Cardinality(S), S)
  <2>1. SetToSeq(S) \in Injection(1 .. Cardinality(S), S)
    BY <1>5, Zenon DEF Injection
  <2> QED
    BY <1>6, <2>1, FS_Injection
<1>8. \A x \in S : \E n \in 1 .. Cardinality(S) : SetToSeq(S)[n] = x
  BY <1>7, Zenon DEF Surjection
<1> QED
  BY <1>1, <1>5, <1>8 DEF IsInjective

-----------------------------------------------------------------------------
(* The invariant of the lists, and what it asks of a step.                 *)

\* A thread that saves, with its fields.
IsJob(j) ==
  /\ j = [op |-> j.op, groups |-> j.groups, ents |-> j.ents, write |-> j.write,
          drop |-> j.drop, dropGroups |-> j.dropGroups, uncache |-> j.uncache]
  /\ j.groups \in SUBSET Groups /\ j.ents \in SUBSET Objs /\ j.write \in Objs \cup {Nil}
  /\ j.drop \in SUBSET Ids /\ j.dropGroups \in SUBSET Groups /\ j.uncache \in SUBSET Ids

\* The values of the database.
Typed ==
  /\ record \in [Ids -> Records \cup {NoRecord}]
  /\ groupRec \in [Groups -> (SUBSET Ids) \cup {NoRecord}]
  /\ heap \in [Objs -> Objects \cup {Nil}]
  /\ cached \in [Ids -> Objs \cup {Nil}]
  /\ weak \in [Ids -> Objs \cup {Nil}]
  /\ groups \in SUBSET Groups
  /\ members \in [Groups -> SUBSET Ids]
  /\ max_profile_id \in 0 .. MaxId
  /\ \A j \in jobs : IsJob(j)
  /\ held = [pc |-> held.pc, obj |-> held.obj]
  /\ held.pc \in {"none", "loaded", "has", "write"} /\ held.obj \in Objs \cup {Nil}
  /\ deleted \in SUBSET (Ids \cup Groups)
  /\ replaced \in [Ids -> Keys \cup {Nil}]
  /\ spoiled = [s \in Spoilers |-> spoiled[s]]

\* The values of the update.
UpdTyped ==
  /\ upd = [pc |-> upd.pc, gid |-> upd.gid, content |-> upd.content, drop |-> upd.drop,
            all |-> upd.all, sub |-> upd.sub, alone |-> upd.alone]
  /\ upd.pc # "idle" => upd.gid \in Groups
  /\ upd.content \in SUBSET Keys
  /\ upd.drop \in SUBSET Ids
  /\ upd.all \in SUBSET Groups

\* Object o is one of profile i.
Is(o, i) == o # Nil /\ heap[o] # Nil /\ heap[o].id = i

\* Whatever is cached, in hand or about to be saved has its object, and a cache has the
\* object of the id it is looked up by.
Refd ==
  /\ \A i \in Ids : cached[i] # Nil => Is(cached[i], i)
  /\ \A i \in Ids : weak[i] # Nil => Is(weak[i], i)
  /\ held.pc # "none" => held.obj # Nil
  /\ held.obj # Nil => heap[held.obj] # Nil
  /\ \A j \in jobs : \A o \in j.ents \cup {j.write} : o # Nil => heap[o] # Nil

\* The list of a group's file.
OnDisk(g) == IF groupRec[g] = NoRecord THEN {} ELSE groupRec[g]
\* A profile of which nothing unusual has happened.
Plain(i) == i \notin spoiled["moved"] /\ i \notin spoiled["reused"]
\* A group lists a profile, in memory or in its file.
Lists(g, i) == i \in members[g] \/ i \in OnDisk(g)
\* An object or the record of the profile names the group.
HasGid(i, x) ==
  \/ \E o \in Objs : Is(o, i) /\ heap[o].gid = x
  \/ record[i] # NoRecord /\ record[i].gid = x
\* The profile has an object or a record.
There(i) == (\E o \in Objs : Is(o, i)) \/ record[i] # NoRecord
\* The thread is going to write a record of the profile.
SavedBy(j, i) == \E o \in j.ents \cup {j.write} : Is(o, i) /\ ~heap[o].no_save
\* The profile has a record, or is going to have one.
Live(i) == record[i] # NoRecord \/ \E j \in jobs : SavedBy(j, i)
\* An update is about to empty the list, or to save it.
Clearing(g) == upd.pc = "clear" /\ upd.gid = g
Saving(g) == upd.pc \in {"clear", "save"} /\ upd.gid = g

\* max_profile_id is above every id that is in use or still named.
Bounds ==
  /\ \A i \in Ids : There(i) => i <= max_profile_id
  /\ \A j \in jobs : \A i \in j.drop : i <= max_profile_id
  /\ \A i \in Ids, g \in Groups :
       Plain(i) /\ g \notin deleted /\ Lists(g, i) => i <= max_profile_id
\* A plain profile has one list.
Owner == \A i \in Ids, g, h \in Groups : Plain(i) /\ Lists(g, i) /\ Lists(h, i) => g = h
\* A plain profile's objects and record name the group that lists it.
Home == \A i \in Ids, g, x \in Groups : Plain(i) /\ Lists(g, i) /\ HasGid(i, x) => x = g
\* A plain profile that a group lists is alive, or the update is going to see to the list.
Exists ==
  \A i \in Ids, g \in Groups : Plain(i) /\ g \notin deleted =>
    /\ i \in members[g] => Live(i) \/ Clearing(g)
    /\ i \in OnDisk(g) => Live(i) \/ Saving(g)
\* A group does not list a profile any longer, or a thread or the update sees to it.
Unlisted(i, j, g) ==
  Plain(i) /\ g \notin deleted =>
    /\ i \in members[g] => Clearing(g)
    /\ i \in OnDisk(g) => g \in j.groups \/ Saving(g)
\* A record that a thread is going to drop is in no list.
Drops == \A j \in jobs : \A i \in j.drop, g \in Groups : Unlisted(i, j, g)
\* A group that is not there, or whose file is not, was deleted.
Gone ==
  \A g \in Groups :
    /\ g \notin groups => g \in deleted
    /\ groupRec[g] = NoRecord => g \in deleted
    /\ \A j \in jobs : g \in j.dropGroups => g \in deleted

ListInv == Bounds /\ Owner /\ Home /\ Exists /\ Drops /\ Gone

\* What every step but an addition and a restart does to the lists.
ListsMove ==
  /\ \A i \in Ids : Plain(i)' => Plain(i)
  /\ \A i \in Ids, g \in Groups : Plain(i)' /\ i \in members'[g] => i \in members[g]
  /\ \A i \in Ids, g \in Groups : Plain(i)' /\ i \in OnDisk(g)' => Lists(g, i)
  /\ \A g \in Groups : g \in deleted => g \in deleted'
  /\ \A g \in Groups : Clearing(g) => Clearing(g)' \/ members'[g] = {}
  /\ \A g \in Groups : Saving(g) => Saving(g)' \/ OnDisk(g)' \subseteq members'[g]
ObjectsMove ==
  /\ max_profile_id' = max_profile_id
  /\ \A i \in Ids : There(i)' => There(i)
  /\ \A i \in Ids, x \in Groups : Plain(i)' /\ HasGid(i, x)' => HasGid(i, x)
  /\ \A i \in Ids : Live(i) => Live(i)' \/ \E j \in jobs : j.groups = {} /\ i \in j.drop
JobsMove ==
  \A j \in jobs' :
    \/ \E k \in jobs :
         /\ j.drop \subseteq k.drop
         /\ \A g \in k.groups : g \in j.groups \/ OnDisk(g)' \subseteq members'[g]
    \/ \A i \in j.drop : There(i) /\ \A g \in Groups : Unlisted(i, j, g)'
GroupsMove ==
  \A g \in Groups :
    /\ g \notin groups' => g \in deleted'
    /\ groupRec'[g] = NoRecord => g \in deleted'
    /\ \A j \in jobs' : g \in j.dropGroups => g \in deleted'

\* What a step does to the lists, objects, threads and groups (ListsMove to GroupsMove)
\* is enough to keep ListInv.
LEMMA ListStep ==
  ASSUME Typed, Typed', ListInv, ListsMove, ObjectsMove, JobsMove, GroupsMove
  PROVE  ListInv'
<1>1. /\ \A i \in Ids, g \in Groups :
             Plain(i)' /\ Lists(g, i)' => Plain(i) /\ Lists(g, i)
      /\ \A i \in Ids : Plain(i)' => Plain(i)
      /\ \A g \in Groups : g \notin deleted' => g \notin deleted
      /\ \A g \in Groups : Clearing(g)' => Saving(g)'
  BY DEF ListsMove, Lists, Clearing, Saving
<1>1a. \A j \in jobs' : j.drop \in SUBSET Ids
  BY DEF Typed, IsJob
<1>2. Owner'
  BY <1>1 DEF ListInv, Owner
<1>3. Home'
  BY <1>1 DEF ListInv, Home, ObjectsMove
<1>4. Drops'
  <2> SUFFICES ASSUME NEW j \in jobs', NEW i \in j.drop, NEW g \in Groups PROVE Unlisted(i, j, g)'
    BY DEF Drops
  <2>1. CASE \A k \in j.drop : There(k) /\ \A h \in Groups : Unlisted(k, j, h)'
    BY <2>1
  <2>2. ASSUME NEW k \in jobs, j.drop \subseteq k.drop,
               \A h \in k.groups : h \in j.groups \/ OnDisk(h)' \subseteq members'[h]
        PROVE  Unlisted(i, j, g)'
    <3> SUFFICES ASSUME Plain(i)', g \notin deleted'
                 PROVE  /\ i \in members'[g] => Clearing(g)'
                        /\ i \in OnDisk(g)' => g \in j.groups \/ Saving(g)'
      BY DEF Unlisted
    <3>1. i \in k.drop /\ i \in Ids /\ Plain(i) /\ g \notin deleted
      BY <1>1, <1>1a, <2>2
    <3>2. /\ i \in members[g] => Clearing(g)
          /\ i \in OnDisk(g) => g \in k.groups \/ Saving(g)
      BY <3>1 DEF ListInv, Drops, Unlisted
    <3>3. i \in members'[g] => Clearing(g)'
      BY <3>1, <3>2 DEF ListsMove
    <3>4. i \in OnDisk(g)' => i \in OnDisk(g) \/ i \in members[g]
      BY <3>1 DEF ListsMove, Lists
    <3>5. Clearing(g) => Saving(g)
      BY DEF Clearing, Saving
    <3>6. ASSUME i \in OnDisk(g)' PROVE g \in j.groups \/ Saving(g)'
      <4>1. CASE OnDisk(g)' \subseteq members'[g]
        BY <1>1, <3>3, <3>1, <3>6, <4>1
      <4>2. CASE ~(OnDisk(g)' \subseteq members'[g])
        <5>1. Saving(g) => Saving(g)'
          BY <4>2 DEF ListsMove
        <5>2. g \in k.groups => g \in j.groups
          BY <2>2, <4>2
        <5> QED
          BY <3>2, <3>4, <3>5, <3>6, <5>1, <5>2
      <4> QED
        BY <4>1, <4>2
    <3> QED
      BY <3>3, <3>6
  <2> QED
    BY <2>1, <2>2 DEF JobsMove
<1>5. Exists'
  <2> SUFFICES ASSUME NEW i \in Ids, NEW g \in Groups, Plain(i)', g \notin deleted'
               PROVE  /\ i \in members'[g] => Live(i)' \/ Clearing(g)'
                      /\ i \in OnDisk(g)' => Live(i)' \/ Saving(g)'
    BY DEF Exists
  <2>1. Plain(i) /\ g \notin deleted
    BY <1>1
  <2>2. /\ i \in members[g] => Live(i) \/ Clearing(g)
        /\ i \in OnDisk(g) => Live(i) \/ Saving(g)
    BY <2>1 DEF ListInv, Exists
  <2>3. ASSUME Live(i), ~Live(i)'
        PROVE  /\ i \in members[g] => Clearing(g)
               /\ i \in OnDisk(g) => Saving(g)
    <3>1. PICK j \in jobs : j.groups = {} /\ i \in j.drop
      BY <2>3 DEF ObjectsMove
    <3> QED
      BY <2>1, <3>1 DEF ListInv, Drops, Unlisted
  <2>4. /\ i \in members[g] => Live(i)' \/ Clearing(g)
        /\ i \in OnDisk(g) => Live(i)' \/ Saving(g)
    BY <2>2, <2>3
  <2>5. i \in members'[g] => i \in members[g] /\ (Clearing(g) => Clearing(g)')
    BY <2>1 DEF ListsMove
  <2>6. i \in members'[g] => Live(i)' \/ Clearing(g)'
    BY <2>4, <2>5
  <2>7. i \in OnDisk(g)' => i \in OnDisk(g) \/ i \in members[g]
    BY <2>1 DEF ListsMove, Lists
  <2>8. Clearing(g) => Saving(g)
    BY DEF Clearing, Saving
  <2>9. ASSUME i \in OnDisk(g)' PROVE Live(i)' \/ Saving(g)'
    <3>1. CASE OnDisk(g)' \subseteq members'[g]
      BY <1>1, <2>6, <2>9, <3>1
    <3>2. CASE ~(OnDisk(g)' \subseteq members'[g])
      <4>1. Saving(g) => Saving(g)'
        BY <3>2 DEF ListsMove
      <4> QED
        BY <2>4, <2>7, <2>8, <2>9, <4>1
    <3> QED
      BY <3>1, <3>2
  <2> QED
    BY <2>6, <2>9
<1>6. Bounds'
  <2>1. \A i \in Ids : There(i)' => i <= max_profile_id'
    BY DEF ObjectsMove, ListInv, Bounds
  <2>2. ASSUME NEW j \in jobs', NEW i \in j.drop PROVE i <= max_profile_id'
    <3>1. CASE There(i) /\ i \in Ids
      BY <3>1 DEF ObjectsMove, ListInv, Bounds
    <3>2. CASE \E k \in jobs : i \in k.drop
      BY <3>2 DEF ObjectsMove, ListInv, Bounds
    <3>3. There(i) \/ \E k \in jobs : i \in k.drop
      BY DEF JobsMove
    <3> QED
      BY <1>1a, <3>1, <3>2, <3>3
  <2>3. \A i \in Ids, g \in Groups :
          Plain(i)' /\ g \notin deleted' /\ Lists(g, i)' => i <= max_profile_id'
    BY <1>1 DEF ObjectsMove, ListInv, Bounds
  <2> QED
    BY <2>1, <2>2, <2>3 DEF Bounds
<1>7. Gone'
  BY DEF Gone, GroupsMove
<1> QED
  BY <1>2, <1>3, <1>4, <1>5, <1>6, <1>7 DEF ListInv

-----------------------------------------------------------------------------
(* Objects: what a step refers to, frees and writes.                       *)

\* Nil and NoRecord are no values, and a group's id is no profile's.
LEMMA Nothing ==
  /\ Nil \notin Objs /\ Nil \notin Keys /\ Nil \notin Groups /\ Nil \notin Objects
  /\ NoRecord \notin Records /\ \A s \in SUBSET Ids : s # NoRecord
  /\ MaxId \in Nat /\ Ids = 1 .. MaxId /\ Objs \in SUBSET Nat
  /\ \A i \in Ids : i \notin Groups
BY DatabaseAssumption DEF Ids

\* An object that something refers to after a step outlives it, and the others are freed.
LEMMA Collected ==
  ASSUME NEW h \in [Objs -> Objects \cup {Nil}], Collect(h),
         cached' \in [Ids -> Objs \cup {Nil}], weak' \in [Ids -> Objs \cup {Nil}],
         held'.obj \in Objs \cup {Nil},
         \A j \in jobs' : j.ents \in SUBSET Objs /\ j.write \in Objs \cup {Nil}
  PROVE  /\ heap' \in [Objs -> Objects \cup {Nil}]
         /\ \A o \in Objs : heap'[o] = h[o] \/ heap'[o] = Nil
         /\ \A i \in Ids : cached'[i] # Nil => heap'[cached'[i]] = h[cached'[i]]
         /\ \A i \in Ids : weak'[i] # Nil => heap'[weak'[i]] = h[weak'[i]]
         /\ held'.obj # Nil => heap'[held'.obj] = h[held'.obj]
         /\ \A j \in jobs' : \A o \in j.ents \cup {j.write} : o # Nil => heap'[o] = h[o]
<1>1. heap' = [o \in Objs |-> IF o \in Refs' THEN h[o] ELSE Nil]
  BY DEF Collect
<1>2. /\ \A i \in Ids : cached'[i] \in Refs' /\ weak'[i] \in Refs'
      /\ held'.obj \in Refs'
      /\ \A j \in jobs' : \A o \in j.ents \cup {j.write} : o \in Refs'
  BY DEF Refs
<1> QED
  BY <1>1, <1>2

\* What is referred to after a step has its object, when it had it before the objects
\* were freed.
LEMMA RefsStay ==
  ASSUME NEW h \in [Objs -> Objects \cup {Nil}], Collect(h), Typed',
         \A i \in Ids : cached'[i] # Nil => h[cached'[i]] # Nil /\ h[cached'[i]].id = i,
         \A i \in Ids : weak'[i] # Nil => h[weak'[i]] # Nil /\ h[weak'[i]].id = i,
         held'.pc # "none" => held'.obj # Nil,
         held'.obj # Nil => h[held'.obj] # Nil,
         \A j \in jobs' : \A o \in j.ents \cup {j.write} : o # Nil => h[o] # Nil
  PROVE  Refd'
<1>1. /\ cached' \in [Ids -> Objs \cup {Nil}] /\ weak' \in [Ids -> Objs \cup {Nil}]
      /\ held'.obj \in Objs \cup {Nil}
      /\ \A j \in jobs' : j.ents \in SUBSET Objs /\ j.write \in Objs \cup {Nil}
  BY DEF Typed, IsJob
<1>2. /\ \A i \in Ids : cached'[i] # Nil => heap'[cached'[i]] = h[cached'[i]]
      /\ \A i \in Ids : weak'[i] # Nil => heap'[weak'[i]] = h[weak'[i]]
      /\ held'.obj # Nil => heap'[held'.obj] = h[held'.obj]
      /\ \A j \in jobs' : \A o \in j.ents \cup {j.write} : o # Nil => heap'[o] = h[o]
  BY <1>1, Collected
<1> QED
  BY <1>2 DEF Refd, Is

\* A step that only frees objects.
HeapKept == \A o \in Objs : heap'[o] = heap[o] \/ heap'[o] = Nil

\* The records after a step: some may go, some may be written from an object.
Recorded ==
  \A i \in Ids :
    \/ record'[i] = record[i] \/ record'[i] = NoRecord
    \/ \E o \in Objs : Is(o, i) /\ record'[i] = [key |-> heap[o].key, gid |-> heap[o].gid]

\* A step that writes records from objects brings no profile back that is not there.
LEMMA ObjectsStay ==
  ASSUME Typed, HeapKept, Recorded
  PROVE  /\ \A i \in Ids : There(i)' => There(i)
         /\ \A i \in Ids, x \in Groups : HasGid(i, x)' => HasGid(i, x)
<1>1. \A o \in Objs, i \in Ids : Is(o, i)' => Is(o, i) /\ heap'[o] = heap[o]
  BY DEF HeapKept, Is
<1>2. ASSUME NEW i \in Ids, There(i)' PROVE There(i)
  <2>1. CASE \E o \in Objs : Is(o, i)'
    BY <1>1, <2>1 DEF There
  <2>2. CASE record'[i] # NoRecord
    BY <2>2 DEF There, Recorded
  <2> QED
    BY <1>2, <2>1, <2>2 DEF There
<1>3. ASSUME NEW i \in Ids, NEW x \in Groups, HasGid(i, x)' PROVE HasGid(i, x)
  <2>1. CASE \E o \in Objs : Is(o, i)' /\ heap'[o].gid = x
    BY <1>1, <2>1 DEF HasGid
  <2>2. CASE record'[i] # NoRecord /\ record'[i].gid = x
    <3>1. CASE record'[i] = record[i]
      BY <2>2, <3>1 DEF HasGid
    <3>2. ASSUME NEW o \in Objs, Is(o, i),
                 record'[i] = [key |-> heap[o].key, gid |-> heap[o].gid]
          PROVE  HasGid(i, x)
      <4>1. heap[o].gid = x
        BY <2>2, <3>2
      <4> QED
        BY <3>2, <4>1 DEF HasGid
    <3> QED
      BY <2>2, <3>1, <3>2 DEF Recorded
  <2> QED
    BY <1>3, <2>1, <2>2 DEF HasGid
<1> QED
  BY <1>2, <1>3

\* SavePrivate writes the record of the object's own id, unless no_save is set.
LEMMA Writing ==
  ASSUME Typed, NEW o \in Objs, heap[o] # Nil
  PROVE  /\ Written(o) \in [Ids -> Records \cup {NoRecord}]
         /\ heap[o].id \in Ids
         /\ \A i \in Ids : \/ Written(o)[i] = record[i]
                           \/ Is(o, i) /\ Written(o)[i] = [key |-> heap[o].key, gid |-> heap[o].gid]
         /\ \A i \in Ids : record[i] # NoRecord => Written(o)[i] # NoRecord
         /\ \A i \in Ids : Is(o, i) /\ ~heap[o].no_save => Written(o)[i] # NoRecord
<1>1. heap[o] \in Objects
  BY DEF Typed
<1>2. [key |-> heap[o].key, gid |-> heap[o].gid] \in Records /\ heap[o].id \in Ids
  BY <1>1 DEF Objects, Records
<1>3. record \in [Ids -> Records \cup {NoRecord}] /\ o # Nil
  BY Nothing DEF Typed
<1> QED
  BY <1>2, <1>3, Nothing DEF Written, Is

-----------------------------------------------------------------------------
(* Steps of the thread that works on a profile.                            *)

\* A step that leaves the update at its list.
UpdKeeps == \A g \in Groups : (Clearing(g) => Clearing(g)') /\ (Saving(g) => Saving(g)')

\* A step whose threads have nothing new to drop or save a list less only as it is saved.
SameJobs ==
  \A j \in jobs' : \E k \in jobs :
    j.drop = k.drop /\ j.groups = k.groups /\ j.dropGroups = k.dropGroups

\* A step that leaves lists, groups and history alone keeps ListInv, when a profile that
\* has a record or is being saved still has or is.
LEMMA QuietStep ==
  ASSUME Typed, Typed', ListInv, HeapKept, Recorded, SameJobs, UpdKeeps,
         UNCHANGED <<groupRec, members, groups, max_profile_id, deleted>>,
         \A i \in Ids : Plain(i)' => Plain(i),
         \A j \in jobs', i \in Ids : SavedBy(j, i) => SavedBy(j, i)',
         \A i \in Ids : record[i] # NoRecord => record'[i] # NoRecord,
         \A j \in jobs, i \in Ids :
           SavedBy(j, i) => record'[i] # NoRecord \/ \E k \in jobs' : SavedBy(k, i)
  PROVE  ListInv'
<1>1. \A g \in Groups : OnDisk(g)' = OnDisk(g)
  BY DEF OnDisk
<1>2. ListsMove
  BY <1>1 DEF ListsMove, Lists, UpdKeeps
<1>3. ObjectsMove
  <2>1. \A i \in Ids : Live(i) => Live(i)'
    BY DEF Live
  <2> QED
    BY <2>1, ObjectsStay DEF ObjectsMove
<1>4. JobsMove
  <2> SUFFICES ASSUME NEW j \in jobs'
               PROVE  \E k \in jobs : j.drop \subseteq k.drop /\ \A g \in k.groups : g \in j.groups
    BY DEF JobsMove
  <2> QED
    BY DEF SameJobs
<1>5. GroupsMove
  BY DEF GroupsMove, ListInv, Gone, SameJobs
<1> QED
  BY <1>2, <1>3, <1>4, <1>5, ListStep

\* A step that leaves the groups and the history alone keeps the types.
LEMMA SameTypes ==
  ASSUME Typed, Collect(heap), UNCHANGED <<groupRec, groups, members, max_profile_id, deleted,
                                   replaced, spoiled>>,
         record' \in [Ids -> Records \cup {NoRecord}],
         cached' \in [Ids -> Objs \cup {Nil}], weak' \in [Ids -> Objs \cup {Nil}],
         \A j \in jobs' : IsJob(j),
         held' = [pc |-> held'.pc, obj |-> held'.obj],
         held'.pc \in {"none", "loaded", "has", "write"}, held'.obj \in Objs \cup {Nil}
  PROVE  /\ Typed' /\ HeapKept
         /\ \A j \in jobs', i \in Ids : SavedBy(j, i) => SavedBy(j, i)'
<1>1. heap \in [Objs -> Objects \cup {Nil}]
  BY DEF Typed
<1>2. \A j \in jobs' : j.ents \in SUBSET Objs /\ j.write \in Objs \cup {Nil}
  BY DEF IsJob
<1>3. /\ heap' \in [Objs -> Objects \cup {Nil}] /\ HeapKept
      /\ \A j \in jobs' : \A o \in j.ents \cup {j.write} : o # Nil => heap'[o] = heap[o]
  BY <1>1, <1>2, Collected DEF HeapKept
<1>4. \A j \in jobs', i \in Ids : SavedBy(j, i) => SavedBy(j, i)'
  BY <1>3 DEF SavedBy, Is
<1> QED
  BY <1>3, <1>4 DEF Typed

\* GetProfile's caching of what it has loaded (Database.cpp:1158) keeps the invariant.
LEMMA HolderCachesKeeps ==
  ASSUME Typed, Refd, ListInv, HolderCaches, UNCHANGED upd
  PROVE  Typed' /\ Refd' /\ ListInv'
<1>1. /\ held.obj \in Objs /\ held.obj # Nil /\ heap[held.obj] \in Objects
      /\ heap[held.obj].id \in Ids
  BY DEF HolderCaches, Typed, Refd, Objects
<1>2. /\ weak' = [weak EXCEPT ![heap[held.obj].id] = held.obj]
      /\ held' = [held EXCEPT !.pc = "has"]
      /\ UNCHANGED <<record, groupRec, cached, groups, members, max_profile_id, jobs, deleted,
                     replaced, spoiled>>
      /\ Collect(heap)
  BY DEF HolderCaches, diskVars, heldRest
<1>3. /\ weak' \in [Ids -> Objs \cup {Nil}]
      /\ held' = [pc |-> "has", obj |-> held.obj]
  BY <1>1, <1>2 DEF Typed
<1>4. Typed' /\ HeapKept /\ \A j \in jobs', i \in Ids : SavedBy(j, i) => SavedBy(j, i)'
  BY <1>1, <1>2, <1>3, SameTypes DEF Typed
<1>5. Refd'
  <2>1. \A i \in Ids : weak'[i] # Nil => heap[weak'[i]] # Nil /\ heap[weak'[i]].id = i
    BY <1>1, <1>2, Nothing DEF Typed, Refd, Is
  <2>2. \A i \in Ids : cached'[i] # Nil => heap[cached'[i]] # Nil /\ heap[cached'[i]].id = i
    BY <1>2 DEF Refd, Is
  <2>3. \A j \in jobs' : \A o \in j.ents \cup {j.write} : o # Nil => heap[o] # Nil
    BY <1>2 DEF Refd
  <2>4. heap \in [Objs -> Objects \cup {Nil}] /\ held'.obj # Nil /\ heap[held'.obj] # Nil
    BY <1>1, <1>3, Nothing DEF Typed
  <2> QED
    BY <1>2, <1>4, <2>1, <2>2, <2>3, <2>4, RefsStay
<1>6. ListInv'
  <2>1. Recorded /\ SameJobs /\ UpdKeeps /\ \A i \in Ids : Plain(i)' => Plain(i)
    BY <1>2 DEF Recorded, SameJobs, UpdKeeps, Plain, Clearing, Saving
  <2> QED
    BY <1>2, <1>4, <2>1, QuietStep
<1> QED
  BY <1>4, <1>5, <1>6

\* ProxyEntity::Save's uncaching of the profile in hand (ProxyEntity.cpp:107) keeps it.
LEMMA HolderUncachesKeeps ==
  ASSUME Typed, Refd, ListInv, HolderUncaches, UNCHANGED upd
  PROVE  Typed' /\ Refd' /\ ListInv'
<1>1. /\ held.obj \in Objs /\ held.obj # Nil /\ heap[held.obj] \in Objects
      /\ heap[held.obj].id \in Ids
  BY DEF HolderUncaches, Typed, Refd, Objects
<1>2. /\ cached' = [cached EXCEPT ![heap[held.obj].id] = Nil]
      /\ held' = [held EXCEPT !.pc = "write"]
      /\ UNCHANGED <<record, groupRec, weak, groups, members, max_profile_id, jobs, deleted,
                     replaced, spoiled>>
      /\ Collect(heap)
  BY DEF HolderUncaches, diskVars, heldRest
<1>3. /\ cached' \in [Ids -> Objs \cup {Nil}]
      /\ held' = [pc |-> "write", obj |-> held.obj]
  BY <1>1, <1>2 DEF Typed
<1>4. Typed' /\ HeapKept /\ \A j \in jobs', i \in Ids : SavedBy(j, i) => SavedBy(j, i)'
  BY <1>1, <1>2, <1>3, SameTypes DEF Typed
<1>5. Refd'
  <2>1. \A i \in Ids : cached'[i] # Nil => heap[cached'[i]] # Nil /\ heap[cached'[i]].id = i
    BY <1>1, <1>2, Nothing DEF Typed, Refd, Is
  <2>2. \A i \in Ids : weak'[i] # Nil => heap[weak'[i]] # Nil /\ heap[weak'[i]].id = i
    BY <1>2 DEF Refd, Is
  <2>3. \A j \in jobs' : \A o \in j.ents \cup {j.write} : o # Nil => heap[o] # Nil
    BY <1>2 DEF Refd
  <2>4. heap \in [Objs -> Objects \cup {Nil}] /\ held'.obj # Nil /\ heap[held'.obj] # Nil
    BY <1>1, <1>3, Nothing DEF Typed
  <2> QED
    BY <1>2, <1>4, <2>1, <2>2, <2>3, <2>4, RefsStay
<1>6. ListInv'
  <2>1. Recorded /\ SameJobs /\ UpdKeeps /\ \A i \in Ids : Plain(i)' => Plain(i)
    BY <1>2 DEF Recorded, SameJobs, UpdKeeps, Plain, Clearing, Saving
  <2> QED
    BY <1>2, <1>4, <2>1, QuietStep
<1> QED
  BY <1>4, <1>5, <1>6

\* ProxyEntity::Save's write of the profile in hand (ProxyEntity.cpp:112) keeps it.
LEMMA HolderWritesKeeps ==
  ASSUME Typed, Refd, ListInv, HolderWrites, UNCHANGED upd
  PROVE  Typed' /\ Refd' /\ ListInv'
<1>1. held.obj \in Objs /\ heap[held.obj] # Nil
  BY DEF HolderWrites, Typed, Refd
<1>2. /\ record' = Written(held.obj) /\ held' = NotHeld
      /\ UNCHANGED <<groupRec, cached, weak, groups, members, max_profile_id, jobs, deleted,
                     replaced, spoiled>>
      /\ Collect(heap)
  BY DEF HolderWrites, heldRest
<1>3. /\ record' \in [Ids -> Records \cup {NoRecord}]
      /\ \A i \in Ids : record[i] # NoRecord => record'[i] # NoRecord
      /\ held' = [pc |-> "none", obj |-> Nil] /\ Recorded
  BY <1>1, <1>2, Writing DEF NotHeld, Recorded
<1>4. Typed' /\ HeapKept /\ \A j \in jobs', i \in Ids : SavedBy(j, i) => SavedBy(j, i)'
  BY <1>2, <1>3, SameTypes DEF Typed
<1>5. Refd'
  <2>1. \A i \in Ids : /\ cached'[i] # Nil => heap[cached'[i]] # Nil /\ heap[cached'[i]].id = i
                       /\ weak'[i] # Nil => heap[weak'[i]] # Nil /\ heap[weak'[i]].id = i
    BY <1>2 DEF Refd, Is
  <2>2. \A j \in jobs' : \A o \in j.ents \cup {j.write} : o # Nil => heap[o] # Nil
    BY <1>2 DEF Refd
  <2>3. heap \in [Objs -> Objects \cup {Nil}]
    BY DEF Typed
  <2> QED
    BY <1>2, <1>3, <1>4, <2>1, <2>2, <2>3, RefsStay
<1>6. ListInv'
  <2>1. SameJobs /\ UpdKeeps /\ \A i \in Ids : Plain(i)' => Plain(i)
    BY <1>2 DEF SameJobs, UpdKeeps, Plain, Clearing, Saving
  <2> QED
    BY <1>2, <1>3, <1>4, <2>1, QuietStep
<1> QED
  BY <1>4, <1>5, <1>6

\* Leaving the profile in hand unsaved keeps it.
LEMMA HolderLeavesKeeps ==
  ASSUME Typed, Refd, ListInv, HolderLeaves, UNCHANGED upd
  PROVE  Typed' /\ Refd' /\ ListInv'
<1>2. /\ held' = [pc |-> "none", obj |-> Nil]
      /\ UNCHANGED <<record, groupRec, cached, weak, groups, members, max_profile_id, jobs,
                     deleted, replaced, spoiled>>
      /\ Collect(heap)
  BY DEF HolderLeaves, NotHeld, diskVars, heldRest
<1>4. Typed' /\ HeapKept /\ \A j \in jobs', i \in Ids : SavedBy(j, i) => SavedBy(j, i)'
  BY <1>2, SameTypes DEF Typed
<1>5. Refd'
  <2>1. \A i \in Ids : /\ cached'[i] # Nil => heap[cached'[i]] # Nil /\ heap[cached'[i]].id = i
                       /\ weak'[i] # Nil => heap[weak'[i]] # Nil /\ heap[weak'[i]].id = i
    BY <1>2 DEF Refd, Is
  <2>2. \A j \in jobs' : \A o \in j.ents \cup {j.write} : o # Nil => heap[o] # Nil
    BY <1>2 DEF Refd
  <2>3. heap \in [Objs -> Objects \cup {Nil}]
    BY DEF Typed
  <2> QED
    BY <1>2, <1>4, <2>1, <2>2, <2>3, RefsStay
<1>6. ListInv'
  <2>1. Recorded /\ SameJobs /\ UpdKeeps /\ \A i \in Ids : Plain(i)' => Plain(i)
    BY <1>2 DEF Recorded, SameJobs, UpdKeeps, Plain, Clearing, Saving
  <2> QED
    BY <1>2, <1>4, <2>1, QuietStep
<1> QED
  BY <1>4, <1>5, <1>6

\* An eviction from weak_profiles keeps it.
LEMMA EvictKeeps ==
  ASSUME Typed, Refd, ListInv, NEW e \in Ids, Evict(e), UNCHANGED upd
  PROVE  Typed' /\ Refd' /\ ListInv'
<1>2. /\ weak' = [weak EXCEPT ![e] = Nil]
      /\ UNCHANGED <<record, groupRec, cached, groups, members, max_profile_id, jobs, deleted,
                     replaced, spoiled, held>>
      /\ Collect(heap)
  BY DEF Evict, diskVars, heldRest
<1>3. weak' \in [Ids -> Objs \cup {Nil}]
  BY <1>2 DEF Typed
<1>4. Typed' /\ HeapKept /\ \A j \in jobs', i \in Ids : SavedBy(j, i) => SavedBy(j, i)'
  BY <1>2, <1>3, SameTypes DEF Typed
<1>5. Refd'
  <2>1. \A i \in Ids : /\ cached'[i] # Nil => heap[cached'[i]] # Nil /\ heap[cached'[i]].id = i
                       /\ weak'[i] # Nil => heap[weak'[i]] # Nil /\ heap[weak'[i]].id = i
    BY <1>2 DEF Refd, Is, Typed
  <2>2. \A j \in jobs' : \A o \in j.ents \cup {j.write} : o # Nil => heap[o] # Nil
    BY <1>2 DEF Refd
  <2>3. heap \in [Objs -> Objects \cup {Nil}]
    BY DEF Typed
  <2>4. (held'.pc # "none" => held'.obj # Nil) /\ (held'.obj # Nil => heap[held'.obj] # Nil)
    BY <1>2 DEF Refd
  <2> QED
    BY <1>2, <1>3, <1>4, <2>1, <2>2, <2>3, <2>4, RefsStay
<1>6. ListInv'
  <2>1. Recorded /\ SameJobs /\ UpdKeeps /\ \A i \in Ids : Plain(i)' => Plain(i)
    BY <1>2 DEF Recorded, SameJobs, UpdKeeps, Plain, Clearing, Saving
  <2> QED
    BY <1>2, <1>4, <2>1, QuietStep
<1> QED
  BY <1>4, <1>5, <1>6

-----------------------------------------------------------------------------
(* Steps of the threads that save.                                         *)

\* A thread with one group less to save.
LEMMA JobLessGroup ==
  ASSUME NEW j, IsJob(j), NEW gs \in SUBSET Groups, NEW k, k = [j EXCEPT !.groups = gs]
  PROVE  /\ IsJob(k)
         /\ k.groups = gs
         /\ k.ents = j.ents
         /\ k.write = j.write
         /\ k.drop = j.drop
         /\ k.dropGroups = j.dropGroups
         /\ k.uncache = j.uncache
<1>1. j = [op |-> j.op, groups |-> j.groups, ents |-> j.ents, write |-> j.write, drop |-> j.drop,
           dropGroups |-> j.dropGroups, uncache |-> j.uncache]
  BY DEF IsJob
<1>2. k = [op |-> j.op, groups |-> gs, ents |-> j.ents, write |-> j.write, drop |-> j.drop,
           dropGroups |-> j.dropGroups, uncache |-> j.uncache]
  BY <1>1
<1>3. k.op = j.op
  BY <1>2
<1> QED
  BY <1>2, <1>3 DEF IsJob

\* A thread that has taken the object it writes next.
LEMMA JobTakes ==
  ASSUME NEW j, NEW o, NEW k, k = [j EXCEPT !.ents = j.ents \ {o}, !.write = o],
         j = [op |-> j.op, groups |-> j.groups, ents |-> j.ents, write |-> j.write,
              drop |-> j.drop, dropGroups |-> j.dropGroups, uncache |-> j.uncache]
  PROVE  k = [op |-> j.op, groups |-> j.groups, ents |-> j.ents \ {o}, write |-> o,
              drop |-> j.drop, dropGroups |-> j.dropGroups, uncache |-> j.uncache]
<1> DEFINE l == [j EXCEPT !.ents = j.ents \ {o}]
<1>1. l = [op |-> j.op, groups |-> j.groups, ents |-> j.ents \ {o}, write |-> j.write,
           drop |-> j.drop, dropGroups |-> j.dropGroups, uncache |-> j.uncache]
  OBVIOUS
<1>2. k = [l EXCEPT !.write = o]
  OBVIOUS
<1> HIDE DEF l
<1> QED
  BY <1>1, <1>2

\* The thread JobUncaches leaves: the object is no longer to be saved but being written.
LEMMA JobTaken ==
  ASSUME NEW j, IsJob(j), NEW o \in Objs, NEW k, k = [j EXCEPT !.ents = j.ents \ {o}, !.write = o]
  PROVE  /\ IsJob(k)
         /\ k.groups = j.groups
         /\ k.ents = j.ents \ {o}
         /\ k.write = o
         /\ k.drop = j.drop
         /\ k.dropGroups = j.dropGroups
         /\ k.uncache = j.uncache
<1>1. j = [op |-> j.op, groups |-> j.groups, ents |-> j.ents, write |-> j.write,
           drop |-> j.drop, dropGroups |-> j.dropGroups, uncache |-> j.uncache]
  BY DEF IsJob
<1>2. k = [op |-> j.op, groups |-> j.groups, ents |-> j.ents \ {o}, write |-> o,
           drop |-> j.drop, dropGroups |-> j.dropGroups, uncache |-> j.uncache]
  BY <1>1, JobTakes
<1>3. /\ k.op = j.op /\ k.groups = j.groups /\ k.ents = j.ents \ {o} /\ k.write = o
      /\ k.drop = j.drop /\ k.dropGroups = j.dropGroups /\ k.uncache = j.uncache
  BY <1>2
<1>4. /\ j.groups \in SUBSET Groups /\ j.ents \ {o} \in SUBSET Objs
      /\ o \in Objs \cup {Nil} /\ j.drop \in SUBSET Ids
      /\ j.dropGroups \in SUBSET Groups /\ j.uncache \in SUBSET Ids
  BY DEF IsJob
<1>5. k = [op |-> k.op, groups |-> k.groups, ents |-> k.ents, write |-> k.write,
           drop |-> k.drop, dropGroups |-> k.dropGroups, uncache |-> k.uncache]
  BY <1>2, <1>3
<1> QED
  BY <1>3, <1>4, <1>5 DEF IsJob

\* A thread that starts or ends a write.
LEMMA JobDone ==
  ASSUME NEW j, IsJob(j), NEW w \in Objs \cup {Nil}, NEW k, k = [j EXCEPT !.write = w]
  PROVE  /\ IsJob(k)
         /\ k.groups = j.groups
         /\ k.ents = j.ents
         /\ k.write = w
         /\ k.drop = j.drop
         /\ k.dropGroups = j.dropGroups
         /\ k.uncache = j.uncache
<1>1. j = [op |-> j.op, groups |-> j.groups, ents |-> j.ents, write |-> j.write, drop |-> j.drop,
           dropGroups |-> j.dropGroups, uncache |-> j.uncache]
  BY DEF IsJob
<1>2. k = [op |-> j.op, groups |-> j.groups, ents |-> j.ents, write |-> w, drop |-> j.drop,
           dropGroups |-> j.dropGroups, uncache |-> j.uncache]
  BY <1>1
<1>3. k.op = j.op
  BY <1>2
<1> QED
  BY <1>2, <1>3 DEF IsJob

\* A thread's save of a group's list (Database.cpp:1119) keeps the invariant.
LEMMA JobSavesGroupKeeps ==
  ASSUME Typed, Refd, ListInv, NEW j \in jobs, NEW g \in Groups, JobSavesGroup(j, g),
         UNCHANGED upd
  PROVE  Typed' /\ Refd' /\ ListInv'
<1> DEFINE k == [j EXCEPT !.groups = j.groups \ {g}]
<1>1. /\ g \in j.groups /\ groupRec' = [groupRec EXCEPT ![g] = members[g]]
      /\ jobs' = (jobs \ {j}) \cup {k}
      /\ UNCHANGED <<record, heap, cached, weak, groups, members, max_profile_id, held, deleted,
                     replaced, spoiled>>
  BY DEF JobSavesGroup, Becomes, memVars, histVars
<1>2. /\ IsJob(j) /\ IsJob(k) /\ k.groups = j.groups \ {g} /\ k.ents = j.ents
      /\ k.write = j.write /\ k.drop = j.drop /\ k.dropGroups = j.dropGroups
  <2>1. IsJob(j) /\ j.groups \ {g} \in SUBSET Groups
    BY DEF Typed, IsJob
  <2> QED
    BY <2>1, JobLessGroup
<1> HIDE DEF k
<1>3. Typed'
  BY <1>1, <1>2 DEF Typed
<1>4. Refd'
  BY <1>1, <1>2 DEF Refd, Is
<1>5. /\ \A h \in Groups : h # g => OnDisk(h)' = OnDisk(h)
      /\ OnDisk(g)' = members[g] /\ groupRec'[g] # NoRecord
      /\ \A i \in Ids : Plain(i)' <=> Plain(i)
      /\ \A h \in Groups : (Clearing(h)' <=> Clearing(h)) /\ (Saving(h)' <=> Saving(h))
  BY <1>1, Nothing DEF OnDisk, Plain, Clearing, Saving, Typed
<1>6. ListsMove
  BY <1>1, <1>5 DEF ListsMove, Lists
<1>7. ObjectsMove
  <2>1. \A i \in Ids : Live(i) => Live(i)'
    BY <1>1, <1>2 DEF Live, SavedBy, Is
  <2> QED
    BY <1>1, <2>1 DEF ObjectsMove, There, HasGid, Is
<1>8. JobsMove
  <2> SUFFICES ASSUME NEW l \in jobs'
               PROVE  \E m \in jobs : /\ l.drop \subseteq m.drop
                        /\ \A h \in m.groups : h \in l.groups \/ OnDisk(h)' \subseteq members'[h]
    BY DEF JobsMove
  <2>1. CASE l = k
    BY <1>1, <1>2, <1>5, <2>1 DEF IsJob
  <2>2. CASE l \in jobs
    BY <2>2
  <2> QED
    BY <1>1, <2>1, <2>2
<1>9. GroupsMove
  BY <1>1, <1>2, <1>5 DEF GroupsMove, ListInv, Gone
<1> QED
  BY <1>3, <1>4, <1>6, <1>7, <1>8, <1>9, ListStep

\* A thread's uncaching of a profile before its write keeps it.
LEMMA JobUncachesKeeps ==
  ASSUME Typed, Refd, ListInv, NEW j \in jobs, NEW o \in Objs, JobUncaches(j, o),
         UNCHANGED upd
  PROVE  Typed' /\ Refd' /\ ListInv'
<1>1. PICK k :
            /\ k = [j EXCEPT !.ents = j.ents \ {o}, !.write = o]
            /\ o \in j.ents /\ j.write = Nil
            /\ cached' = [cached EXCEPT ![heap[o].id] = Nil]
            /\ jobs' = (jobs \ {j}) \cup {k}
            /\ UNCHANGED <<record, groupRec, weak, groups, members, max_profile_id, held, deleted,
               replaced, spoiled>>
            /\ Collect(heap)
  BY DEF JobUncaches, Becomes, diskVars, histVars
<1>2. /\ IsJob(j) /\ IsJob(k) /\ k.groups = j.groups /\ k.ents = j.ents \ {o}
      /\ k.write = o /\ k.drop = j.drop /\ k.dropGroups = j.dropGroups
  <2>1. IsJob(j)
    BY DEF Typed
  <2> QED
    BY <1>1, <2>1, JobTaken
<1>3. cached' \in [Ids -> Objs \cup {Nil}] /\ \A l \in jobs' : IsJob(l)
  BY <1>1, <1>2 DEF Typed
<1>4. Typed' /\ HeapKept /\ \A l \in jobs', i \in Ids : SavedBy(l, i) => SavedBy(l, i)'
  BY <1>1, <1>3, SameTypes DEF Typed
<1>5. Refd'
  <2>1. \A i \in Ids : /\ cached'[i] # Nil => heap[cached'[i]] # Nil /\ heap[cached'[i]].id = i
                       /\ weak'[i] # Nil => heap[weak'[i]] # Nil /\ heap[weak'[i]].id = i
    BY <1>1, Nothing DEF Refd, Is, Typed
  <2>2. \A l \in jobs' : \A p \in l.ents \cup {l.write} : p # Nil => heap[p] # Nil
    <3>1. jobs' = (jobs \ {j}) \cup {k} /\ o \in j.ents
      BY <1>1
    <3> QED
      BY <1>2, <3>1 DEF Refd
  <2>3. heap \in [Objs -> Objects \cup {Nil}]
    BY DEF Typed
  <2>4. (held'.pc # "none" => held'.obj # Nil) /\ (held'.obj # Nil => heap[held'.obj] # Nil)
    BY <1>1 DEF Refd
  <2> QED
    BY <1>1, <1>4, <2>1, <2>2, <2>3, <2>4, RefsStay
<1>6. ListInv'
  <2>1. Recorded /\ SameJobs /\ UpdKeeps /\ \A i \in Ids : Plain(i)' => Plain(i)
    BY <1>1, <1>2 DEF Recorded, SameJobs, UpdKeeps, Plain, Clearing, Saving
  <2>2. ASSUME NEW l \in jobs, NEW i \in Ids, SavedBy(l, i)
        PROVE  \E m \in jobs' : SavedBy(m, i)
    <3>1. CASE l # j
      BY <1>1, <2>2, <3>1
    <3>2. CASE l = j
      <4>1. j.ents \cup {j.write} \subseteq k.ents \cup {k.write, Nil}
        BY <1>1, <1>2
      <4>2. PICK p \in j.ents \cup {j.write} : Is(p, i) /\ ~heap[p].no_save
        BY <2>2, <3>2 DEF SavedBy
      <4>3. p \in k.ents \cup {k.write}
        BY <4>1, <4>2 DEF Is
      <4>4. SavedBy(k, i)
        BY <4>2, <4>3 DEF SavedBy
      <4> QED
        BY <1>1, <4>4
    <3> QED
      BY <3>1, <3>2
  <2> QED
    BY <1>1, <1>4, <2>1, <2>2, QuietStep
<1> QED
  BY <1>4, <1>5, <1>6

\* A thread's write of a profile keeps it: the record lasts as long as the object would.
LEMMA JobWritesKeeps ==
  ASSUME Typed, Refd, ListInv, NEW j \in jobs, JobWrites(j), UNCHANGED upd
  PROVE  Typed' /\ Refd' /\ ListInv'
<1> DEFINE k == [j EXCEPT !.write = Nil]
<1>1. /\ j.write # Nil /\ record' = Written(j.write)
      /\ jobs' = (jobs \ {j}) \cup {k}
      /\ UNCHANGED <<groupRec, cached, weak, groups, members, max_profile_id, held, deleted,
                     replaced, spoiled>>
      /\ Collect(heap)
  BY DEF JobWrites, Becomes, histVars
<1>2. /\ IsJob(j) /\ IsJob(k) /\ k.groups = j.groups /\ k.ents = j.ents
      /\ k.write = Nil /\ k.drop = j.drop /\ k.dropGroups = j.dropGroups
  <2>1. IsJob(j)
    BY DEF Typed
  <2> QED
    BY <2>1, JobDone
<1> HIDE DEF k
<1>3. j.write \in Objs /\ heap[j.write] # Nil
  BY <1>1, <1>2 DEF Refd, IsJob
<1>4. /\ record' \in [Ids -> Records \cup {NoRecord}]
      /\ \A i \in Ids : record[i] # NoRecord => record'[i] # NoRecord
      /\ \A i \in Ids : Is(j.write, i) /\ ~heap[j.write].no_save => record'[i] # NoRecord
      /\ Recorded
  BY <1>1, <1>3, Writing DEF Recorded
<1>5. \A l \in jobs' : IsJob(l)
  BY <1>1, <1>2 DEF Typed
<1>6. Typed' /\ HeapKept /\ \A l \in jobs', i \in Ids : SavedBy(l, i) => SavedBy(l, i)'
  BY <1>1, <1>4, <1>5, SameTypes DEF Typed
<1>7. Refd'
  <2>1. \A i \in Ids : /\ cached'[i] # Nil => heap[cached'[i]] # Nil /\ heap[cached'[i]].id = i
                       /\ weak'[i] # Nil => heap[weak'[i]] # Nil /\ heap[weak'[i]].id = i
    BY <1>1 DEF Refd, Is
  <2>2. \A l \in jobs' : \A p \in l.ents \cup {l.write} : p # Nil => heap[p] # Nil
    BY <1>1, <1>2 DEF Refd
  <2>3. heap \in [Objs -> Objects \cup {Nil}]
    BY DEF Typed
  <2>4. (held'.pc # "none" => held'.obj # Nil) /\ (held'.obj # Nil => heap[held'.obj] # Nil)
    BY <1>1 DEF Refd
  <2> QED
    BY <1>1, <1>6, <2>1, <2>2, <2>3, <2>4, RefsStay
<1>8. ListInv'
  <2>1. SameJobs /\ UpdKeeps /\ \A i \in Ids : Plain(i)' => Plain(i)
    BY <1>1, <1>2 DEF SameJobs, UpdKeeps, Plain, Clearing, Saving
  <2>2. ASSUME NEW l \in jobs, NEW i \in Ids, SavedBy(l, i)
        PROVE  record'[i] # NoRecord \/ \E m \in jobs' : SavedBy(m, i)
    <3>1. CASE l # j
      BY <1>1, <2>2, <3>1
    <3>2. CASE l = j
      BY <1>1, <1>2, <1>4, <2>2, <3>2 DEF SavedBy
    <3> QED
      BY <3>1, <3>2
  <2> QED
    BY <1>1, <1>4, <1>6, <2>1, <2>2, QuietStep
<1> QED
  BY <1>6, <1>7, <1>8

\* The end of a thread, which drops the records of deleted profiles and groups
\* (Database.cpp:1123-1130), keeps it: no list still has them, by Drops.
LEMMA JobEndsKeeps ==
  ASSUME Typed, Refd, ListInv, NEW j \in jobs, JobEnds(j), UNCHANGED upd
  PROVE  Typed' /\ Refd' /\ ListInv'
<1>1. /\ j.groups = {} /\ j.ents = {} /\ j.write = Nil
      /\ record' = [i \in Ids |-> IF i \in j.drop THEN NoRecord ELSE record[i]]
      /\ groupRec' = [g \in Groups |-> IF g \in j.dropGroups THEN NoRecord ELSE groupRec[g]]
      /\ jobs' = jobs \ {j}
      /\ cached' = Uncached(cached, j.uncache) /\ weak' = Uncached(weak, j.uncache)
      /\ UNCHANGED <<groups, members, max_profile_id, held, deleted, replaced, spoiled>>
      /\ Collect(heap)
  BY DEF JobEnds, histVars, Forget
<1>2. /\ cached \in [Ids -> Objs \cup {Nil}] /\ weak \in [Ids -> Objs \cup {Nil}]
      /\ heap \in [Objs -> Objects \cup {Nil}]
  BY DEF Typed
<1>3. /\ cached' \in [Ids -> Objs \cup {Nil}] /\ weak' \in [Ids -> Objs \cup {Nil}]
      /\ \A i \in Ids : cached'[i] # Nil => cached'[i] = cached[i]
      /\ \A i \in Ids : weak'[i] # Nil => weak'[i] = weak[i]
  BY <1>1, <1>2 DEF Uncached
<1>4. /\ record' \in [Ids -> Records \cup {NoRecord}]
      /\ groupRec' \in [Groups -> (SUBSET Ids) \cup {NoRecord}]
      /\ \A l \in jobs' : IsJob(l)
  BY <1>1 DEF Typed
<1>5. /\ heap' \in [Objs -> Objects \cup {Nil}] /\ HeapKept
      /\ \A l \in jobs' : \A p \in l.ents \cup {l.write} : p # Nil => heap'[p] = heap[p]
  <2>1. \A l \in jobs' : l.ents \in SUBSET Objs /\ l.write \in Objs \cup {Nil}
    BY <1>4 DEF IsJob
  <2>2. held'.obj \in Objs \cup {Nil}
    BY <1>1 DEF Typed
  <2> QED
    BY <1>1, <1>2, <1>3, <2>1, <2>2, Collected DEF HeapKept
<1>6. Typed'
  BY <1>1, <1>3, <1>4, <1>5 DEF Typed
<1>7. Refd'
  <2>1. \A i \in Ids : /\ cached'[i] # Nil => heap[cached'[i]] # Nil /\ heap[cached'[i]].id = i
                       /\ weak'[i] # Nil => heap[weak'[i]] # Nil /\ heap[weak'[i]].id = i
    BY <1>3 DEF Refd, Is
  <2>2. \A l \in jobs' : \A p \in l.ents \cup {l.write} : p # Nil => heap[p] # Nil
    BY <1>1 DEF Refd
  <2>4. (held'.pc # "none" => held'.obj # Nil) /\ (held'.obj # Nil => heap[held'.obj] # Nil)
    BY <1>1 DEF Refd
  <2> QED
    BY <1>1, <1>2, <1>6, <2>1, <2>2, <2>4, RefsStay
<1>8. /\ \A g \in Groups : OnDisk(g)' \subseteq OnDisk(g)
      /\ \A i \in Ids : Plain(i)' <=> Plain(i)
      /\ \A h \in Groups : (Clearing(h)' <=> Clearing(h)) /\ (Saving(h)' <=> Saving(h))
  BY <1>1 DEF OnDisk, Plain, Clearing, Saving
<1>9. ListsMove
  BY <1>1, <1>8 DEF ListsMove, Lists
<1>10. ObjectsMove
  <2>1. Recorded
    BY <1>1 DEF Recorded
  <2>2. ASSUME NEW i \in Ids, Live(i)
        PROVE  Live(i)' \/ \E l \in jobs : l.groups = {} /\ i \in l.drop
    <3>1. CASE i \in j.drop
      BY <1>1, <3>1
    <3>2. CASE i \notin j.drop /\ record[i] # NoRecord
      BY <1>1, <3>2 DEF Live
    <3>3. ASSUME NEW l \in jobs, SavedBy(l, i) PROVE Live(i)'
      <4>1. l # j
        BY <1>1, <3>3 DEF SavedBy, Is
      <4>2. l \in jobs' /\ SavedBy(l, i)'
        BY <1>1, <1>5, <3>3, <4>1 DEF SavedBy, Is
      <4> QED
        BY <4>2 DEF Live
    <3> QED
      BY <2>2, <3>1, <3>2, <3>3 DEF Live
  <2> QED
    BY <1>1, <1>5, <2>1, <2>2, ObjectsStay DEF ObjectsMove
<1>11. JobsMove
  BY <1>1 DEF JobsMove
<1>12. GroupsMove
  BY <1>1 DEF GroupsMove, ListInv, Gone
<1> QED
  BY <1>6, <1>7, <1>9, <1>10, <1>11, <1>12, ListStep

-----------------------------------------------------------------------------
(* Objects that are made or loaded.                                        *)

\* With room for it, the object that is made next is free.
LEMMA NewObject ==
  ASSUME Typed, Room(1)
  PROVE  NewObj \in Objs /\ heap[NewObj] = Nil
<1>1. Free # {}
  BY FS_EmptySet DEF Room
<1>2. Free \in SUBSET Nat
  BY Nothing DEF Free
<1>3. NewObj \in Free
  BY <1>1, <1>2, MinIn DEF NewObj
<1> QED
  BY <1>3 DEF Free

\* The profile that GetProfile returns is the cached object's, or the record's.
LEMMA KnownIs ==
  ASSUME Typed, Refd, NEW i \in Ids, Known(i)
  PROVE  /\ Cached(i) \in Objs \cup {Nil}
         /\ Cached(i) # Nil => Is(Cached(i), i) /\ GetProfile(i) = heap[Cached(i)]
         /\ Cached(i) = Nil => record[i] # NoRecord /\ GetProfile(i) = FromRecord(i)
         /\ GetProfile(i) \in Objects /\ GetProfile(i).id = i
         /\ There(i) /\ HasGid(i, GetProfile(i).gid)
<1>1. /\ Cached(i) \in Objs \cup {Nil}
      /\ Cached(i) # Nil => Is(Cached(i), i)
  BY DEF Typed, Refd, Cached
<1>2. CASE Cached(i) # Nil
  <2>1. Is(Cached(i), i) /\ GetProfile(i) = heap[Cached(i)] /\ Cached(i) \in Objs
    BY <1>1, <1>2 DEF GetProfile
  <2>2. heap[Cached(i)] \in Objects /\ heap[Cached(i)].id = i
    BY <2>1 DEF Is, Typed
  <2> QED
    BY <1>2, <2>1, <2>2 DEF There, HasGid
<1>3. CASE Cached(i) = Nil
  <2>1. record[i] # NoRecord /\ GetProfile(i) = FromRecord(i)
    BY <1>3 DEF Known, GetProfile
  <2>2. record[i] \in Records
    BY <2>1 DEF Typed
  <2>3. FromRecord(i) \in Objects /\ FromRecord(i).id = i /\ FromRecord(i).gid = record[i].gid
    BY <2>2 DEF FromRecord, Objects, Records
  <2> QED
    BY <1>3, <2>1, <2>3 DEF There, HasGid
<1> QED
  BY <1>1, <1>2, <1>3

\* The object GetProfile leaves is the cached one, or a new one made from the record.
LEMMA Loading ==
  ASSUME Typed, Refd, NEW i \in Ids, CanLoad(i)
  PROVE  /\ Loaded(i) \in Objs
         /\ Cached(i) # Nil => Is(Loaded(i), i) /\ heap[Loaded(i)] = GetProfile(i)
         /\ Cached(i) = Nil => heap[Loaded(i)] = Nil /\ GetProfile(i) = FromRecord(i)
<1>1. Known(i) /\ (Cached(i) # Nil \/ Room(1))
  BY DEF CanLoad
<1>2. CASE Cached(i) # Nil
  <2>1. Loaded(i) = Cached(i)
    BY <1>2 DEF Loaded
  <2> QED
    BY <1>1, <1>2, <2>1, KnownIs
<1>3. CASE Cached(i) = Nil
  <2>1. Loaded(i) = NewObj
    BY <1>3 DEF Loaded
  <2> QED
    BY <1>1, <1>3, <2>1, KnownIs, NewObject
<1> QED
  BY <1>2, <1>3

\* A step that makes or changes objects of one profile that is there brings no other back.
LEMMA ObjectsGrow ==
  ASSUME NEW i \in Ids, There(i), record' = record,
         \A o \in Objs : \/ heap'[o] = heap[o]
                         \/ heap'[o] = Nil
                         \/ heap'[o].id = i /\ (HasGid(i, heap'[o].gid) \/ ~Plain(i)')
  PROVE  /\ \A x \in Ids : There(x)' => There(x)
         /\ \A x \in Ids, g \in Groups : Plain(x)' /\ HasGid(x, g)' => HasGid(x, g)
<1>1. ASSUME NEW x \in Ids, There(x)' PROVE There(x)
  <2>1. CASE record[x] # NoRecord
    BY <2>1 DEF There
  <2>2. ASSUME NEW o \in Objs, Is(o, x)' PROVE There(x)
    <3>1. heap'[o] = heap[o] \/ x = i
      BY <2>2 DEF Is
    <3>2. heap'[o] = heap[o] => Is(o, x)
      BY <2>2 DEF Is
    <3> QED
      BY <3>1, <3>2 DEF There
  <2> QED
    BY <1>1, <2>1, <2>2 DEF There
<1>2. ASSUME NEW x \in Ids, NEW g \in Groups, Plain(x)', HasGid(x, g)' PROVE HasGid(x, g)
  <2>1. CASE record[x] # NoRecord /\ record[x].gid = g
    BY <2>1 DEF HasGid
  <2>2. ASSUME NEW o \in Objs, Is(o, x)', heap'[o].gid = g PROVE HasGid(x, g)
    <3>1. heap'[o] = heap[o] \/ (x = i /\ HasGid(i, heap'[o].gid))
      BY <1>2, <2>2 DEF Is
    <3>2. heap'[o] = heap[o] => Is(o, x) /\ heap[o].gid = g
      BY <2>2 DEF Is
    <3> QED
      BY <2>2, <3>1, <3>2 DEF HasGid
  <2> QED
    BY <1>2, <2>1, <2>2 DEF HasGid
<1> QED
  BY <1>1, <1>2

\* A test's or dialog's GetProfile (Database.cpp:1145) keeps the invariant.
LEMMA HolderGetsKeeps ==
  ASSUME Typed, Refd, ListInv, NEW i \in Ids, HolderGets(i), UpdKeeps
  PROVE  Typed' /\ Refd' /\ ListInv'
<1> DEFINE h == [heap EXCEPT ![Loaded(i)] = GetProfile(i)]
<1>1. /\ CanLoad(i) /\ Known(i)
      /\ held' = [pc |-> IF Cached(i) = Nil THEN "loaded" ELSE "has", obj |-> Loaded(i)]
      /\ spoiled' = [spoiled EXCEPT
            !["askedLate"] = @ \cup ({i} \cap Dropping),
            !["aliased"] = @ \cup {x \in {i} : ReadsOld(x)}]
      /\ UNCHANGED <<record, groupRec, cached, weak, groups, members, max_profile_id, jobs,
                     deleted, replaced>>
      /\ Collect(h)
  BY DEF HolderGets, CanLoad, diskVars, heldRest
<1>2. /\ Loaded(i) \in Objs
      /\ GetProfile(i) \in Objects /\ GetProfile(i).id = i /\ There(i)
      /\ HasGid(i, GetProfile(i).gid)
      /\ heap[Loaded(i)] = Nil \/ heap[Loaded(i)] = GetProfile(i)
  BY <1>1, KnownIs, Loading
<1>3. /\ h \in [Objs -> Objects \cup {Nil}]
      /\ h[Loaded(i)] = GetProfile(i)
      /\ \A o \in Objs : h[o] = heap[o] \/ o = Loaded(i)
      /\ \A o \in Objs : heap[o] # Nil => h[o] = heap[o]
      /\ Loaded(i) # Nil /\ GetProfile(i) # Nil
  BY <1>2, Nothing DEF Typed
<1> HIDE DEF h
<1>4. /\ held'.obj = Loaded(i) /\ held'.pc \in {"loaded", "has"}
      /\ held' = [pc |-> held'.pc, obj |-> held'.obj]
  BY <1>1
<1>5. /\ heap' \in [Objs -> Objects \cup {Nil}]
      /\ \A o \in Objs : heap'[o] = h[o] \/ heap'[o] = Nil
      /\ \A j \in jobs : \A o \in j.ents \cup {j.write} : o # Nil => heap'[o] = h[o]
  <2>1. /\ cached' \in [Ids -> Objs \cup {Nil}] /\ weak' \in [Ids -> Objs \cup {Nil}]
        /\ \A j \in jobs' : j.ents \in SUBSET Objs /\ j.write \in Objs \cup {Nil}
    BY <1>1 DEF Typed, IsJob
  <2>2. held'.obj \in Objs \cup {Nil}
    BY <1>2, <1>4
  <2> QED
    BY <1>1, <1>3, <2>1, <2>2, Collected
<1>6. spoiled' = [s \in Spoilers |-> spoiled'[s]] /\ \A x \in Ids : Plain(x)' <=> Plain(x)
  BY <1>1 DEF Typed, Plain, Spoilers
<1>7. Typed'
  BY <1>1, <1>2, <1>4, <1>5, <1>6 DEF Typed
<1>8. Refd'
  <2>1. \A x \in Ids : /\ cached'[x] # Nil => h[cached'[x]] # Nil /\ h[cached'[x]].id = x
                       /\ weak'[x] # Nil => h[weak'[x]] # Nil /\ h[weak'[x]].id = x
    BY <1>1, <1>3 DEF Refd, Is, Typed
  <2>2. \A j \in jobs' : \A o \in j.ents \cup {j.write} : o # Nil => h[o] # Nil
    BY <1>1, <1>3 DEF Refd, Typed, IsJob
  <2>3. held'.obj # Nil /\ h[held'.obj] # Nil
    BY <1>3, <1>4
  <2> QED
    BY <1>1, <1>3, <1>7, <2>1, <2>2, <2>3, RefsStay
<1>9. ListInv'
  <2>1. ListsMove
    BY <1>1, <1>6 DEF ListsMove, UpdKeeps, Lists, OnDisk
  <2>2. \A x \in Ids : Live(x) => Live(x)'
    <3>1. \A j \in jobs : \A o \in j.ents \cup {j.write} : o # Nil => heap'[o] = heap[o]
      BY <1>3, <1>5 DEF Refd, Typed, IsJob
    <3> QED
      BY <1>1, <3>1 DEF Live, SavedBy, Is
  <2>3. \A o \in Objs : \/ heap'[o] = heap[o]
                        \/ heap'[o] = Nil
                        \/ heap'[o].id = i /\ HasGid(i, heap'[o].gid)
    BY <1>2, <1>3, <1>5
  <2>4. ObjectsMove
    BY <1>1, <1>2, <2>2, <2>3, ObjectsGrow DEF ObjectsMove
  <2>5. JobsMove
    BY <1>1 DEF JobsMove
  <2>6. GroupsMove
    BY <1>1 DEF GroupsMove, ListInv, Gone
  <2> QED
    BY <1>7, <2>1, <2>4, <2>5, <2>6, ListStep
<1> QED
  BY <1>7, <1>8, <1>9

-----------------------------------------------------------------------------
(* The operations, and the threads they start.                             *)

\* A thread starts with nothing to do.
LEMMA NewJobIs ==
  NewJob = [op |-> NewJob.op, groups |-> {}, ents |-> {}, write |-> Nil, drop |-> {},
            dropGroups |-> {}, uncache |-> {}]
<1> DEFINE n == Min({m \in 1 .. Cardinality(jobs) + 1 : \A j \in jobs : j.op # m})
<1>1. NewJob = [op |-> n, groups |-> {}, ents |-> {}, write |-> Nil, drop |-> {},
                dropGroups |-> {}, uncache |-> {}]
  BY DEF NewJob
<1> HIDE DEF n
<1> QED
  BY <1>1

\* The threads that the operations start.
JobIs(k, gs, es, w, ds, dgs, us) ==
  /\ IsJob(k) /\ k.groups = gs /\ k.ents = es /\ k.write = w
  /\ k.drop = ds /\ k.dropGroups = dgs /\ k.uncache = us
Saver(gs, es) == [NewJob EXCEPT !.groups = gs, !.ents = es]
Dropper(gs, ds) == [NewJob EXCEPT !.groups = gs, !.drop = ds]
Replacer(es, us) == [NewJob EXCEPT !.ents = es, !.uncache = us]

\* The thread that AddProfileBatch starts.
LEMMA SavingJob ==
  ASSUME NEW gs \in SUBSET Groups, NEW es \in SUBSET Objs
  PROVE  JobIs(Saver(gs, es), gs, es, Nil, {}, {}, {})
<1> DEFINE k == Saver(gs, es)
<1> DEFINE j == [NewJob EXCEPT !.groups = gs]
<1>1. j = [op |-> NewJob.op, groups |-> gs, ents |-> {}, write |-> Nil, drop |-> {},
           dropGroups |-> {}, uncache |-> {}]
  BY NewJobIs
<1>2. k = [j EXCEPT !.ents = es]
  BY DEF Saver
<1> HIDE DEF j
<1>3. k = [op |-> NewJob.op, groups |-> gs, ents |-> es, write |-> Nil, drop |-> {},
           dropGroups |-> {}, uncache |-> {}]
  BY <1>1, <1>2
<1> HIDE DEF k
<1>4. /\ k.op = NewJob.op /\ k.groups = gs /\ k.ents = es /\ k.write = Nil
      /\ k.drop = {} /\ k.dropGroups = {} /\ k.uncache = {}
  BY <1>3
<1>5. k = [op |-> k.op, groups |-> k.groups, ents |-> k.ents, write |-> k.write,
           drop |-> k.drop, dropGroups |-> k.dropGroups, uncache |-> k.uncache]
  BY <1>3, <1>4
<1>6. IsJob(k)
  BY <1>4, <1>5 DEF IsJob
<1> QED
  BY <1>4, <1>6 DEF k, JobIs

\* The thread that DropNulls and MoveProfileBatch start.
LEMMA ListSavingJob ==
  ASSUME NEW gs \in SUBSET Groups, NEW k, k = [NewJob EXCEPT !.groups = gs]
  PROVE  /\ IsJob(k) /\ k.groups = gs /\ k.ents = {} /\ k.write = Nil
         /\ k.drop = {} /\ k.dropGroups = {} /\ k.uncache = {}
<1>1. k = [op |-> NewJob.op, groups |-> gs, ents |-> {}, write |-> Nil, drop |-> {},
           dropGroups |-> {}, uncache |-> {}]
  BY NewJobIs
<1>4. /\ k.op = NewJob.op /\ k.groups = gs /\ k.ents = {} /\ k.write = Nil
      /\ k.drop = {} /\ k.dropGroups = {} /\ k.uncache = {}
  BY <1>1
<1>5. k = [op |-> k.op, groups |-> k.groups, ents |-> k.ents, write |-> k.write,
           drop |-> k.drop, dropGroups |-> k.dropGroups, uncache |-> k.uncache]
  BY <1>1, <1>4
<1> QED
  BY <1>4, <1>5 DEF IsJob

\* The thread that BatchDeleteProfiles starts.
LEMMA DroppingJob ==
  ASSUME NEW gs \in SUBSET Groups, NEW ds \in SUBSET Ids
  PROVE  JobIs(Dropper(gs, ds), gs, {}, Nil, ds, {}, {})
<1> DEFINE k == Dropper(gs, ds)
<1> DEFINE j == [NewJob EXCEPT !.groups = gs]
<1>1. j = [op |-> NewJob.op, groups |-> gs, ents |-> {}, write |-> Nil, drop |-> {},
           dropGroups |-> {}, uncache |-> {}]
  BY NewJobIs
<1>2. k = [j EXCEPT !.drop = ds]
  BY DEF Dropper
<1> HIDE DEF j
<1>3. k = [op |-> NewJob.op, groups |-> gs, ents |-> {}, write |-> Nil, drop |-> ds,
           dropGroups |-> {}, uncache |-> {}]
  BY <1>1, <1>2
<1> HIDE DEF k
<1>4. /\ k.op = NewJob.op /\ k.groups = gs /\ k.ents = {} /\ k.write = Nil
      /\ k.drop = ds /\ k.dropGroups = {} /\ k.uncache = {}
  BY <1>3
<1>5. k = [op |-> k.op, groups |-> k.groups, ents |-> k.ents, write |-> k.write,
           drop |-> k.drop, dropGroups |-> k.dropGroups, uncache |-> k.uncache]
  BY <1>3, <1>4
<1>6. IsJob(k)
  BY <1>4, <1>5 DEF IsJob
<1> QED
  BY <1>4, <1>6 DEF k, JobIs

\* The thread that BatchDeleteGroups starts.
LEMMA GroupDroppingJob ==
  ASSUME NEW gs \in SUBSET Groups, NEW k, k = [NewJob EXCEPT !.dropGroups = gs]
  PROVE  /\ IsJob(k) /\ k.groups = {} /\ k.ents = {} /\ k.write = Nil
         /\ k.drop = {} /\ k.dropGroups = gs /\ k.uncache = {}
<1>1. k = [op |-> NewJob.op, groups |-> {}, ents |-> {}, write |-> Nil, drop |-> {},
           dropGroups |-> gs, uncache |-> {}]
  BY NewJobIs
<1>4. /\ k.op = NewJob.op /\ k.groups = {} /\ k.ents = {} /\ k.write = Nil
      /\ k.drop = {} /\ k.dropGroups = gs /\ k.uncache = {}
  BY <1>1
<1>5. k = [op |-> k.op, groups |-> k.groups, ents |-> k.ents, write |-> k.write,
           drop |-> k.drop, dropGroups |-> k.dropGroups, uncache |-> k.uncache]
  BY <1>1, <1>4
<1> QED
  BY <1>4, <1>5 DEF IsJob

\* The thread that ReplaceProfile starts.
LEMMA ReplacingJob ==
  ASSUME NEW es \in SUBSET Objs, NEW us \in SUBSET Ids
  PROVE  JobIs(Replacer(es, us), {}, es, Nil, {}, {}, us)
<1> DEFINE k == Replacer(es, us)
<1> DEFINE j == [NewJob EXCEPT !.ents = es]
<1>1. j = [op |-> NewJob.op, groups |-> {}, ents |-> es, write |-> Nil, drop |-> {},
           dropGroups |-> {}, uncache |-> {}]
  BY NewJobIs
<1>2. k = [j EXCEPT !.uncache = us]
  BY DEF Replacer
<1> HIDE DEF j
<1>3. k = [op |-> NewJob.op, groups |-> {}, ents |-> es, write |-> Nil, drop |-> {},
           dropGroups |-> {}, uncache |-> us]
  BY <1>1, <1>2
<1> HIDE DEF k
<1>4. /\ k.op = NewJob.op /\ k.groups = {} /\ k.ents = es /\ k.write = Nil
      /\ k.drop = {} /\ k.dropGroups = {} /\ k.uncache = us
  BY <1>3
<1>5. k = [op |-> k.op, groups |-> k.groups, ents |-> k.ents, write |-> k.write,
           drop |-> k.drop, dropGroups |-> k.dropGroups, uncache |-> k.uncache]
  BY <1>3, <1>4
<1>6. IsJob(k)
  BY <1>4, <1>5 DEF IsJob
<1> QED
  BY <1>4, <1>6 DEF k, JobIs

-----------------------------------------------------------------------------

\* BatchDeleteGroups keeps the invariant.
LEMMA BatchDeleteGroupsKeeps ==
  ASSUME Typed, Refd, ListInv, NEW g \in Groups, BatchDeleteGroups(g), UpdKeeps
  PROVE  Typed' /\ Refd' /\ ListInv'
<1> DEFINE k == [NewJob EXCEPT !.dropGroups = {g}]
<1>1. /\ groups' = groups \ {g} /\ jobs' = jobs \cup {k} /\ deleted' = deleted \cup {g}
      /\ spoiled' = [spoiled EXCEPT !["inHand"] = @ \cup
                       {h \in {g} : \E j \in jobs : h \in j.groups}]
      /\ UNCHANGED <<record, groupRec, heap, cached, weak, members, max_profile_id, held,
                     replaced>>
  BY DEF BatchDeleteGroups, RunOnNewThread, Spoil, diskVars
<1>2. /\ IsJob(k) /\ k.ents = {} /\ k.write = Nil /\ k.drop = {} /\ k.dropGroups = {g}
      /\ k.groups = {}
  <2>1. {g} \in SUBSET Groups
    OBVIOUS
  <2> QED
    BY <2>1, GroupDroppingJob
<1> HIDE DEF k
<1>3. spoiled' = [s \in Spoilers |-> spoiled'[s]] /\ \A x \in Ids : Plain(x)' <=> Plain(x)
  BY <1>1 DEF Typed, Plain, Spoilers
<1>4. Typed'
  BY <1>1, <1>2, <1>3 DEF Typed
<1>5. Refd'
  BY <1>1, <1>2 DEF Refd, Is
<1>6. ListsMove
  BY <1>1, <1>3 DEF ListsMove, UpdKeeps, Lists, OnDisk
<1>7. ObjectsMove
  BY <1>1, <1>3 DEF ObjectsMove, There, HasGid, Live, SavedBy, Is
<1>8. JobsMove
  BY <1>1, <1>2 DEF JobsMove
<1>9. GroupsMove
  BY <1>1, <1>2 DEF GroupsMove, ListInv, Gone
<1> QED
  BY <1>4, <1>5, <1>6, <1>7, <1>8, <1>9, ListStep

\* DropNulls keeps it: the list only gets shorter, and a thread saves it.
LEMMA DropNullsKeeps ==
  ASSUME Typed, Refd, ListInv, NEW g \in Groups, DropNulls(g), UpdKeeps
  PROVE  Typed' /\ Refd' /\ ListInv'
<1>1. /\ members' = [members EXCEPT ![g] = @ \ {i \in members[g] : ~Known(i)}]
      /\ groupRec' = [groupRec EXCEPT ![g] = members'[g]]
      /\ UNCHANGED <<record, heap, cached, weak, groups, max_profile_id, jobs, held,
                     deleted, replaced, spoiled>>
  BY DEF DropNulls, histVars
<1>2. members' \in [Groups -> SUBSET Ids] /\ \A h \in Groups : members'[h] \subseteq members[h]
  BY <1>1 DEF Typed
<1>3. /\ groupRec' \in [Groups -> (SUBSET Ids) \cup {NoRecord}]
      /\ OnDisk(g)' = members'[g] /\ groupRec'[g] # NoRecord
      /\ \A h \in Groups : h # g => OnDisk(h)' = OnDisk(h) /\ groupRec'[h] = groupRec[h]
  BY <1>1, <1>2, Nothing DEF Typed, OnDisk
<1>4. Typed'
  BY <1>1, <1>2, <1>3 DEF Typed
<1>5. Refd'
  BY <1>1 DEF Refd, Is
<1>6. ListsMove
  BY <1>1, <1>2, <1>3 DEF ListsMove, UpdKeeps, Lists, Plain
<1>7. ObjectsMove
  BY <1>1 DEF ObjectsMove, There, HasGid, Live, SavedBy, Is
<1>8. JobsMove
  <2> SUFFICES ASSUME NEW j \in jobs'
               PROVE  \E k \in jobs : j.drop \subseteq k.drop /\ \A h \in k.groups : h \in j.groups
    BY DEF JobsMove
  <2> QED
    BY <1>1
<1>9. GroupsMove
  BY <1>1, <1>3 DEF GroupsMove, ListInv, Gone
<1> QED
  BY <1>4, <1>5, <1>6, <1>7, <1>8, <1>9, ListStep

\* MoveProfileBatch keeps it: the profile it puts into a second list is `moved' from then on.
LEMMA MoveProfileBatchKeeps ==
  ASSUME Typed, Refd, ListInv, NEW i \in Ids, NEW g \in Groups, MoveProfileBatch(i, g), UpdKeeps
  PROVE  Typed' /\ Refd' /\ ListInv'
<1> DEFINE old == GetProfile(i).gid
           k == [NewJob EXCEPT !.groups = {old, g}]
           new == [GetProfile(i) EXCEPT !.gid = g]
           h == [heap EXCEPT ![Loaded(i)] = new]
<1>1. /\ CanLoad(i) /\ Known(i) /\ old \in groups
      /\ members' = [members EXCEPT ![old] = @ \ {i}, ![g] = @ \cup {i}]
      /\ weak' = [weak EXCEPT ![i] = IF cached[i] = Nil THEN Loaded(i) ELSE @]
      /\ jobs' = jobs \cup {k}
      /\ spoiled' = [spoiled EXCEPT !["moved"] = @ \cup {i},
                                    !["askedLate"] = @ \cup ({i} \cap deleted),
                                    !["aliased"] = @ \cup {x \in {i} : ReadsOld(x)}]
      /\ UNCHANGED <<record, groupRec, cached, groups, max_profile_id, held, deleted, replaced>>
      /\ Collect(h)
  BY DEF MoveProfileBatch, RunOnNewThread, CanLoad, diskVars
<1>2. /\ Loaded(i) \in Objs /\ Loaded(i) # Nil
      /\ GetProfile(i) \in Objects /\ GetProfile(i).id = i /\ There(i)
      /\ heap[Loaded(i)] = Nil \/ heap[Loaded(i)] = GetProfile(i)
  BY <1>1, KnownIs, Loading, Nothing
<1>3. old \in Groups /\ k \in {k} /\ {old, g} \in SUBSET Groups
  BY <1>1 DEF Typed
<1>4. /\ IsJob(k) /\ k.groups = {old, g} /\ k.ents = {} /\ k.write = Nil
      /\ k.drop = {} /\ k.dropGroups = {}
  BY <1>3, ListSavingJob
<1>5. /\ new \in Objects /\ new.id = i /\ new.no_save = GetProfile(i).no_save /\ new # Nil
  BY <1>2, Nothing DEF Objects
<1> HIDE DEF new, k
<1>6. /\ h \in [Objs -> Objects \cup {Nil}]
      /\ h[Loaded(i)] = new
      /\ \A o \in Objs : h[o] = heap[o] \/ o = Loaded(i)
      /\ \A o \in Objs : heap[o] # Nil => /\ h[o] # Nil /\ h[o].id = heap[o].id
                                          /\ h[o].no_save = heap[o].no_save
  BY <1>2, <1>5 DEF Typed
<1> HIDE DEF h
<1>7. /\ weak' \in [Ids -> Objs \cup {Nil}]
      /\ weak'[i] = weak[i] \/ weak'[i] = Loaded(i)
      /\ \A x \in Ids : x # i => weak'[x] = weak[x]
  BY <1>1, <1>2 DEF Typed
<1>8. \A j \in jobs' : IsJob(j)
  BY <1>1, <1>4 DEF Typed
<1>9. /\ heap' \in [Objs -> Objects \cup {Nil}]
      /\ \A o \in Objs : heap'[o] = h[o] \/ heap'[o] = Nil
      /\ \A j \in jobs' : \A o \in j.ents \cup {j.write} : o # Nil => heap'[o] = h[o]
  <2>1. /\ cached' \in [Ids -> Objs \cup {Nil}] /\ held'.obj \in Objs \cup {Nil}
        /\ \A j \in jobs' : j.ents \in SUBSET Objs /\ j.write \in Objs \cup {Nil}
    BY <1>1, <1>8 DEF Typed, IsJob
  <2> QED
    BY <1>1, <1>6, <1>7, <2>1, Collected
<1>10. /\ spoiled' = [s \in Spoilers |-> spoiled'[s]]
       /\ \A x \in Ids : Plain(x)' => Plain(x) /\ x # i
  BY <1>1 DEF Typed, Plain, Spoilers
<1>11. /\ members' \in [Groups -> SUBSET Ids]
       /\ \A x \in Ids, f \in Groups : x # i /\ x \in members'[f] => x \in members[f]
  BY <1>1, <1>3 DEF Typed
<1>12. Typed'
  BY <1>1, <1>7, <1>8, <1>9, <1>10, <1>11 DEF Typed
<1>13. Refd'
  <2>1. \A x \in Ids : cached'[x] # Nil => h[cached'[x]] # Nil /\ h[cached'[x]].id = x
    BY <1>1, <1>6 DEF Refd, Is, Typed
  <2>2. \A x \in Ids : weak'[x] # Nil => h[weak'[x]] # Nil /\ h[weak'[x]].id = x
    BY <1>5, <1>6, <1>7 DEF Refd, Is, Typed
  <2>3. \A j \in jobs' : \A o \in j.ents \cup {j.write} : o # Nil => h[o] # Nil
    BY <1>1, <1>4, <1>6 DEF Refd, Typed, IsJob
  <2>4. (held'.pc # "none" => held'.obj # Nil) /\ (held'.obj # Nil => h[held'.obj] # Nil)
    BY <1>1, <1>6 DEF Refd, Typed
  <2> QED
    BY <1>1, <1>6, <1>12, <2>1, <2>2, <2>3, <2>4, RefsStay
<1>14. ListInv'
  <2>1. ListsMove
    BY <1>1, <1>10, <1>11 DEF ListsMove, UpdKeeps, Lists, OnDisk
  <2>2. \A x \in Ids : Live(x) => Live(x)'
    <3>1. \A j \in jobs : \A o \in j.ents \cup {j.write} : o # Nil =>
             heap'[o] # Nil /\ heap'[o].id = heap[o].id /\ heap'[o].no_save = heap[o].no_save
      BY <1>1, <1>6, <1>9 DEF Refd, Typed, IsJob
    <3> QED
      BY <1>1, <3>1 DEF Live, SavedBy, Is
  <2>3. \A o \in Objs : \/ heap'[o] = heap[o]
                        \/ heap'[o] = Nil
                        \/ heap'[o].id = i /\ ~Plain(i)'
    BY <1>5, <1>6, <1>9, <1>10
  <2>4. ObjectsMove
    BY <1>1, <1>2, <2>2, <2>3, ObjectsGrow DEF ObjectsMove
  <2>5. JobsMove
    BY <1>1, <1>4 DEF JobsMove
  <2>6. GroupsMove
    BY <1>1, <1>4 DEF GroupsMove, ListInv, Gone
  <2> QED
    BY <1>12, <2>1, <2>4, <2>5, <2>6, ListStep
<1> QED
  BY <1>12, <1>13, <1>14

\* ReplaceProfile(i, c), with the heap it makes and the thread it starts.
Replacing(i, c, h, k) ==
  /\ Known(i) /\ There(i) /\ HasGid(i, GetProfile(i).gid)
  /\ weak' = [weak EXCEPT ![i] = Nil]
  /\ cached' = [cached EXCEPT ![i] = NewObj]
  /\ jobs' = jobs \cup {k}
  /\ replaced' = [replaced EXCEPT ![i] = c]
  /\ spoiled' = [spoiled EXCEPT
       !["aliased"] = @ \cup {x \in {i} : Aliased(x)},
       !["askedLate"] = @ \cup ({i} \cap Dropping)]
  /\ UNCHANGED <<record, groupRec, groups, members, max_profile_id, held, deleted>>
  /\ Collect(h)
  /\ IsJob(k) /\ k.groups = {} /\ k.ents = {NewObj} /\ k.write = Nil
  /\ k.drop = {} /\ k.dropGroups = {} /\ k.uncache = {i}
  /\ h \in [Objs -> Objects \cup {Nil}]
  /\ NewObj \in Objs /\ NewObj # Nil /\ heap[NewObj] = Nil
  /\ h[NewObj] # Nil /\ h[NewObj].id = i /\ h[NewObj].key = c /\ ~h[NewObj].no_save
  /\ \A o \in Objs : heap[o] # Nil => h[o] # Nil /\ h[o].id = heap[o].id
  /\ \A o \in Objs : o \notin {NewObj, Cached(i)} => h[o] = heap[o]
  /\ \A o \in Objs : o = Cached(i) => heap[o].id = i /\ h[o].id = i /\ h[o].no_save
  /\ \A o \in Objs : h[o] = heap[o] \/ (h[o].id = i /\ h[o].gid = GetProfile(i).gid)

\* What ReplaceProfile does: the old object is silenced, the new one has the new content.
LEMMA ReplacingIs ==
  ASSUME Typed, Refd, NEW i \in Ids, NEW c \in Keys, ReplaceProfile(i, c)
  PROVE  \E h, k : Replacing(i, c, h, k)
<1> DEFINE old == Cached(i)
           k == Replacer({NewObj}, {i})
           new == [id |-> i, key |-> c, gid |-> GetProfile(i).gid, no_save |-> FALSE]
           h0 == IF old = Nil THEN heap ELSE Silenced(old)
           h == [h0 EXCEPT ![NewObj] = new]
<1>1. /\ Known(i) /\ Room(1)
      /\ weak' = [weak EXCEPT ![i] = Nil]
      /\ cached' = [cached EXCEPT ![i] = NewObj]
      /\ jobs' = jobs \cup {k}
      /\ replaced' = [replaced EXCEPT ![i] = c]
      /\ spoiled' = [spoiled EXCEPT
           !["aliased"] = @ \cup {x \in {i} : Aliased(x)},
           !["askedLate"] = @ \cup ({i} \cap Dropping)]
      /\ UNCHANGED <<record, groupRec, groups, members, max_profile_id, held, deleted>>
      /\ Collect(h)
  BY DEF ReplaceProfile, RunOnNewThread, Replacer, diskVars
<1>2. /\ NewObj \in Objs /\ heap[NewObj] = Nil /\ NewObj # Nil
      /\ old \in Objs \cup {Nil}
      /\ old # Nil => heap[old] \in Objects /\ heap[old].id = i /\ heap[old] = GetProfile(i)
      /\ GetProfile(i) \in Objects /\ There(i) /\ HasGid(i, GetProfile(i).gid)
  <2>1. NewObj \in Objs /\ heap[NewObj] = Nil /\ NewObj # Nil
    BY <1>1, NewObject, Nothing
  <2>2. /\ old \in Objs \cup {Nil}
        /\ old # Nil => Is(old, i) /\ heap[old] = GetProfile(i)
        /\ GetProfile(i) \in Objects /\ GetProfile(i).id = i
        /\ There(i) /\ HasGid(i, GetProfile(i).gid)
    BY <1>1, KnownIs
  <2> HIDE DEF old
  <2> QED
    BY <2>1, <2>2
<1>3. /\ new \in Objects /\ new.id = i /\ new.gid = GetProfile(i).gid /\ ~new.no_save
      /\ new.key = c
      /\ new # Nil
  <2>1. GetProfile(i).gid \in Groups
    BY <1>2 DEF Objects
  <2>2. new \in Objects
    BY <2>1 DEF Objects
  <2>3. new # Nil
    BY <2>2, Nothing
  <2> QED
    BY <2>2, <2>3
<1>4. /\ IsJob(k) /\ k.groups = {} /\ k.ents = {NewObj} /\ k.write = Nil
      /\ k.drop = {} /\ k.dropGroups = {} /\ k.uncache = {i}
  <2> DEFINE es == {NewObj}
             us == {i}
  <2>1. es \in SUBSET Objs /\ us \in SUBSET Ids
    BY <1>2
  <2> HIDE DEF es, us
  <2>2. JobIs(Replacer(es, us), {}, es, Nil, {}, {}, us)
    BY <2>1, ReplacingJob
  <2>3. JobIs(k, {}, {NewObj}, Nil, {}, {}, {i})
    BY <2>2 DEF es, us
  <2> HIDE DEF k
  <2> QED
    BY <2>3 DEF JobIs
<1> HIDE DEF new, k
<1>5. /\ h0 \in [Objs -> Objects \cup {Nil}]
      /\ \A o \in Objs : o # old => h0[o] = heap[o]
      /\ old # Nil => /\ h0[old] \in Objects /\ h0[old].id = i
                     /\ h0[old].gid = GetProfile(i).gid /\ h0[old].no_save
  <2>1. CASE old = Nil
    BY <1>2, <2>1, Nothing DEF Typed
  <2>2. CASE old # Nil
    <3>1. h0 = [heap EXCEPT ![old].no_save = TRUE]
      BY <2>2 DEF Silenced
    <3>2. [heap[old] EXCEPT !.no_save = TRUE] \in Objects
      BY <1>2, <2>2 DEF Objects
    <3>3. heap \in [Objs -> Objects \cup {Nil}] /\ old \in Objs
      BY <1>2, <2>2 DEF Typed
    <3>4. /\ h0 \in [Objs -> Objects \cup {Nil}]
          /\ \A o \in Objs : o # old => h0[o] = heap[o]
          /\ h0[old] = [heap[old] EXCEPT !.no_save = TRUE]
      BY <3>1, <3>2, <3>3
    <3>5. /\ [heap[old] EXCEPT !.no_save = TRUE].id = heap[old].id
          /\ [heap[old] EXCEPT !.no_save = TRUE].gid = heap[old].gid
          /\ [heap[old] EXCEPT !.no_save = TRUE].no_save
      BY <1>2, <2>2 DEF Objects
    <3> QED
      BY <1>2, <2>2, <3>2, <3>4, <3>5
  <2> QED
    BY <2>1, <2>2
<1> HIDE DEF h0, old
<1>6. /\ h \in [Objs -> Objects \cup {Nil}]
      /\ h[NewObj] = new
      /\ \A o \in Objs : o # NewObj => h[o] = h0[o]
  BY <1>2, <1>3, <1>5
<1> HIDE DEF h
<1>7. /\ \A o \in Objs : heap[o] # Nil => h[o] # Nil /\ h[o].id = heap[o].id
      /\ \A o \in Objs : o \notin {NewObj, old} => h[o] = heap[o]
      /\ \A o \in Objs : o = old => heap[o].id = i /\ h[o].id = i /\ h[o].no_save
      /\ \A o \in Objs : h[o] = heap[o] \/ (h[o].id = i /\ h[o].gid = GetProfile(i).gid)
  BY <1>2, <1>3, <1>5, <1>6, Nothing
<1>8. /\ h[NewObj] # Nil /\ h[NewObj].id = i /\ h[NewObj].key = c /\ ~h[NewObj].no_save
      /\ Known(i) /\ There(i) /\ HasGid(i, GetProfile(i).gid)
  BY <1>1, <1>2, <1>3, <1>6
<1>9. Replacing(i, c, h, k)
  BY <1>1, <1>2, <1>4, <1>6, <1>7, <1>8, Zenon DEF Replacing, old
<1> QED
  BY <1>9

\* ReplaceProfile keeps it: the new object has the profile's id and group.
LEMMA ReplaceProfileKeeps ==
  ASSUME Typed, Refd, ListInv, NEW i \in Ids, NEW c \in Keys, ReplaceProfile(i, c), UpdKeeps
  PROVE  Typed' /\ Refd' /\ ListInv'
<1>0. PICK h, k : Replacing(i, c, h, k)
  BY ReplacingIs
<1>1. /\ weak' = [weak EXCEPT ![i] = Nil]
      /\ cached' = [cached EXCEPT ![i] = NewObj]
      /\ jobs' = jobs \cup {k}
      /\ replaced' = [replaced EXCEPT ![i] = c]
      /\ spoiled' = [spoiled EXCEPT
           !["aliased"] = @ \cup {x \in {i} : Aliased(x)},
           !["askedLate"] = @ \cup ({i} \cap Dropping)]
      /\ UNCHANGED <<record, groupRec, groups, members, max_profile_id, held, deleted>>
      /\ Collect(h)
  BY <1>0 DEF Replacing
<1>2. /\ NewObj \in Objs /\ NewObj # Nil /\ heap[NewObj] = Nil
      /\ There(i) /\ HasGid(i, GetProfile(i).gid)
  BY <1>0 DEF Replacing
<1>4. /\ IsJob(k) /\ k.groups = {} /\ k.ents = {NewObj} /\ k.write = Nil
      /\ k.drop = {} /\ k.dropGroups = {}
  BY <1>0 DEF Replacing
<1>6. /\ h \in [Objs -> Objects \cup {Nil}]
      /\ h[NewObj] # Nil /\ h[NewObj].id = i /\ ~h[NewObj].no_save
  BY <1>0 DEF Replacing
<1>7. /\ \A o \in Objs : heap[o] # Nil => h[o] # Nil /\ h[o].id = heap[o].id
      /\ \A o \in Objs : heap[o] # Nil /\ heap[o].id # i => h[o] = heap[o]
      /\ \A o \in Objs : h[o] = heap[o] \/ (h[o].id = i /\ h[o].gid = GetProfile(i).gid)
  BY <1>0 DEF Replacing
<1>8. /\ weak' \in [Ids -> Objs \cup {Nil}] /\ cached' \in [Ids -> Objs \cup {Nil}]
      /\ weak'[i] = Nil /\ cached'[i] = NewObj
      /\ \A x \in Ids : x # i => weak'[x] = weak[x] /\ cached'[x] = cached[x]
  BY <1>1, <1>2 DEF Typed
<1>9. \A j \in jobs' : IsJob(j)
  BY <1>1, <1>4 DEF Typed
<1>10. /\ heap' \in [Objs -> Objects \cup {Nil}]
       /\ \A o \in Objs : heap'[o] = h[o] \/ heap'[o] = Nil
       /\ \A j \in jobs' : \A o \in j.ents \cup {j.write} : o # Nil => heap'[o] = h[o]
  <2>1. /\ held'.obj \in Objs \cup {Nil}
        /\ \A j \in jobs' : j.ents \in SUBSET Objs /\ j.write \in Objs \cup {Nil}
    BY <1>1, <1>9 DEF Typed, IsJob
  <2> QED
    BY <1>1, <1>6, <1>8, <2>1, Collected
<1>11. /\ spoiled' = [s \in Spoilers |-> spoiled'[s]]
       /\ \A x \in Ids : Plain(x)' <=> Plain(x)
  BY <1>1 DEF Typed, Plain, Spoilers
<1>12. Typed'
  <2>1. replaced' \in [Ids -> Keys \cup {Nil}]
    BY <1>1 DEF Typed
  <2> QED
    BY <1>1, <1>8, <1>9, <1>10, <1>11, <2>1 DEF Typed
<1>13. Refd'
  <2>1. \A x \in Ids : cached'[x] # Nil => h[cached'[x]] # Nil /\ h[cached'[x]].id = x
    BY <1>6, <1>7, <1>8 DEF Refd, Is, Typed
  <2>2. \A x \in Ids : weak'[x] # Nil => h[weak'[x]] # Nil /\ h[weak'[x]].id = x
    BY <1>7, <1>8 DEF Refd, Is, Typed
  <2>3. \A j \in jobs' : \A o \in j.ents \cup {j.write} : o # Nil => h[o] # Nil
    BY <1>1, <1>4, <1>6, <1>7 DEF Refd, Typed, IsJob
  <2>4. (held'.pc # "none" => held'.obj # Nil) /\ (held'.obj # Nil => h[held'.obj] # Nil)
    BY <1>1, <1>7 DEF Refd, Typed
  <2> QED
    BY <1>1, <1>6, <1>12, <2>1, <2>2, <2>3, <2>4, RefsStay
<1>14. ListInv'
  <2>1. ListsMove
    BY <1>1, <1>11 DEF ListsMove, UpdKeeps, Lists, OnDisk
  <2>2. ASSUME NEW x \in Ids, Live(x) PROVE Live(x)'
    <3>1. k \in jobs' /\ NewObj \in k.ents /\ heap'[NewObj] = h[NewObj]
      <4>1. k \in jobs' /\ NewObj \in k.ents
        BY <1>1, <1>4
      <4> QED
        BY <1>2, <1>10, <4>1
    <3>2. Live(i)'
      BY <1>2, <1>6, <3>1 DEF Live, SavedBy, Is
    <3>3. ASSUME x # i, NEW j \in jobs, SavedBy(j, x) PROVE Live(x)'
      <4>1. PICK o \in j.ents \cup {j.write} : Is(o, x) /\ ~heap[o].no_save
        BY <3>3 DEF SavedBy
      <4>2. o \in Objs /\ j \in jobs'
        BY <1>1, <4>1 DEF Is, Typed, IsJob
      <4>3. heap'[o] = heap[o]
        BY <1>7, <1>10, <3>3, <4>1, <4>2 DEF Is
      <4> QED
        BY <4>1, <4>2, <4>3 DEF Live, SavedBy, Is
    <3> QED
      BY <1>1, <2>2, <3>2, <3>3 DEF Live
  <2>3. \A o \in Objs : \/ heap'[o] = heap[o]
                        \/ heap'[o] = Nil
                        \/ heap'[o].id = i /\ HasGid(i, heap'[o].gid)
    BY <1>2, <1>7, <1>10
  <2>4. ObjectsMove
    BY <1>1, <1>2, <2>2, <2>3, ObjectsGrow DEF ObjectsMove
  <2>5. JobsMove
    BY <1>1, <1>4 DEF JobsMove
  <2>6. GroupsMove
    BY <1>1, <1>4 DEF GroupsMove, ListInv, Gone
  <2> QED
    BY <1>12, <2>1, <2>4, <2>5, <2>6, ListStep
<1> QED
  BY <1>12, <1>13, <1>14

\* BatchDeleteProfiles(ids, unlist): the profiles it deletes, the groups it takes them from,
\* and the thread it starts.
From(g, dels, unlist) == IF unlist /\ g \in groups THEN Of(g, dels) ELSE {}
Deleting(ids, unlist, dels, k) ==
  /\ dels = Deletable(ids)
  /\ dels \in SUBSET Ids /\ dels \subseteq ids /\ \A i \in dels : Known(i)
  /\ members' = [g \in Groups |-> members[g] \ From(g, dels, unlist)]
  /\ cached' = Uncached(cached, dels) /\ weak' = Uncached(weak, dels)
  /\ (jobs' = jobs /\ dels = {}) \/ jobs' = jobs \cup {k}
  /\ deleted' = deleted \cup dels
  /\ spoiled' = [spoiled EXCEPT !["inHand"] = @ \cup {i \in dels : InHand(i)}]
  /\ UNCHANGED <<record, groupRec, groups, max_profile_id, held, replaced>>
  /\ Collect(heap)
  /\ IsJob(k) /\ k.groups = {g \in Groups : From(g, dels, unlist) # {}}
  /\ k.ents = {} /\ k.write = Nil /\ k.drop = dels /\ k.dropGroups = {}

\* What BatchDeleteProfiles does.
LEMMA DeletingIs ==
  ASSUME NEW ids \in SUBSET Ids, NEW unlist \in BOOLEAN, BatchDeleteProfiles(ids, unlist)
  PROVE  \E dels, k : Deleting(ids, unlist, dels, k)
<1> DEFINE dels == Deletable(ids)
           gs == {g \in Groups : From(g, dels, unlist) # {}}
           k == Dropper(gs, dels)
<1>1. /\ members' = [g \in Groups |-> members[g] \ From(g, dels, unlist)]
      /\ cached' = Uncached(cached, dels) /\ weak' = Uncached(weak, dels)
      /\ (jobs' = jobs /\ dels = {}) \/ jobs' = jobs \cup {k}
      /\ deleted' = deleted \cup dels
      /\ spoiled' = [spoiled EXCEPT !["inHand"] = @ \cup {i \in dels : InHand(i)}]
      /\ UNCHANGED <<record, groupRec, groups, max_profile_id, held, replaced>>
      /\ Collect(heap)
  BY DEF BatchDeleteProfiles, RunOnNewThread, Dropper, Forget, Spoil, diskVars, From
<1>2. /\ dels \in SUBSET Ids /\ dels \subseteq ids /\ gs \in SUBSET Groups
      /\ \A i \in dels : Known(i)
  BY DEF Deletable
<1>3. IsJob(k) /\ k.groups = gs /\ k.ents = {} /\ k.write = Nil /\ k.drop = dels
           /\ k.dropGroups = {}
  <2> HIDE DEF gs, dels
  <2>1. JobIs(Dropper(gs, dels), gs, {}, Nil, dels, {}, {})
    BY <1>2, DroppingJob
  <2> QED
    BY <2>1 DEF JobIs
<1> HIDE DEF k, dels
<1>4. Deleting(ids, unlist, dels, k)
  BY <1>1, <1>2, <1>3, Zenon DEF Deleting, dels
<1> QED
  BY <1>4

\* BatchDeleteProfiles keeps it: it takes the profiles out of every list before the thread
\* that drops their records starts, or the caller is about to empty the list.
LEMMA BatchDeleteProfilesKeeps ==
  ASSUME Typed, Refd, ListInv, NEW ids \in SUBSET Ids, NEW unlist \in BOOLEAN,
         BatchDeleteProfiles(ids, unlist), UpdKeeps,
         unlist \/ \E g \in Groups : ids \subseteq members[g] /\ Clearing(g)'
  PROVE  Typed' /\ Refd' /\ ListInv'
<1>0. PICK dels, k : Deleting(ids, unlist, dels, k)
  BY DeletingIs
<1> DEFINE from(g) == From(g, dels, unlist)
           gs == {g \in Groups : from(g) # {}}
<1>1. /\ members' = [g \in Groups |-> members[g] \ from(g)]
      /\ cached' = Uncached(cached, dels) /\ weak' = Uncached(weak, dels)
      /\ jobs' = jobs \/ jobs' = jobs \cup {k}
      /\ deleted' = deleted \cup dels
      /\ spoiled' = [spoiled EXCEPT !["inHand"] = @ \cup {i \in dels : InHand(i)}]
      /\ UNCHANGED <<record, groupRec, groups, max_profile_id, held, replaced>>
      /\ Collect(heap)
  BY <1>0 DEF Deleting
<1>2. /\ dels \in SUBSET Ids /\ dels \subseteq ids /\ gs \in SUBSET Groups
      /\ \A i \in dels : Known(i)
  BY <1>0 DEF Deleting
<1>3. IsJob(k) /\ k.groups = gs /\ k.ents = {} /\ k.write = Nil /\ k.drop = dels
           /\ k.dropGroups = {}
  BY <1>0 DEF Deleting
<1>4. \A g \in Groups : members'[g] = members[g] \ from(g)
  BY <1>1
<1>5. \A i \in dels, g \in Groups :
        i \in from(g) <=> unlist /\ g \in groups /\ GetProfile(i).gid = g
  BY DEF Of, From
<1>6. members' \in [Groups -> SUBSET Ids] /\ \A g \in Groups : members'[g] \subseteq members[g]
  BY <1>1 DEF Typed
<1> HIDE DEF from
<1>7. /\ cached' \in [Ids -> Objs \cup {Nil}] /\ weak' \in [Ids -> Objs \cup {Nil}]
      /\ \A i \in Ids : cached'[i] # Nil => cached'[i] = cached[i]
      /\ \A i \in Ids : weak'[i] # Nil => weak'[i] = weak[i]
  BY <1>1 DEF Typed, Uncached
<1>8. \A j \in jobs' : IsJob(j)
  BY <1>1, <1>3 DEF Typed
<1>9. /\ heap' \in [Objs -> Objects \cup {Nil}] /\ HeapKept
      /\ \A j \in jobs' : \A o \in j.ents \cup {j.write} : o # Nil => heap'[o] = heap[o]
  <2>1. /\ held'.obj \in Objs \cup {Nil} /\ heap \in [Objs -> Objects \cup {Nil}]
        /\ \A j \in jobs' : j.ents \in SUBSET Objs /\ j.write \in Objs \cup {Nil}
    BY <1>1, <1>8 DEF Typed, IsJob
  <2> QED
    BY <1>1, <1>7, <2>1, Collected DEF HeapKept
<1>10. /\ spoiled' = [s \in Spoilers |-> spoiled'[s]]
       /\ \A x \in Ids : Plain(x)' <=> Plain(x)
  BY <1>1 DEF Typed, Plain, Spoilers
<1>11. Typed'
  BY <1>1, <1>2, <1>6, <1>7, <1>8, <1>9, <1>10 DEF Typed
<1>12. Refd'
  <2>1. \A i \in Ids : /\ cached'[i] # Nil => heap[cached'[i]] # Nil /\ heap[cached'[i]].id = i
                       /\ weak'[i] # Nil => heap[weak'[i]] # Nil /\ heap[weak'[i]].id = i
    BY <1>7 DEF Refd, Is
  <2>2. \A j \in jobs' : \A o \in j.ents \cup {j.write} : o # Nil => heap[o] # Nil
    BY <1>1, <1>3 DEF Refd
  <2>3. (held'.pc # "none" => held'.obj # Nil) /\ (held'.obj # Nil => heap[held'.obj] # Nil)
    BY <1>1 DEF Refd
  <2>4. heap \in [Objs -> Objects \cup {Nil}]
    BY DEF Typed
  <2> QED
    BY <1>1, <1>11, <2>1, <2>2, <2>3, <2>4, RefsStay
<1>13. ListInv'
  <2>1. ListsMove
    BY <1>1, <1>6, <1>10 DEF ListsMove, UpdKeeps, Lists, OnDisk
  <2>2. \A i \in Ids : Live(i) => Live(i)'
    <3>1. \A j \in jobs : j \in jobs' /\ \A o \in j.ents \cup {j.write} : o # Nil
               => heap'[o] = heap[o]
      BY <1>1, <1>9
    <3> QED
      BY <1>1, <3>1 DEF Live, SavedBy, Is
  <2>3. ObjectsMove
    <3>1. Recorded
      BY <1>1 DEF Recorded
    <3> QED
      BY <1>1, <1>9, <2>2, <3>1, ObjectsStay DEF ObjectsMove
  <2>4. ASSUME NEW j, j = k, NEW i \in dels, NEW g \in Groups PROVE Unlisted(i, j, g)'
    <3> SUFFICES ASSUME Plain(i), g \notin deleted, Lists(g, i)
                 PROVE  /\ i \in members'[g] => Clearing(g)'
                        /\ i \in OnDisk(g)' => g \in gs \/ Saving(g)'
      <4>1. j.groups = gs
        BY <1>3, <2>4
      <4>2. /\ i \in Ids /\ (Plain(i)' => Plain(i)) /\ (g \notin deleted' => g \notin deleted)
            /\ i \in members'[g] => i \in members[g]
            /\ OnDisk(g)' = OnDisk(g)
        BY <1>1, <1>2, <1>6, <1>10 DEF OnDisk
      <4> HIDE DEF gs
      <4> QED
        BY <4>1, <4>2 DEF Unlisted, Lists
    <3>1. i \in Ids /\ HasGid(i, GetProfile(i).gid) /\ GetProfile(i).gid \in Groups
      <4>1. i \in Ids /\ HasGid(i, GetProfile(i).gid) /\ GetProfile(i) \in Objects
        BY <1>2, KnownIs
      <4> QED
        BY <4>1 DEF Objects
    <3>2. GetProfile(i).gid = g
      BY <3>1 DEF ListInv, Home
    <3>3. g \in groups
      BY DEF ListInv, Gone
    <3>4. CASE unlist
      <4>1. i \in from(g)
        BY <1>5, <3>2, <3>3, <3>4
      <4> QED
        BY <1>4, <4>1
    <3>5. ASSUME NEW f \in Groups, ids \subseteq members[f], Clearing(f)'
          PROVE  Clearing(g)' /\ Saving(g)'
      <4>1. Lists(f, i)
        BY <1>2, <3>5 DEF Lists
      <4>2. f = g
        BY <3>1, <4>1 DEF ListInv, Owner
      <4> QED
        BY <3>5, <4>2 DEF Clearing, Saving
    <3> QED
      BY <3>4, <3>5
  <2>5. JobsMove
    <3> SUFFICES ASSUME NEW j \in jobs'
                 PROVE  \/ \E l \in jobs : /\ j.drop \subseteq l.drop
                                           /\ \A g \in l.groups : g \in j.groups
                        \/ \A i \in j.drop : There(i) /\ \A g \in Groups : Unlisted(i, j, g)'
      BY DEF JobsMove
    <3>1. CASE j \in jobs
      BY <3>1
    <3>2. CASE j = k
      <4>1. \A i \in dels : There(i)
        BY <1>2, KnownIs
      <4> QED
        BY <1>3, <2>4, <3>2, <4>1
    <3> QED
      BY <1>1, <3>1, <3>2
  <2>6. GroupsMove
    BY <1>1, <1>3 DEF GroupsMove, ListInv, Gone
  <2> QED
    BY <1>11, <2>1, <2>3, <2>5, <2>6, ListStep
<1> QED
  BY <1>11, <1>12, <1>13

\* The update's clearing of the list (GroupUpdater.cpp:1509) keeps it.
LEMMA ClearListKeeps ==
  ASSUME Typed, UpdTyped, Refd, ListInv, ClearList
  PROVE  Typed' /\ Refd' /\ ListInv'
<1>1. /\ upd.pc = "clear" /\ upd.gid \in Groups
      /\ members' = [members EXCEPT ![upd.gid] = {}]
      /\ upd' = [upd EXCEPT !.pc = "save"]
      /\ UNCHANGED <<record, groupRec, heap, cached, weak, groups, max_profile_id, jobs, held,
                     deleted, replaced, spoiled>>
  BY DEF ClearList, AtUpd, Goto, UpdTyped, diskVars, histVars
<1>2. upd'.pc = "save" /\ upd'.gid = upd.gid
  BY <1>1 DEF UpdTyped
<1>3. /\ members' \in [Groups -> SUBSET Ids] /\ members'[upd.gid] = {}
      /\ \A g \in Groups : members'[g] \subseteq members[g]
  BY <1>1 DEF Typed
<1>4. Typed'
  BY <1>1, <1>3 DEF Typed
<1>5. Refd'
  BY <1>1 DEF Refd, Is
<1>6. ListsMove
  BY <1>1, <1>2, <1>3 DEF ListsMove, Lists, OnDisk, Plain, Clearing, Saving
<1>7. ObjectsMove
  BY <1>1 DEF ObjectsMove, There, HasGid, Live, SavedBy, Is, Plain
<1>8. JobsMove
  BY <1>1 DEF JobsMove
<1>9. GroupsMove
  BY <1>1 DEF GroupsMove, ListInv, Gone
<1> QED
  BY <1>4, <1>5, <1>6, <1>7, <1>8, <1>9, ListStep

\* The update's save of the group (GroupUpdater.cpp:1524) keeps it.
LEMMA SaveGroupKeeps ==
  ASSUME Typed, UpdTyped, Refd, ListInv, SaveGroup
  PROVE  Typed' /\ Refd' /\ ListInv'
<1>0. PICK u \in Groups : u = upd.gid
  BY DEF SaveGroup, AtUpd, UpdTyped
<1>1. /\ upd.pc = "save"
      /\ groupRec' = [groupRec EXCEPT ![u] = members[u]]
      /\ spoiled' = [spoiled EXCEPT !["inHand"] = @ \cup ({u} \cap deleted)]
      /\ UNCHANGED <<record, heap, cached, weak, groups, members, max_profile_id, jobs, held,
                     deleted, replaced>>
  BY <1>0 DEF SaveGroup, AtUpd, memVars
<1>2. members[u] \in SUBSET Ids
  BY <1>1 DEF Typed
<1>3. /\ groupRec' \in [Groups -> (SUBSET Ids) \cup {NoRecord}]
      /\ OnDisk(u)' = members[u] /\ groupRec'[u] # NoRecord
      /\ \A g \in Groups : g # u => OnDisk(g)' = OnDisk(g) /\ groupRec'[g] = groupRec[g]
  BY <1>1, <1>2, Nothing DEF Typed, OnDisk
<1>4. /\ spoiled' = [s \in Spoilers |-> spoiled'[s]]
      /\ \A x \in Ids : Plain(x)' <=> Plain(x)
  BY <1>1 DEF Typed, Plain, Spoilers
<1>5. Typed'
  BY <1>1, <1>3, <1>4 DEF Typed
<1>6. Refd'
  BY <1>1 DEF Refd, Is
<1>7. ListsMove
  BY <1>0, <1>1, <1>3, <1>4 DEF ListsMove, Lists, Clearing, Saving
<1>8. ObjectsMove
  BY <1>1, <1>4 DEF ObjectsMove, There, HasGid, Live, SavedBy, Is
<1>9. JobsMove
  <2> SUFFICES ASSUME NEW j \in jobs'
               PROVE  \E k \in jobs : j.drop \subseteq k.drop /\ \A h \in k.groups : h \in j.groups
    BY DEF JobsMove
  <2> QED
    BY <1>1
<1>10. GroupsMove
  BY <1>1, <1>3 DEF GroupsMove, ListInv, Gone
<1> QED
  BY <1>5, <1>6, <1>7, <1>8, <1>9, <1>10, ListStep

\* AddProfileBatch(ks, g): the ids it gives, the objects it makes, the heap with them, and
\* the thread it starts.
Adding(ks, g, news, es, h, k) ==
  /\ news \in SUBSET Ids /\ g \in groups
  /\ max_profile_id \in Nat /\ max_profile_id' \in 0 .. MaxId
  /\ \A x \in Ids : x <= max_profile_id => x <= max_profile_id'
  /\ \A x \in news : x > max_profile_id /\ x <= max_profile_id'
  /\ members' = [members EXCEPT ![g] = @ \cup news]
  /\ jobs' = jobs \cup {k}
  /\ deleted' = deleted \ news
  /\ replaced' = [i \in Ids |-> IF i \in news THEN Nil ELSE replaced[i]]
  /\ spoiled' = [spoiled EXCEPT !["reused"] = @ \cup {i \in news : ListedBack(i)}]
  /\ UNCHANGED <<record, groupRec, weak, groups, held>>
  /\ Collect(h)
  /\ h \in [Objs -> Objects \cup {Nil}]
  /\ \A o \in Objs : h[o] = heap[o] \/ (/\ h[o] \in Objects /\ h[o].id \in news
                                       /\ h[o].gid = g /\ o \in es)
  /\ \A o \in Objs : heap[o] # Nil => h[o] = heap[o]
  /\ \A o \in es : o \in Objs /\ h[o] # Nil
  /\ \A x \in news : /\ cached'[x] \in es /\ cached'[x] \in Objs /\ cached'[x] # Nil
                     /\ h[cached'[x]] \in Objects /\ h[cached'[x]].id = x
                     /\ ~h[cached'[x]].no_save
  /\ \A x \in Ids : x \notin news => cached'[x] = cached[x]
  /\ cached' \in [Ids -> Objs \cup {Nil}]
  /\ \A o \in Objs : h[o] = heap[o] \/ o = cached'[h[o].id]
  /\ \A x \in news : h[cached'[x]].key \in ks
  /\ \A c \in ks : \E x \in news : h[cached'[x]].key = c
  /\ \A x, y \in news : h[cached'[x]].key = h[cached'[y]].key => x = y
  /\ IsJob(k) /\ k.groups = {g} /\ k.ents = es /\ k.write = Nil
  /\ k.drop = {} /\ k.dropGroups = {}

\* What AddProfileBatch does: new ids, each with an object of its own.
LEMMA AddingIs ==
  ASSUME Typed, NEW ks \in SUBSET Keys, NEW g \in Groups, AddProfileBatch(ks, g)
  PROVE  \E news, es, h, k : Adding(ks, g, news, es, h, k)
<1> DEFINE last == max_profile_id
           size == Cardinality(ks)
           key == SetToSeq(ks)
           obj == SetToSeq(Free)
           news == {last + n : n \in 1 .. size}
           es == {obj[n] : n \in 1 .. size}
           gs == {g}
           k == Saver(gs, es)
           h == [o \in Objs |->
                  IF \E n \in 1 .. size : obj[n] = o
                  THEN LET n == CHOOSE n \in 1 .. size : obj[n] = o IN
                       [id |-> last + n, key |-> key[n], gid |-> g, no_save |-> FALSE]
                  ELSE heap[o]]
<1>1. /\ g \in groups /\ news \subseteq Ids /\ Room(size)
      /\ max_profile_id' = last + size
      /\ members' = [members EXCEPT ![g] = @ \cup news]
      /\ cached' = [i \in Ids |-> IF i \in news THEN obj[i - last] ELSE cached[i]]
      /\ jobs' = jobs \cup {k}
      /\ deleted' = deleted \ news
      /\ replaced' = [i \in Ids |-> IF i \in news THEN Nil ELSE replaced[i]]
      /\ spoiled' = [spoiled EXCEPT !["reused"] = @ \cup {i \in news : ListedBack(i)}]
      /\ UNCHANGED <<record, groupRec, weak, groups, held>>
      /\ Collect(h)
  BY DEF AddProfileBatch, LastId, RunOnNewThread, Saver, Spoil, diskVars
<1>2. /\ size \in Nat /\ key \in [1 .. size -> ks]
      /\ obj \in [1 .. Cardinality(Free) -> Free] /\ Cardinality(Free) \in Nat
      /\ size <= Cardinality(Free)
      /\ \A a, b \in 1 .. Cardinality(Free) : obj[a] = obj[b] => a = b
      /\ \A a, b \in 1 .. size : key[a] = key[b] => a = b
      /\ \A c \in ks : \E n \in 1 .. size : key[n] = c
  <2>1. IsFiniteSet(ks) /\ IsFiniteSet(Free)
    BY FS_Subset, DatabaseAssumption DEF Free
  <2>2. size <= Cardinality(Free)
    BY <1>1 DEF Room
  <2>3. /\ size \in Nat /\ key \in [1 .. size -> ks]
        /\ \A a, b \in 1 .. size : key[a] = key[b] => a = b
        /\ \A c \in ks : \E n \in 1 .. size : key[n] = c
    BY <2>1, SetToSeqIs
  <2>4. /\ obj \in [1 .. Cardinality(Free) -> Free] /\ Cardinality(Free) \in Nat
        /\ \A a, b \in 1 .. Cardinality(Free) : obj[a] = obj[b] => a = b
    BY <2>1, SetToSeqIs
  <2> QED
    BY <2>2, <2>3, <2>4
<1> HIDE DEF size, key, obj
<1>3. /\ \A n \in 1 .. size : obj[n] \in Free /\ key[n] \in Keys
      /\ \A a, b \in 1 .. size : obj[a] = obj[b] => a = b
  BY <1>2
<1>4. /\ last \in Nat /\ last + size \in 0 .. MaxId /\ last <= last + size
      /\ \A x \in news : x \in Ids /\ x - last \in 1 .. size /\ last + (x - last) = x
                         /\ x > last /\ x <= last + size
  <2>1. last \in Nat /\ last \in 0 .. MaxId /\ MaxId \in Nat
    BY Nothing DEF Typed
  <2>2. last + size \in 0 .. MaxId
    <3>1. CASE size = 0
      BY <2>1, <3>1
    <3>2. CASE size # 0
      <4>1. last + size \in news
        BY <1>2, <3>2
      <4>2. last + size \in 1 .. MaxId
        BY <1>1, <4>1, Nothing
      <4> QED
        BY <4>2, <2>1
    <3> QED
      BY <3>1, <3>2
  <2>3. \A x \in news : x \in Ids
    BY <1>1
  <2> HIDE DEF last
  <2>4. ASSUME NEW x \in news PROVE x - last \in 1 .. size /\ last + (x - last) = x
                         /\ x > last /\ x <= last + size
    <3>1. PICK n \in 1 .. size : x = last + n
      OBVIOUS
    <3> QED
      BY <1>2, <2>1, <3>1
  <2> QED
    BY <1>2, <2>1, <2>2, <2>3, <2>4
<1>5. /\ \A n \in 1 .. size :
           h[obj[n]] = [id |-> last + n, key |-> key[n], gid |-> g, no_save |-> FALSE]
      /\ \A o \in Objs : (\E n \in 1 .. size : obj[n] = o) \/ h[o] = heap[o]
  <2>1. ASSUME NEW n \in 1 .. size
        PROVE  h[obj[n]] = [id |-> last + n, key |-> key[n], gid |-> g, no_save |-> FALSE]
    <3>1. obj[n] \in Objs
      BY <1>3 DEF Free
    <3>2. (CHOOSE m \in 1 .. size : obj[m] = obj[n]) = n
      BY <1>3
    <3> QED
      BY <3>1, <3>2
  <2> QED
    BY <2>1
<1>6. \A n \in 1 .. size :
        /\ obj[n] \in Objs /\ heap[obj[n]] = Nil /\ obj[n] # Nil
        /\ h[obj[n]] \in Objects /\ h[obj[n]].id = last + n /\ h[obj[n]].gid = g
        /\ ~h[obj[n]].no_save /\ last + n \in news /\ h[obj[n]].key = key[n]
  <2> SUFFICES ASSUME NEW n \in 1 .. size
               PROVE  /\ obj[n] \in Objs /\ heap[obj[n]] = Nil /\ obj[n] # Nil
                      /\ h[obj[n]] \in Objects /\ h[obj[n]].id = last + n /\ h[obj[n]].gid = g
                      /\ ~h[obj[n]].no_save /\ last + n \in news /\ h[obj[n]].key = key[n]
    OBVIOUS
  <2>1. last + n \in Ids /\ last + n \in news
    BY <1>4
  <2>2. obj[n] \in Objs /\ heap[obj[n]] = Nil /\ obj[n] # Nil
    BY <1>3, Nothing DEF Free
  <2>3. h[obj[n]] = [id |-> last + n, key |-> key[n], gid |-> g, no_save |-> FALSE]
    BY <1>5
  <2> HIDE DEF h, last
  <2>4. /\ h[obj[n]] \in Objects /\ h[obj[n]].id = last + n /\ h[obj[n]].gid = g
        /\ ~h[obj[n]].no_save /\ h[obj[n]].key = key[n]
    BY <1>3, <2>1, <2>3 DEF Objects
  <2> QED
    BY <2>1, <2>2, <2>4
<1> HIDE DEF h
<1>7. /\ \A o \in Objs : h[o] = heap[o] \/ (/\ h[o] \in Objects /\ h[o].id \in news
                                             /\ h[o].gid = g /\ o \in es)
      /\ \A o \in Objs : heap[o] # Nil => h[o] = heap[o]
      /\ h \in [Objs -> Objects \cup {Nil}]
  <2>1. /\ \A o \in Objs : h[o] = heap[o] \/ (/\ h[o] \in Objects /\ h[o].id \in news
                                             /\ h[o].gid = g /\ o \in es)
        /\ \A o \in Objs : heap[o] # Nil => h[o] = heap[o]
    BY <1>5, <1>6
  <2>2. DOMAIN h = Objs /\ h = [o \in Objs |-> h[o]]
    BY DEF h
  <2> QED
    BY <2>1, <2>2 DEF Typed
<1>8. /\ \A x \in news : /\ cached'[x] \in es /\ cached'[x] \in Objs /\ cached'[x] # Nil
                         /\ h[cached'[x]] \in Objects /\ h[cached'[x]].id = x
                         /\ ~h[cached'[x]].no_save
      /\ \A x \in Ids : x \notin news => cached'[x] = cached[x]
      /\ cached' \in [Ids -> Objs \cup {Nil}]
  <2>1. ASSUME NEW x \in news
        PROVE  /\ cached'[x] \in es /\ cached'[x] \in Objs /\ cached'[x] # Nil
               /\ h[cached'[x]] \in Objects /\ h[cached'[x]].id = x
               /\ ~h[cached'[x]].no_save
    <3>1. cached'[x] = obj[x - last] /\ x - last \in 1 .. size /\ last + (x - last) = x
      BY <1>1, <1>4
    <3> HIDE DEF last
    <3> QED
      BY <1>6, <3>1
  <2>2. \A x \in Ids : x \notin news => cached'[x] = cached[x]
    BY <1>1
  <2>3. cached' = [x \in Ids |-> cached'[x]]
    BY <1>1
  <2> QED
    BY <2>1, <2>2, <2>3 DEF Typed
<1>9. IsJob(k) /\ k.groups = gs /\ k.ents = es /\ k.write = Nil /\ k.drop = {} /\ k.dropGroups = {}
  <2>1. es \in SUBSET Objs /\ gs \in SUBSET Groups
    BY <1>6
  <2> HIDE DEF es, gs
  <2>2. JobIs(Saver(gs, es), gs, es, Nil, {}, {}, {})
    BY <2>1, SavingJob
  <2> QED
    BY <2>2 DEF JobIs
<1>10. /\ news \in SUBSET Ids /\ max_profile_id' \in 0 .. MaxId
       /\ \A x \in Ids : x <= last => x <= max_profile_id'
       /\ \A x \in news : x > last /\ x <= max_profile_id'
  <2>1. news \in SUBSET Ids /\ max_profile_id' \in 0 .. MaxId
    BY <1>1, <1>4
  <2>2. \A x \in news : x > last /\ x <= max_profile_id'
    BY <1>1, <1>4
  <2> HIDE DEF last
  <2>3. \A x \in Ids : x <= last => x <= max_profile_id'
    BY <1>1, <1>2, <1>4 DEF Ids
  <2> QED
    BY <2>1, <2>2, <2>3
<1>11. \A o \in es : o \in Objs /\ h[o] # Nil
  BY <1>6, Nothing
<1>12. \A n \in 1 .. size : last + n \in news /\ cached'[last + n] = obj[n]
  <2> SUFFICES ASSUME NEW n \in 1 .. size PROVE last + n \in news /\ cached'[last + n] = obj[n]
    OBVIOUS
  <2>1. last + n \in news /\ last + n \in Ids
    BY <1>4
  <2>2. last \in Nat /\ size \in Nat
    BY <1>2, <1>4
  <2>3. cached'[last + n] = obj[(last + n) - last]
    BY <1>1, <2>1
  <2> HIDE DEF last, news
  <2>4. (last + n) - last = n
    BY <2>2
  <2> QED
    BY <2>1, <2>3, <2>4
<1>13. \A x \in news : \E n \in 1 .. size : x = last + n
  OBVIOUS
<1> HIDE DEF news, last
<1>14. /\ \A o \in Objs : h[o] = heap[o] \/ o = cached'[h[o].id]
       /\ \A x \in news : h[cached'[x]].key \in ks
       /\ \A c \in ks : \E x \in news : h[cached'[x]].key = c
       /\ \A x, y \in news : h[cached'[x]].key = h[cached'[y]].key => x = y
  <2>1. \A o \in Objs : h[o] = heap[o] \/ o = cached'[h[o].id]
    BY <1>5, <1>6, <1>12
  <2>2. \A x \in news : h[cached'[x]].key \in ks
    BY <1>2, <1>6, <1>12, <1>13
  <2>3. \A c \in ks : \E x \in news : h[cached'[x]].key = c
    BY <1>2, <1>6, <1>12
  <2>4. \A x, y \in news : h[cached'[x]].key = h[cached'[y]].key => x = y
    BY <1>2, <1>6, <1>12, <1>13
  <2> QED
    BY <2>1, <2>2, <2>3, <2>4
<1> HIDE DEF k, es
<1>15. Adding(ks, g, news, es, h, k)
  BY <1>1, <1>4, <1>7, <1>8, <1>9, <1>10, <1>11, <1>14, Zenon DEF Adding, gs, last
<1> QED
  BY <1>15

\* AddProfileBatch keeps it: the ids it gives are above those of every list, object, record
\* and thread, by Bounds, and a list it writes has the threads that save its profiles.
LEMMA AddProfileBatchKeeps ==
  ASSUME Typed, Refd, ListInv, NEW ks \in SUBSET Keys, NEW g \in Groups,
         AddProfileBatch(ks, g), UpdKeeps
  PROVE  Typed' /\ Refd' /\ ListInv'
<1>0. PICK news, es, h, k : Adding(ks, g, news, es, h, k)
  BY AddingIs
<1> DEFINE last == max_profile_id
<1>1. /\ g \in groups /\ jobs' = jobs \cup {k}
      /\ members' = [members EXCEPT ![g] = @ \cup news]
      /\ deleted' = deleted \ news
      /\ replaced' = [i \in Ids |-> IF i \in news THEN Nil ELSE replaced[i]]
      /\ spoiled' = [spoiled EXCEPT !["reused"] = @ \cup {i \in news : ListedBack(i)}]
      /\ UNCHANGED <<record, groupRec, weak, groups, held>>
      /\ Collect(h)
  BY <1>0 DEF Adding
<1>4. /\ last \in Nat /\ max_profile_id' \in 0 .. MaxId
      /\ \A x \in Ids : x <= last => x <= max_profile_id'
      /\ \A x \in news : x \in Ids /\ x > last /\ x <= max_profile_id'
  BY <1>0 DEF Adding
<1>6. \A o \in es : o \in Objs /\ h[o] # Nil
  BY <1>0 DEF Adding
<1>7. /\ \A o \in Objs : h[o] = heap[o] \/ (/\ h[o] \in Objects /\ h[o].id \in news
                                             /\ h[o].gid = g /\ o \in es)
      /\ \A o \in Objs : heap[o] # Nil => h[o] = heap[o]
      /\ h \in [Objs -> Objects \cup {Nil}]
  BY <1>0 DEF Adding
<1>8. /\ \A x \in news : /\ cached'[x] \in es /\ cached'[x] \in Objs /\ cached'[x] # Nil
                         /\ h[cached'[x]] \in Objects /\ h[cached'[x]].id = x
                         /\ ~h[cached'[x]].no_save
      /\ \A x \in Ids : x \notin news => cached'[x] = cached[x]
      /\ cached' \in [Ids -> Objs \cup {Nil}]
  BY <1>0 DEF Adding
<1>9. /\ IsJob(k) /\ k.groups = {g} /\ k.ents = es /\ k.write = Nil
      /\ k.drop = {} /\ k.dropGroups = {}
  BY <1>0 DEF Adding
<1>10. \A j \in jobs' : IsJob(j)
  BY <1>1, <1>9 DEF Typed
<1>11. /\ heap' \in [Objs -> Objects \cup {Nil}]
       /\ \A o \in Objs : heap'[o] = h[o] \/ heap'[o] = Nil
       /\ \A j \in jobs' : \A o \in j.ents \cup {j.write} : o # Nil => heap'[o] = h[o]
  <2>1. /\ weak' \in [Ids -> Objs \cup {Nil}] /\ held'.obj \in Objs \cup {Nil}
        /\ \A j \in jobs' : j.ents \in SUBSET Objs /\ j.write \in Objs \cup {Nil}
    BY <1>1, <1>10 DEF Typed, IsJob
  <2> QED
    BY <1>1, <1>7, <1>8, <2>1, Collected
<1>12. /\ spoiled' = [s \in Spoilers |-> spoiled'[s]]
       /\ \A x \in Ids : Plain(x)' => Plain(x)
       /\ \A x \in news : Plain(x)' => ~ListedBack(x)
  BY <1>1 DEF Typed, Plain, Spoilers
<1>13. Typed'
  <2>1. members' \in [Groups -> SUBSET Ids] /\ max_profile_id' \in 0 .. MaxId
    BY <1>1, <1>4 DEF Typed
  <2>2. deleted' \in SUBSET (Ids \cup Groups) /\ replaced' \in [Ids -> Keys \cup {Nil}]
    BY <1>1 DEF Typed
  <2> QED
    BY <1>1, <1>8, <1>10, <1>11, <1>12, <2>1, <2>2 DEF Typed
<1>14. Refd'
  <2>1. \A x \in Ids : cached'[x] # Nil => h[cached'[x]] # Nil /\ h[cached'[x]].id = x
    BY <1>7, <1>8, Nothing DEF Refd, Is, Typed
  <2>2. \A x \in Ids : weak'[x] # Nil => h[weak'[x]] # Nil /\ h[weak'[x]].id = x
    BY <1>1, <1>7 DEF Refd, Is, Typed
  <2>3. \A j \in jobs' : \A o \in j.ents \cup {j.write} : o # Nil => h[o] # Nil
    BY <1>1, <1>6, <1>7, <1>9 DEF Refd, Typed, IsJob
  <2>4. (held'.pc # "none" => held'.obj # Nil) /\ (held'.obj # Nil => h[held'.obj] # Nil)
    BY <1>1, <1>7 DEF Refd, Typed
  <2> QED
    BY <1>1, <1>7, <1>13, <2>1, <2>2, <2>3, <2>4, RefsStay
<1> HIDE DEF last
\* The new ids are new to everybody.
<1>15. /\ \A x \in news : x \in Ids /\ ~There(x) /\ x \notin Groups
       /\ \A j \in jobs : \A x \in j.drop : x \notin news
       /\ \A x \in news, f \in Groups : Plain(x)' => ~Lists(f, x)
  <2>1. \A x \in news : x \in Ids /\ ~(x <= last) /\ x \notin Groups
    BY <1>4, Nothing
  <2>2. \A x \in news : ~There(x)
    BY <2>1 DEF ListInv, Bounds, last
  <2>3. \A j \in jobs : \A x \in j.drop : x \notin news
    BY <2>1 DEF ListInv, Bounds, last
  <2>4. ASSUME NEW x \in news, NEW f \in Groups, Plain(x)', Lists(f, x) PROVE FALSE
    <3>1. CASE f \in deleted
      BY <1>12, <2>4, <3>1 DEF Lists, OnDisk, ListedBack
    <3>2. CASE f \notin deleted
      BY <1>12, <2>1, <2>4, <3>2 DEF ListInv, Bounds, last
    <3> QED
      BY <3>1, <3>2
  <2> QED
    BY <2>1, <2>2, <2>3, <2>4
<1>16. /\ \A f \in Groups : OnDisk(f)' = OnDisk(f) /\ (f \in deleted' <=> f \in deleted)
       /\ \A x \in Ids, f \in Groups : x \in members'[f] => x \in members[f] \/ (x \in news
            /\ f = g)
  <2>1. \A f \in Groups : f \notin news
    BY <1>15
  <2> QED
    BY <1>1, <2>1 DEF OnDisk, Typed
<1>17. \A x \in Ids, f \in Groups : Lists(f, x)' => Lists(f, x) \/ (x \in news /\ f = g)
  BY <1>16 DEF Lists
<1>18. \A o \in Objs, x \in Ids : Is(o, x)' =>
         IF x \in news THEN heap'[o].gid = g ELSE Is(o, x) /\ heap'[o] = heap[o]
  BY <1>7, <1>11, <1>15 DEF Is, There
<1>19. /\ \A x \in Ids : There(x)' => There(x) \/ x \in news
       /\ \A x \in Ids, y \in Groups : HasGid(x, y)' => IF x \in news THEN y = g ELSE HasGid(x, y)
  BY <1>1, <1>15, <1>18 DEF There, HasGid
<1>20. \A x \in Ids : Live(x) \/ x \in news => Live(x)'
  <2>1. \A j \in jobs : j \in jobs' /\ \A o \in j.ents \cup {j.write} : o # Nil
             => heap'[o] = heap[o]
    BY <1>1, <1>7, <1>11 DEF Refd, Typed, IsJob
  <2>2. \A x \in Ids : Live(x) => Live(x)'
    BY <1>1, <2>1 DEF Live, SavedBy, Is
  <2>3. ASSUME NEW x \in news PROVE Live(x)'
    <3>1. k \in jobs' /\ cached'[x] \in k.ents
      BY <1>1, <1>8, <1>9
    <3>2. heap'[cached'[x]] = h[cached'[x]]
      BY <1>8, <1>11, <3>1
    <3>3. /\ cached'[x] # Nil /\ heap'[cached'[x]] # Nil /\ heap'[cached'[x]].id = x
          /\ ~heap'[cached'[x]].no_save
      BY <1>8, <3>2, Nothing
    <3> QED
      BY <3>1, <3>3 DEF Live, SavedBy, Is
  <2> QED
    BY <2>2, <2>3
<1>21. Owner'
  BY <1>12, <1>15, <1>17 DEF Owner, ListInv
<1>22. Home'
  BY <1>12, <1>15, <1>17, <1>19 DEF Home, ListInv
<1>23. Exists'
  BY <1>12, <1>16, <1>20 DEF Exists, ListInv, UpdKeeps
<1>24. Drops'
  <2> SUFFICES ASSUME NEW j \in jobs', NEW i \in j.drop, NEW f \in Groups PROVE Unlisted(i, j, f)'
    BY DEF Drops
  <2>1. j \in jobs /\ i \in Ids /\ i \notin news
    BY <1>1, <1>9, <1>15 DEF Typed, IsJob
  <2>2. Unlisted(i, j, f)
    BY <2>1 DEF ListInv, Drops
  <2> QED
    BY <1>12, <1>16, <2>1, <2>2 DEF Unlisted, UpdKeeps
<1>25. Bounds'
  <2>1. /\ \A x \in Ids : x <= last => x <= max_profile_id'
        /\ \A x \in news : x <= max_profile_id'
    BY <1>4
  <2>2. \A x \in Ids : There(x)' => x <= max_profile_id'
    BY <1>19, <2>1 DEF ListInv, Bounds, last
  <2>3. ASSUME NEW j \in jobs', NEW i \in j.drop PROVE i <= max_profile_id'
    <3>1. j \in jobs /\ i \in Ids
      BY <1>1, <1>9 DEF Typed, IsJob
    <3> QED
      BY <2>1, <3>1 DEF ListInv, Bounds, last
  <2>4. \A x \in Ids, f \in Groups :
          Plain(x)' /\ f \notin deleted' /\ Lists(f, x)' => x <= max_profile_id'
    BY <1>12, <1>16, <1>17, <2>1 DEF ListInv, Bounds, last
  <2> QED
    BY <2>2, <2>3, <2>4 DEF Bounds
<1>26. Gone'
  BY <1>1, <1>9, <1>16 DEF Gone, ListInv
<1> QED
  BY <1>13, <1>14, <1>21, <1>22, <1>23, <1>24, <1>25, <1>26 DEF ListInv

-----------------------------------------------------------------------------
(* The start, and a restart.                                               *)

\* The invariant holds once LoadManager has read the files.
LEMMA InitKeeps ==
  ASSUME Init
  PROVE  /\ Typed /\ UpdTyped /\ Refd /\ ListInv
         /\ spoiled["torn"] = {}
         /\ \E c \in Keys : /\ \A o \in Objs : heap[o] # Nil => heap[o].key = c /\ ~heap[o].no_save
                          /\ \A i \in Ids : record[i] # NoRecord => record[i].key = c
<1>1. PICK first \in {{}, {1}}, k \in Keys, g \in Groups :
    /\ record = [i \in Ids |-> IF i \in first THEN [key |-> k, gid |-> g] ELSE NoRecord]
    /\ groupRec = [h \in Groups |-> IF h = g THEN first ELSE {}]
    /\ weak = [i \in Ids |-> IF i \in first THEN Min(Objs) ELSE Nil]
    /\ heap = [o \in Objs |-> IF \E i \in first : weak[i] = o
                               THEN [id |-> 1, key |-> k, gid |-> g, no_save |-> FALSE]
                               ELSE Nil]
    /\ cached = [i \in Ids |-> Nil]
    /\ groups = Groups
    /\ members = groupRec
    /\ max_profile_id = Cardinality(first)
    /\ started_id \in {NoId} \cup first
    /\ jobs = {} /\ locker = 0 /\ held = NotHeld
    /\ ops = 0 /\ restarts = 0
    /\ deleted = {} /\ replaced = [i \in Ids |-> Nil]
    /\ spoiled = [s \in Spoilers |-> {}]
  BY Zenon DEF Init, DbInit
<1>2. upd = Idle
  BY DEF Init
<1>3. 1 \in Ids /\ first \in SUBSET Ids /\ Min(Objs) \in Objs /\ Min(Objs) # Nil
      /\ \A i \in first : i = 1
  <2>1. 1 \in Ids
    BY DatabaseAssumption DEF Ids
  <2>2. Min(Objs) \in Objs
    BY DatabaseAssumption, MinIn
  <2> QED
    BY <2>1, <2>2, Nothing
<1>4. max_profile_id \in 0 .. MaxId /\ \A i \in first : i <= max_profile_id
  <2>1. Cardinality({}) = 0 /\ Cardinality({1}) = 1
    BY FS_EmptySet, FS_Singleton
  <2>2. 1 \in 0 .. MaxId /\ 0 \in 0 .. MaxId
    BY DatabaseAssumption
  <2>3. CASE first = {}
    BY <1>1, <2>1, <2>2, <2>3
  <2>4. CASE first = {1}
    BY <1>1, <2>1, <2>2, <2>4
  <2> QED
    BY <2>3, <2>4
<1>5. [id |-> 1, key |-> k, gid |-> g, no_save |-> FALSE] \in Objects /\ [key |-> k,
           gid |-> g] \in Records
  BY <1>3 DEF Objects, Records
<1>6. /\ \A i \in Ids : record[i] = IF i \in first THEN [key |-> k, gid |-> g] ELSE NoRecord
      /\ \A h \in Groups : groupRec[h] = IF h = g THEN first ELSE {}
      /\ \A h \in Groups : members[h] = IF h = g THEN first ELSE {}
      /\ \A i \in Ids : weak[i] = IF i \in first THEN Min(Objs) ELSE Nil
      /\ \A i \in Ids : cached[i] = Nil
      /\ \A o \in Objs : IF first # {} /\ o = Min(Objs)
                         THEN heap[o] = [id |-> 1, key |-> k, gid |-> g, no_save |-> FALSE]
                         ELSE heap[o] = Nil
      /\ held.pc = "none" /\ held.obj = Nil
  <2>1. \A i \in Ids : weak[i] = IF i \in first THEN Min(Objs) ELSE Nil
    BY <1>1
  <2>2. \A o \in Objs : (\E i \in first : weak[i] = o) <=> first # {} /\ o = Min(Objs)
    BY <1>3, <2>1
  <2>3. \A o \in Objs : IF first # {} /\ o = Min(Objs)
                         THEN heap[o] = [id |-> 1, key |-> k, gid |-> g, no_save |-> FALSE]
                         ELSE heap[o] = Nil
    BY <1>1, <2>2
  <2> QED
    BY <1>1, <2>1, <2>3 DEF NotHeld
<1>7. Typed
  <2>1. record \in [Ids -> Records \cup {NoRecord}]
    BY <1>1, <1>5
  <2>2. heap \in [Objs -> Objects \cup {Nil}]
    BY <1>1, <1>5
  <2>3. /\ groupRec \in [Groups -> (SUBSET Ids) \cup {NoRecord}]
             /\ members \in [Groups -> SUBSET Ids]
    BY <1>1, <1>3
  <2>4. cached \in [Ids -> Objs \cup {Nil}] /\ weak \in [Ids -> Objs \cup {Nil}]
    BY <1>1, <1>3
  <2>5. held = [pc |-> held.pc, obj |-> held.obj]
    BY <1>1 DEF NotHeld
  <2> QED
    BY <1>1, <1>4, <1>6, <2>1, <2>2, <2>3, <2>4, <2>5 DEF Typed
<1>8. UpdTyped
  BY <1>2 DEF UpdTyped, Idle
<1>9. Refd
  <2>1. \A i \in Ids : weak[i] # Nil => Is(weak[i], i)
    BY <1>3, <1>6, <1>5, Nothing DEF Is
  <2> QED
    BY <1>1, <1>6, <2>1 DEF Refd
<1>10. /\ \A i \in Ids, h \in Groups : Lists(h, i) => i \in first /\ h = g
       /\ \A i \in Ids : There(i) => i \in first
       /\ \A i \in Ids, x \in Groups : HasGid(i, x) => x = g
       /\ \A i \in first : i \in Ids /\ record[i] # NoRecord
       /\ \A h \in Groups : groupRec[h] # NoRecord
  <2>1. \A h \in Groups : groupRec[h] # NoRecord /\ OnDisk(h) = IF h = g THEN first ELSE {}
    BY <1>3, <1>6, Nothing DEF OnDisk
  <2>2. \A i \in Ids, h \in Groups : Lists(h, i) => i \in first /\ h = g
    BY <1>6, <2>1 DEF Lists
  <2>3. \A i \in first : i \in Ids /\ record[i] # NoRecord
    BY <1>3, <1>5, <1>6, Nothing
  <2>4. \A o \in Objs, i \in Ids : Is(o, i) => i \in first /\ heap[o].gid = g
    BY <1>1, <1>6 DEF Is
  <2>5. \A i \in Ids : record[i] # NoRecord => i \in first /\ record[i].gid = g
    BY <1>6
  <2> QED
    BY <2>1, <2>2, <2>3, <2>4, <2>5 DEF There, HasGid
<1>11. ListInv
  <2>1. Bounds
    BY <1>1, <1>4, <1>10 DEF Bounds
  <2>2. Owner /\ Home
    BY <1>10 DEF Owner, Home
  <2>3. Exists
    BY <1>10 DEF Exists, Live, Lists
  <2>4. Drops
    BY <1>1 DEF Drops
  <2>5. Gone
    BY <1>1, <1>10 DEF Gone
  <2> QED
    BY <2>1, <2>2, <2>3, <2>4, <2>5 DEF ListInv
<1>12. spoiled["torn"] = {}
  BY <1>1 DEF Spoilers
<1>13. /\ \A o \in Objs : heap[o] # Nil => heap[o].key = k /\ ~heap[o].no_save
       /\ \A i \in Ids : record[i] # NoRecord => record[i].key = k
  BY <1>6
<1> QED
  BY <1>7, <1>8, <1>9, <1>11, <1>12, <1>13

\* An exit with no thread under way, and the next LoadManager, keep it.
LEMMA RestartKeeps ==
  ASSUME Typed, Refd, ListInv, Restart(FALSE), jobs = {}, upd.pc \notin {"clear", "save"}
  PROVE  Typed' /\ Refd' /\ ListInv'
<1> DEFINE past == Ids \cap (spoiled["inHand"] \cup spoiled["askedLate"] \cup spoiled["aliased"])
<1>1. /\ groups' = {g \in Groups : groupRec[g] # NoRecord}
      /\ members' = [g \in Groups |-> OnDisk(g)]
      /\ max_profile_id' = LoadedMax
      /\ heap' = [o \in Objs |-> Nil]
      /\ cached' = [i \in Ids |-> Nil] /\ weak' = [i \in Ids |-> Nil]
      /\ jobs' = {} /\ held' = NotHeld
      /\ deleted' = deleted \ past
      /\ replaced' = [i \in Ids |-> IF i \in past THEN Nil ELSE replaced[i]]
      /\ spoiled' = [s \in Spoilers |->
           CASE s = "torn" -> spoiled[s]
             [] s \in {"moved", "reused"} -> spoiled[s]
             [] OTHER -> spoiled[s] \ past]
      /\ UNCHANGED <<record, groupRec>>
  BY DEF Restart, Forgive, diskVars, OnDisk
<1> HIDE DEF past
<1>2. /\ LoadedMax \in 0 .. MaxId
      /\ \A i \in Ids : record[i] # NoRecord => i <= LoadedMax
  <2> DEFINE S == {0} \cup {i \in Ids : record[i] # NoRecord}
  <2>1. MaxId \in Nat /\ S \in SUBSET (0 .. MaxId) /\ S # {}
    BY Nothing
  <2>2. LoadedMax = Max(S)
    BY DEF LoadedMax
  <2>3. \A i \in Ids : record[i] # NoRecord => i \in S
    OBVIOUS
  <2> HIDE DEF S
  <2>4. Max(S) \in S /\ \A n \in S : n <= Max(S)
    BY <2>1, MaxIn
  <2> QED
    BY <2>1, <2>2, <2>3, <2>4
<1>3. \A g \in Groups : OnDisk(g) \in SUBSET Ids /\ OnDisk(g)' = OnDisk(g)
           /\ members'[g] = OnDisk(g)
  BY <1>1 DEF Typed, OnDisk
<1>4. /\ spoiled' = [s \in Spoilers |-> spoiled'[s]]
      /\ \A x \in Ids : Plain(x)' <=> Plain(x)
  BY <1>1 DEF Plain, Spoilers
<1>5. /\ \A g \in Groups : g \in deleted' <=> g \in deleted
      /\ deleted' \in SUBSET (Ids \cup Groups)
  BY <1>1, Nothing DEF Typed, past
<1>6. Typed'
  <2>1. replaced' \in [Ids -> Keys \cup {Nil}]
    BY <1>1 DEF Typed
  <2>2. held' = [pc |-> "none", obj |-> Nil]
    BY <1>1 DEF NotHeld
  <2>3. members' \in [Groups -> SUBSET Ids]
    BY <1>1, <1>3
  <2> QED
    BY <1>1, <1>2, <1>4, <1>5, <2>1, <2>2, <2>3 DEF Typed
<1>7. Refd'
  BY <1>1 DEF Refd, NotHeld
<1>8. /\ \A i \in Ids, g \in Groups : Lists(g, i)' => i \in OnDisk(g) /\ Lists(g, i)
      /\ \A i \in Ids : There(i)' => record[i] # NoRecord
      /\ \A i \in Ids, x \in Groups : HasGid(i, x)' => HasGid(i, x)
  BY <1>1, <1>3 DEF Lists, There, HasGid, Is
<1>9. \A i \in Ids, g \in Groups :
        Plain(i) /\ g \notin deleted /\ i \in OnDisk(g) => record[i] # NoRecord
  BY DEF ListInv, Exists, Live, Saving
<1>10. Owner' /\ Home'
  BY <1>4, <1>8 DEF ListInv, Owner, Home
<1>11. Exists'
  <2>1. \A i \in Ids : record[i] # NoRecord => Live(i)'
    BY <1>1 DEF Live
  <2> QED
    BY <1>3, <1>4, <1>5, <1>9, <2>1 DEF Exists
<1>12. Bounds'
  <2>1. \A i \in Ids, g \in Groups :
          Plain(i)' /\ g \notin deleted' /\ Lists(g, i)' => i <= max_profile_id'
    BY <1>1, <1>2, <1>4, <1>5, <1>8, <1>9
  <2>2. \A i \in Ids : There(i)' => i <= max_profile_id'
    BY <1>1, <1>2, <1>8
  <2> QED
    BY <1>1, <2>1, <2>2 DEF Bounds
<1>13. Drops' /\ Gone'
  BY <1>1, <1>5 DEF Drops, Gone, ListInv
<1> QED
  BY <1>6, <1>7, <1>10, <1>11, <1>12, <1>13 DEF ListInv

-----------------------------------------------------------------------------
(* The updates.                                                            *)

\* A step of the update that the database does not see keeps the invariant.
LEMMA DbStays ==
  ASSUME Typed, Refd, ListInv, UpdKeeps,
         UNCHANGED <<record, groupRec, heap, cached, weak, groups, members, max_profile_id, jobs,
                     held, deleted, replaced, spoiled>>
  PROVE  Typed' /\ Refd' /\ ListInv'
<1>2. Typed'
  BY DEF Typed
<1>3. Refd'
  BY DEF Refd, Is
<1>4. ListsMove
  BY DEF ListsMove, UpdKeeps, Lists, OnDisk, Plain
<1>5. ObjectsMove
  BY DEF ObjectsMove, There, HasGid, Live, SavedBy, Is, Plain
<1>6. JobsMove
  BY DEF JobsMove
<1>7. GroupsMove
  BY DEF GroupsMove, ListInv, Gone
<1> QED
  BY <1>2, <1>3, <1>4, <1>5, <1>6, <1>7, ListStep

\* An update that is not emptying or saving a list does not stop doing so.
LEMMA NotSaving ==
  ASSUME upd.pc \notin {"clear", "save"}
  PROVE  UpdKeeps
BY DEF UpdKeeps, Clearing, Saving

\* A step of somebody else leaves the update where it is.
LEMMA MeanwhileIs ==
  ASSUME UpdTyped, Meanwhile
  PROVE  UpdKeeps /\ UpdTyped'
<1>1. upd' = [upd EXCEPT !.alone = FALSE, !.sub = {}]
  BY DEF Meanwhile
<1>2. upd' = [pc |-> upd.pc, gid |-> upd.gid, content |-> upd.content, drop |-> upd.drop,
              all |-> upd.all, sub |-> {}, alone |-> FALSE]
  BY <1>1 DEF UpdTyped
<1>3. /\ upd'.pc = upd.pc /\ upd'.gid = upd.gid /\ upd'.content = upd.content
      /\ upd'.drop = upd.drop /\ upd'.all = upd.all /\ upd'.sub = {} /\ upd'.alone = FALSE
  BY <1>2
<1>4. UpdKeeps
  BY <1>3 DEF UpdKeeps, Clearing, Saving
<1>5. UpdTyped'
  BY <1>2, <1>3 DEF UpdTyped
<1> QED
  BY <1>4, <1>5

\* Goto moves the update on and leaves its group.
LEMMA GotoIs ==
  ASSUME UpdTyped, upd.pc # "idle", NEW p, Goto(p)
  PROVE  UpdTyped' /\ upd'.pc = p /\ upd'.gid = upd.gid
<1>1. upd' = [pc |-> p, gid |-> upd.gid, content |-> upd.content, drop |-> upd.drop,
              all |-> upd.all, sub |-> upd.sub, alone |-> upd.alone]
  BY DEF Goto, UpdTyped
<1>2. /\ upd'.pc = p /\ upd'.gid = upd.gid /\ upd'.content = upd.content
      /\ upd'.drop = upd.drop /\ upd'.all = upd.all /\ upd'.sub = upd.sub
      /\ upd'.alone = upd.alone
  BY <1>1
<1> QED
  BY <1>1, <1>2 DEF UpdTyped

\* The update of group g, with the groups a to follow.
Begun(g, a) == [Idle EXCEPT !.pc = "begin", !.gid = g, !.all = a]

\* An update that begins knows its group and those to follow.
LEMMA BegunIs ==
  ASSUME NEW g, NEW a
  PROVE  Begun(g, a) = [pc |-> "begin", gid |-> g, content |-> {}, drop |-> {}, all |-> a,
                        sub |-> {}, alone |-> TRUE]
<1>1. PICK i : i = [pc |-> "idle", gid |-> Nil, content |-> {}, drop |-> {}, all |-> {},
                    sub |-> {}, alone |-> TRUE]
  OBVIOUS
<1>2. PICK u : u = [i EXCEPT !.pc = "begin", !.gid = g, !.all = a]
  OBVIOUS
<1>3. i = Idle
  BY <1>1 DEF Idle
<1>4. u = Begun(g, a)
  BY <1>2, <1>3, Zenon DEF Begun
<1>5. u = [pc |-> "begin", gid |-> g, content |-> {}, drop |-> {}, all |-> a, sub |-> {},
           alone |-> TRUE]
  BY <1>1, <1>2
<1> QED
  BY <1>4, <1>5, Zenon

\* An update of a group begins well.
LEMMA UpdateBegun ==
  ASSUME NEW g \in Groups, NEW a \in SUBSET Groups, upd' = Begun(g, a)
  PROVE  UpdTyped'
<1> DEFINE u == [pc |-> "begin", gid |-> g, content |-> {}, drop |-> {}, all |-> a, sub |-> {},
                 alone |-> TRUE]
<1>1. upd' = u
  BY BegunIs
<1>2. /\ u.pc = "begin" /\ u.gid = g /\ u.content = {} /\ u.drop = {} /\ u.all = a
      /\ u = [pc |-> u.pc, gid |-> u.gid, content |-> u.content, drop |-> u.drop,
              all |-> u.all, sub |-> u.sub, alone |-> u.alone]
  <2>1. u.pc = "begin" /\ u.gid = g
    OBVIOUS
  <2>2. u.content = {} /\ u.drop = {}
    OBVIOUS
  <2>3. u.all = a /\ u.sub = {} /\ u.alone = TRUE
    OBVIOUS
  <2> QED
    BY <2>1, <2>2, <2>3
<1> HIDE DEF u
<1> QED
  BY <1>1, <1>2 DEF UpdTyped

\* An idle updater is a good one.
LEMMA IdleIs == upd' = Idle => UpdTyped'
BY DEF Idle, UpdTyped

\* Finish ends the update or begins one of the next group that is still there.
LEMMA FinishIs ==
  ASSUME groups \in SUBSET Groups, Finish
  PROVE  UpdTyped'
<1>1. CASE upd' = Idle
  BY <1>1, IdleIs
<1>2. ASSUME NEW g \in upd.all \cap groups,
             upd' = Begun(g, (upd.all \cap groups) \ {g})
      PROVE  UpdTyped'
  <2>1. g \in Groups /\ (upd.all \cap groups) \ {g} \in SUBSET Groups
    OBVIOUS
  <2> QED
    BY <1>2, <2>1, UpdateBegun
<1>3. \/ upd' = Idle
      \/ \E g \in upd.all \cap groups :
           upd' = Begun(g, (upd.all \cap groups) \ {g})
  BY Zenon DEF Finish, Begun
<1> QED
  BY <1>1, <1>2, <1>3, Zenon

\* What an update asks of the groups and lists, and what is true of them even after an exit
\* was torn.
Kinds ==
  /\ groups \in SUBSET Groups
  /\ members \in [Groups -> SUBSET Ids]
  /\ groupRec \in [Groups -> (SUBSET Ids) \cup {NoRecord}]
  /\ deleted \in SUBSET (Ids \cup Groups)
  /\ UpdTyped

\* An update that the user asks for begins well.
LEMMA UpdateAsked ==
  ASSUME Kinds, NEW g \in Groups, AsyncUpdate(g) \/ UI_update_all_groups
  PROVE  UpdTyped' /\ upd.pc = "idle"
<1>1. CASE AsyncUpdate(g)
  <2>1. upd' = [pc |-> "begin", gid |-> g, content |-> {}, drop |-> {}, all |-> {}, sub |-> {},
                alone |-> TRUE]
    <3>1. upd' = [Idle EXCEPT !.pc = "begin", !.gid = g]
      BY <1>1 DEF AsyncUpdate
    <3> QED
      BY <3>1 DEF Idle
  <2>2. PICK a \in SUBSET Groups : a = {}
    OBVIOUS
  <2>3. upd' = Begun(g, a)
    BY <2>1, <2>2, BegunIs
  <2>4. upd.pc = "idle"
    BY <1>1 DEF AsyncUpdate, AtUpd
  <2> QED
    BY <2>3, <2>4, UpdateBegun
<1>2. CASE UI_update_all_groups
  <2>1. PICK f \in groups : upd' = Begun(f, groups \ {f})
    BY <1>2, Zenon DEF UI_update_all_groups, Begun
  <2>2. f \in Groups /\ groups \ {f} \in SUBSET Groups
    BY DEF Kinds
  <2>3. upd.pc = "idle"
    BY <1>2 DEF UI_update_all_groups, AtUpd
  <2> QED
    BY <2>1, <2>2, <2>3, UpdateBegun
<1> QED
  BY <1>1, <1>2

\* What a step keeps.
Keeps == Typed' /\ UpdTyped' /\ Refd' /\ ListInv'

\* What the user asks for keeps the invariant.
LEMMA RequestKeeps ==
  ASSUME Typed, UpdTyped, Refd, ListInv, Request
  PROVE  Keeps
<1>1. ASSUME NEW k \in Keys, NEW g \in Groups, Add(k, g) PROVE Keeps
  <2> DEFINE ks == {k}
  <2>1. ks \in SUBSET Keys /\ AddProfileBatch(ks, g) /\ Meanwhile
    BY <1>1 DEF Add
  <2> HIDE DEF ks
  <2>2. UpdKeeps /\ UpdTyped'
    BY <2>1, MeanwhileIs
  <2> QED
    BY <2>1, <2>2, AddProfileBatchKeeps DEF Keeps
<1>2. ASSUME NEW i \in Ids, Delete(i) PROVE Keeps
  <2> DEFINE ids == {i}
  <2>1. ids \in SUBSET Ids /\ BatchDeleteProfiles(ids, TRUE) /\ Meanwhile
    BY <1>2 DEF Delete
  <2> HIDE DEF ids
  <2>2. UpdKeeps /\ UpdTyped'
    BY <2>1, MeanwhileIs
  <2> QED
    BY <2>1, <2>2, BatchDeleteProfilesKeeps DEF Keeps
<1>3. ASSUME NEW i \in Ids, Get(i) PROVE Keeps
  <2>1. HolderGets(i) /\ Meanwhile
    BY <1>3 DEF Get
  <2>2. UpdKeeps /\ UpdTyped'
    BY <2>1, MeanwhileIs
  <2> QED
    BY <2>1, <2>2, HolderGetsKeeps DEF Keeps
<1>4. ASSUME NEW i \in Ids, NEW g \in Groups, Move(i, g) PROVE Keeps
  <2>1. MoveProfileBatch(i, g) /\ Meanwhile
    BY <1>4 DEF Move
  <2>2. UpdKeeps /\ UpdTyped'
    BY <2>1, MeanwhileIs
  <2> QED
    BY <2>1, <2>2, MoveProfileBatchKeeps DEF Keeps
<1>5. ASSUME NEW i \in Ids, NEW k \in Keys, Replace(i, k) PROVE Keeps
  <2>1. ReplaceProfile(i, k) /\ Meanwhile
    BY <1>5 DEF Replace
  <2>2. UpdKeeps /\ UpdTyped'
    BY <2>1, MeanwhileIs
  <2> QED
    BY <2>1, <2>2, ReplaceProfileKeeps DEF Keeps
<1>6. ASSUME NEW g \in Groups, DeleteGroup(g) PROVE Keeps
  <2>1. BatchDeleteGroups(g) /\ Meanwhile
    BY <1>6 DEF DeleteGroup
  <2>2. UpdKeeps /\ UpdTyped'
    BY <2>1, MeanwhileIs
  <2> QED
    BY <2>1, <2>2, BatchDeleteGroupsKeeps DEF Keeps
<1>7. ASSUME NEW g \in Groups, RemoveInvalid(g) PROVE Keeps
  <2>1. DropNulls(g) /\ Meanwhile
    BY <1>7 DEF RemoveInvalid
  <2>2. UpdKeeps /\ UpdTyped'
    BY <2>1, MeanwhileIs
  <2> QED
    BY <2>1, <2>2, DropNullsKeeps DEF Keeps
<1>8. ASSUME NEW g \in Groups, AsyncUpdate(g) \/ UI_update_all_groups PROVE Keeps
  <2>1. Kinds
    BY DEF Kinds, Typed
  <2>2. UpdTyped' /\ UpdKeeps
    BY <1>8, <2>1, UpdateAsked, NotSaving
  <2>3. UNCHANGED <<record, groupRec, heap, cached, weak, groups, members, max_profile_id, jobs,
                    held, deleted, replaced, spoiled>>
    BY <1>8 DEF AsyncUpdate, UI_update_all_groups, diskVars, memVars, histVars
  <2> QED
    BY <2>2, <2>3, DbStays DEF Keeps
<1>9. ASSUME UI_update_all_groups PROVE Keeps
  <2>1. PICK g \in groups : TRUE
    BY <1>9 DEF UI_update_all_groups
  <2>2. g \in Groups
    BY DEF Typed
  <2> QED
    BY <1>8, <1>9, <2>2
<1> QED
  BY <1>1, <1>2, <1>3, <1>4, <1>5, <1>6, <1>7, <1>8, <1>9 DEF Request

\* An exit keeps it, or threads were still saving and it is torn.
LEMMA ExitKeeps ==
  ASSUME Typed, UpdTyped, Refd, ListInv, Exit
  PROVE  Keeps \/ spoiled'["torn"] # {}
<1>1. Restart(HalfSaved) /\ upd' = Idle
  BY DEF Exit
<1>2. CASE HalfSaved
  <2>1. spoiled'["torn"] = Ids \cup Groups
    BY <1>1, <1>2 DEF Restart, Forgive, Spoilers
  <2>2. 1 \in Ids
    BY DatabaseAssumption DEF Ids
  <2> QED
    BY <2>1, <2>2
<1>3. CASE ~HalfSaved
  <2>1. Restart(FALSE)
    BY <1>1, <1>3 DEF Restart, Forgive
  <2>2. jobs = {} /\ upd.pc \notin {"clear", "save"}
    BY <1>3 DEF HalfSaved
  <2> QED
    BY <1>1, <2>1, <2>2, RestartKeeps, IdleIs DEF Keeps
<1> QED
  BY <1>2, <1>3

\* A step of the update keeps what it knows in order.
LEMMA UpdateStepTyped ==
  ASSUME Kinds, UpdateStep
  PROVE  UpdTyped'
<1>0. UpdTyped /\ groups \in SUBSET Groups
  BY DEF Kinds
<1>1. CASE UpdateBegins \/ UpdateFails \/ PreFinish
  <2>1. upd.pc # "idle" /\ (Goto("fetch") \/ Finish)
    BY <1>1 DEF UpdateBegins, UpdateFails, PreFinish, AtUpd
  <2> QED
    BY <1>0, <2>1, GotoIs, FinishIs
<1>2. CASE DeleteList \/ ClearList \/ SaveGroup
  <2>1. upd.pc # "idle" /\ (Goto("clear") \/ Goto("save") \/ Goto("add"))
    BY <1>2 DEF DeleteList, ClearList, SaveGroup, AtUpd
  <2> QED
    BY <1>0, <2>1, GotoIs
<1>3. ASSUME NEW c \in SUBSET Keys, Fetched(c) PROVE UpdTyped'
  <2>1. /\ upd.pc = "fetch"
        /\ \E al, s : upd' = [upd EXCEPT !.pc = "read", !.content = c, !.alone = al, !.sub = s]
    BY <1>3, Zenon DEF Fetched, AtUpd
  <2>2. PICK al, s : upd' = [upd EXCEPT !.pc = "read", !.content = c, !.alone = al, !.sub = s]
    BY <2>1
  <2>3. upd' = [pc |-> "read", gid |-> upd.gid, content |-> c, drop |-> upd.drop,
                all |-> upd.all, sub |-> s, alone |-> al]
    BY <1>0, <2>2 DEF UpdTyped
  <2>4. /\ upd'.pc = "read" /\ upd'.gid = upd.gid /\ upd'.content = c /\ upd'.drop = upd.drop
        /\ upd'.all = upd.all /\ upd'.sub = s /\ upd'.alone = al
    BY <2>3
  <2> QED
    BY <1>0, <2>1, <2>3, <2>4 DEF UpdTyped
<1>4. CASE ReadList
  <2>1. upd.pc = "read"
    BY <1>4 DEF ReadList, AtUpd
  <2>2. PICK keep \in Kept(members[upd.gid]) :
          upd' = [upd EXCEPT !.pc = "save", !.drop = members[upd.gid] \ keep,
                             !.content = upd.content \ {KeyOf(i) : i \in keep}]
    BY <1>4, Zenon DEF ReadList
  <2>3. PICK d, n : d = members[upd.gid] \ keep /\ n = upd.content \ {KeyOf(i) : i \in keep}
    OBVIOUS
  <2>4. upd' = [upd EXCEPT !.pc = "save", !.drop = d, !.content = n]
    BY <2>2, <2>3, Zenon
  <2>5. upd' = [pc |-> "save", gid |-> upd.gid, content |-> n, drop |-> d,
                all |-> upd.all, sub |-> upd.sub, alone |-> upd.alone]
    BY <1>0, <2>4 DEF UpdTyped
  <2>6. /\ upd'.pc = "save" /\ upd'.gid = upd.gid /\ upd'.content = n /\ upd'.drop = d
        /\ upd'.all = upd.all /\ upd'.sub = upd.sub /\ upd'.alone = upd.alone
    BY <2>5
  <2>7. upd.gid \in Groups /\ n \in SUBSET Keys /\ d \in SUBSET Ids
    BY <1>0, <2>1, <2>3 DEF UpdTyped, Kinds
  <2> QED
    BY <1>0, <2>5, <2>6, <2>7 DEF UpdTyped
<1>5. CASE ReadDies
  BY <1>5, IdleIs DEF ReadDies, Exit
<1>6. CASE AddNew
  <2>1. upd.pc = "add" /\ upd' = [upd EXCEPT !.pc = "drop", !.content = {}]
    BY <1>6 DEF AddNew, AtUpd
  <2>2. upd' = [pc |-> "drop", gid |-> upd.gid, content |-> {}, drop |-> upd.drop,
                all |-> upd.all, sub |-> upd.sub, alone |-> upd.alone]
    BY <1>0, <2>1 DEF UpdTyped
  <2>3. /\ upd'.pc = "drop" /\ upd'.gid = upd.gid /\ upd'.content = {} /\ upd'.drop = upd.drop
        /\ upd'.all = upd.all /\ upd'.sub = upd.sub /\ upd'.alone = upd.alone
    BY <2>2
  <2> QED
    BY <1>0, <2>1, <2>2, <2>3 DEF UpdTyped
<1>7. CASE DropOld
  <2>1. upd.pc = "drop" /\ upd' = [upd EXCEPT !.pc = "finish", !.drop = {}]
    BY <1>7 DEF DropOld, AtUpd
  <2>2. upd' = [pc |-> "finish", gid |-> upd.gid, content |-> upd.content, drop |-> {},
                all |-> upd.all, sub |-> upd.sub, alone |-> upd.alone]
    BY <1>0, <2>1 DEF UpdTyped
  <2>3. /\ upd'.pc = "finish" /\ upd'.gid = upd.gid /\ upd'.content = upd.content
        /\ upd'.drop = {} /\ upd'.all = upd.all /\ upd'.sub = upd.sub /\ upd'.alone = upd.alone
    BY <2>2
  <2> QED
    BY <1>0, <2>1, <2>2, <2>3 DEF UpdTyped
<1>8. CASE PreFinishHangs
  <2>1. upd.pc = "finish" /\ upd' = [upd EXCEPT !.pc = "hung", !.sub = {}]
    BY <1>8 DEF PreFinishHangs, AtUpd
  <2>2. upd' = [pc |-> "hung", gid |-> upd.gid, content |-> upd.content, drop |-> upd.drop,
                all |-> upd.all, sub |-> {}, alone |-> upd.alone]
    BY <1>0, <2>1 DEF UpdTyped
  <2>3. /\ upd'.pc = "hung" /\ upd'.gid = upd.gid /\ upd'.content = upd.content
        /\ upd'.drop = upd.drop /\ upd'.all = upd.all /\ upd'.sub = {} /\ upd'.alone = upd.alone
    BY <2>2
  <2> QED
    BY <1>0, <2>1, <2>2, <2>3 DEF UpdTyped
<1> QED
  BY <1>1, <1>2, <1>3, <1>4, <1>5, <1>6, <1>7, <1>8 DEF UpdateStep

\* Nothing in the database changes.
DatabaseStays ==
  UNCHANGED <<record, groupRec, heap, cached, weak, groups, members, max_profile_id, jobs, held,
              deleted, replaced, spoiled>>

\* A step of the update keeps it; the null pointer of ReadDies is an exit.
LEMMA UpdateStepKeeps ==
  ASSUME Typed, UpdTyped, UpdTyped', Refd, ListInv, UpdateStep
  PROVE  Keeps \/ spoiled'["torn"] # {}
<1>1. CASE \/ UpdateBegins \/ UpdateFails \/ (\E c \in SUBSET Keys : Fetched(c))
           \/ ReadList \/ PreFinishHangs
  <2>1. UNCHANGED dbVars /\ upd.pc \in {"begin", "fetch", "read", "finish"}
    BY <1>1 DEF UpdateBegins, UpdateFails, Fetched, ReadList, PreFinishHangs, AtUpd
  <2>2. UpdKeeps
    BY <2>1, NotSaving
  <2> QED
    BY <2>1, <2>2, DbStays DEF Keeps, dbVars, diskVars, memVars, histVars
<1>2. CASE ReadDies
  BY <1>2, ExitKeeps DEF ReadDies
<1>3. CASE DeleteList
  <2>1. upd.pc = "read" /\ BatchDeleteProfiles(members[upd.gid], FALSE) /\ Goto("clear")
    BY <1>3 DEF DeleteList, AtUpd
  <2>2. upd'.pc = "clear" /\ upd'.gid = upd.gid
    BY <2>1, GotoIs
  <2>3. UpdKeeps
    BY <2>1, NotSaving
  <2>4. PICK g \in Groups : g = upd.gid
    BY <2>1 DEF UpdTyped
  <2>5. Clearing(g)' /\ members[g] \in SUBSET Ids
    BY <2>2, <2>4 DEF Clearing, Typed
  <2>6. PICK ids \in SUBSET Ids : ids = members[g]
    BY <2>5
  <2>7. BatchDeleteProfiles(ids, FALSE) /\ \E f \in Groups : ids \subseteq members[f]
             /\ Clearing(f)'
    BY <2>1, <2>4, <2>5, <2>6
  <2> QED
    BY <2>3, <2>7, BatchDeleteProfilesKeeps DEF Keeps
<1>4. CASE ClearList
  BY <1>4, ClearListKeeps DEF Keeps
<1>5. CASE SaveGroup
  BY <1>5, SaveGroupKeeps DEF Keeps
<1>6. CASE AddNew \/ DropOld \/ PreFinish
  <2>1. upd.pc \in {"add", "drop", "finish"}
    BY <1>6 DEF AddNew, DropOld, PreFinish, AtUpd
  <2>2. UpdKeeps
    BY <2>1, NotSaving
  <2>3. ASSUME NEW ids \in SUBSET Ids, BatchDeleteProfiles(ids, TRUE) PROVE Keeps
    BY <2>2, <2>3, BatchDeleteProfilesKeeps DEF Keeps
  <2>4. ASSUME NEW g \in Groups, NEW ks \in SUBSET Keys, AddProfileBatch(ks, g) PROVE Keeps
    BY <2>2, <2>4, AddProfileBatchKeeps DEF Keeps
  <2>5. ASSUME UNCHANGED <<diskVars, memVars, jobs, locker, held, restarts, histVars>> PROVE Keeps
    BY <2>2, <2>5, DbStays DEF Keeps, diskVars, memVars, histVars
  <2>6. /\ upd.content \in SUBSET Keys /\ upd.gid \in Groups /\ upd.drop \in SUBSET Ids
        /\ Listed \in SUBSET Ids
    BY <2>1 DEF UpdTyped, Listed, Typed
  <2>7. CASE AddNew
    BY <2>4, <2>5, <2>6, <2>7, Zenon DEF AddNew
  <2>8. CASE DropOld
    BY <2>3, <2>6, <2>8, Zenon DEF DropOld
  <2>9. CASE PreFinish
    <3>1. \A invalid \in SUBSET Listed : invalid \in SUBSET Ids
      BY <2>6
    <3> QED
      BY <2>3, <2>5, <2>9, <3>1 DEF PreFinish
  <2> QED
    BY <1>6, <2>7, <2>8, <2>9
<1> QED
  BY <1>1, <1>2, <1>3, <1>4, <1>5, <1>6 DEF UpdateStep

-----------------------------------------------------------------------------
(* The invariant of the lists holds.                                       *)

\* Whether an exit has been torn.
TornKnown ==
  spoiled = [s \in Spoilers |-> spoiled[s]] /\ spoiled["torn"] \in {{}, Ids \cup Groups}

\* What a step does to the database.
DatabaseStep ==
  \/ DatabaseStays
  \/ \E ks \in SUBSET Keys, g \in Groups : AddProfileBatch(ks, g)
  \/ \E ids \in SUBSET Ids, unlist \in BOOLEAN : BatchDeleteProfiles(ids, unlist)
  \/ \E i \in Ids : HolderGets(i)
  \/ \E i \in Ids, g \in Groups : MoveProfileBatch(i, g)
  \/ \E i \in Ids, k \in Keys : ReplaceProfile(i, k)
  \/ \E g \in Groups : BatchDeleteGroups(g)
  \/ \E g \in Groups : DropNulls(g)
  \/ ClearList
  \/ SaveGroup
  \/ \E j \in jobs : JobStep(j)
  \/ HolderStep \/ \E i \in Ids : Evict(i)
  \/ Exit

\* Every step is one of these, with arguments of the right kind.
LEMMA StepIs ==
  ASSUME Kinds, Next
  PROVE  DatabaseStep
<1>1. ASSUME \/ UNCHANGED dbVars
             \/ UNCHANGED <<diskVars, memVars, jobs, locker, held, restarts, histVars>>
      PROVE  DatabaseStays
  BY <1>1 DEF DatabaseStays, dbVars, diskVars, memVars, histVars
<1>2. CASE Request
  <2>1. ASSUME NEW k \in Keys, NEW g \in Groups, Add(k, g) PROVE DatabaseStep
    <3>1. PICK ks \in SUBSET Keys : ks = {k}
      OBVIOUS
    <3>2. AddProfileBatch(ks, g)
      BY <2>1, <3>1 DEF Add
    <3> QED
      BY <3>2 DEF DatabaseStep
  <2>2. ASSUME NEW i \in Ids, Delete(i) PROVE DatabaseStep
    <3>1. PICK ids \in SUBSET Ids : ids = {i}
      OBVIOUS
    <3>2. BatchDeleteProfiles(ids, TRUE)
      BY <2>2, <3>1 DEF Delete
    <3> QED
      BY <3>2, Zenon DEF DatabaseStep
  <2>3. ASSUME NEW g \in Groups, AsyncUpdate(g) \/ UI_update_all_groups PROVE DatabaseStep
    BY <1>1, <2>3 DEF DatabaseStep, AsyncUpdate, UI_update_all_groups
  <2>4. UI_update_all_groups => \E g \in Groups : TRUE
    BY DEF UI_update_all_groups, Kinds
  <2>5. \/ \E k \in Keys, g \in Groups : Add(k, g)
        \/ \E i \in Ids : Delete(i)
        \/ \E i \in Ids : HolderGets(i)
        \/ \E i \in Ids, g \in Groups : MoveProfileBatch(i, g)
        \/ \E i \in Ids, k \in Keys : ReplaceProfile(i, k)
        \/ \E g \in Groups : BatchDeleteGroups(g)
        \/ \E g \in Groups : DropNulls(g)
        \/ \E g \in Groups : AsyncUpdate(g)
        \/ UI_update_all_groups
    BY <1>2, Zenon DEF Request, Get, Move, Replace, DeleteGroup, RemoveInvalid
  <2> QED
    BY <2>1, <2>2, <2>3, <2>4, <2>5, Zenon DEF DatabaseStep
<1>3. CASE UpdateStep
  <2>1. CASE \/ UpdateBegins \/ UpdateFails \/ (\E c \in SUBSET Keys : Fetched(c))
             \/ ReadList \/ PreFinishHangs
    <3>1. UNCHANGED dbVars
      BY <2>1 DEF UpdateBegins, UpdateFails, Fetched, ReadList, PreFinishHangs
    <3> QED
      BY <1>1, <3>1 DEF DatabaseStep
  <2>2. CASE ClearList \/ SaveGroup \/ ReadDies
    BY <2>2 DEF ReadDies, DatabaseStep
  <2>3. CASE DeleteList \/ AddNew \/ DropOld \/ PreFinish
    <3>1. upd.pc # "idle" /\ UpdTyped
      BY <2>3 DEF DeleteList, AddNew, DropOld, PreFinish, AtUpd, Kinds
    <3>2. /\ upd.content \in SUBSET Keys /\ upd.gid \in Groups /\ upd.drop \in SUBSET Ids
          /\ members[upd.gid] \in SUBSET Ids /\ \A s \in SUBSET Listed : s \in SUBSET Ids
      BY <3>1 DEF UpdTyped, Listed, Kinds
    <3>3. ASSUME NEW ids \in SUBSET Ids, NEW unlist \in BOOLEAN, BatchDeleteProfiles(ids, unlist)
          PROVE  DatabaseStep
      BY <3>3, Zenon DEF DatabaseStep
    <3>4. ASSUME NEW g \in Groups, NEW ks \in SUBSET Keys, AddProfileBatch(ks, g)
          PROVE  DatabaseStep
      BY <3>4, Zenon DEF DatabaseStep
    <3>5. DatabaseStays => DatabaseStep
      BY DEF DatabaseStep
    <3>6. CASE AddNew
      BY <1>1, <3>2, <3>4, <3>5, <3>6, Zenon DEF AddNew
    <3>7. CASE DropOld
      BY <3>2, <3>3, <3>7, Zenon DEF DropOld
    <3>8. CASE DeleteList
      BY <3>2, <3>3, <3>8, Zenon DEF DeleteList
    <3>9. CASE PreFinish
      BY <1>1, <3>2, <3>3, <3>5, <3>9 DEF PreFinish
    <3> QED
      BY <2>3, <3>6, <3>7, <3>8, <3>9
  <2> QED
    BY <1>3, <2>1, <2>2, <2>3 DEF UpdateStep
<1> QED
  BY <1>2, <1>3 DEF Next, DatabaseStep

\* Only an exit tears, and it marks everything.
LEMMA TornStays ==
  ASSUME Kinds, TornKnown, Next
  PROVE  TornKnown' /\ spoiled'["torn"] \in {spoiled["torn"], Ids \cup Groups}
<1> DEFINE Fine == TornKnown' /\ spoiled'["torn"] \in {spoiled["torn"], Ids \cup Groups}
<1>1. ASSUME spoiled' = spoiled PROVE Fine
  BY <1>1 DEF TornKnown
<1>2. ASSUME NEW a \in Spoilers \ {"torn"}, NEW x, spoiled' = [spoiled EXCEPT ![a] = x]
      PROVE  Fine
  BY <1>2 DEF TornKnown, Spoilers
<1>3. ASSUME NEW a \in Spoilers \ {"torn"}, NEW b \in Spoilers \ {"torn"}, NEW x, NEW y,
             spoiled' = [spoiled EXCEPT ![a] = x, ![b] = y]
      PROVE  Fine
  BY <1>3 DEF TornKnown, Spoilers
<1>4. ASSUME NEW ids, NEW unlist, BatchDeleteProfiles(ids, unlist) PROVE Fine
  <2>1. \E x : spoiled' = [spoiled EXCEPT !["inHand"] = x]
    BY <1>4, Zenon DEF BatchDeleteProfiles, Spoil
  <2> QED
    BY <1>2, <2>1 DEF Spoilers
<1>5. ASSUME NEW ks, NEW g, AddProfileBatch(ks, g) PROVE Fine
  <2>1. \E x : spoiled' = [spoiled EXCEPT !["reused"] = x]
    BY <1>5, Zenon DEF AddProfileBatch, Spoil
  <2> QED
    BY <1>2, <2>1 DEF Spoilers
<1>6. ASSUME Exit PROVE Fine
  BY <1>6 DEF Exit, Restart, Forgive, TornKnown, Spoilers
<1>7. ASSUME NEW i, NEW g, MoveProfileBatch(i, g) PROVE Fine
  <2>1. \E x, y, z : spoiled' = [spoiled EXCEPT !["moved"] = x, !["askedLate"] = y,
             !["aliased"] = z]
    BY <1>7, Zenon DEF MoveProfileBatch
  <2> QED
    BY <2>1 DEF TornKnown, Spoilers
<1>8. ASSUME NEW i, NEW k, ReplaceProfile(i, k) PROVE Fine
  <2>1. \E x, y : spoiled' = [spoiled EXCEPT !["aliased"] = x, !["askedLate"] = y]
    BY <1>8, Zenon DEF ReplaceProfile
  <2> QED
    BY <1>3, <2>1 DEF Spoilers
<1>9. ASSUME NEW i, HolderGets(i) PROVE Fine
  <2>1. \E x, y : spoiled' = [spoiled EXCEPT !["askedLate"] = x, !["aliased"] = y]
    BY <1>9, Zenon DEF HolderGets
  <2> QED
    BY <1>3, <2>1 DEF Spoilers
<1>10. ASSUME NEW g, BatchDeleteGroups(g) PROVE Fine
  <2>1. \E x : spoiled' = [spoiled EXCEPT !["inHand"] = x]
    BY <1>10, Zenon DEF BatchDeleteGroups, Spoil
  <2> QED
    BY <1>2, <2>1 DEF Spoilers
<1>11. ASSUME SaveGroup PROVE Fine
  <2>1. \E x : spoiled' = [spoiled EXCEPT !["inHand"] = x]
    BY <1>11, Zenon DEF SaveGroup
  <2> QED
    BY <1>2, <2>1 DEF Spoilers
<1>12. ASSUME NEW g, DatabaseStays \/ DropNulls(g) \/ ClearList PROVE Fine
  BY <1>1, <1>12 DEF DatabaseStays, DropNulls, ClearList, histVars
<1>13. ASSUME NEW j \in jobs, JobStep(j) PROVE Fine
  <2>1. UNCHANGED histVars
    BY <1>13 DEF JobStep, JobSavesGroup, JobUncaches, JobWrites, JobEnds
  <2> QED
    BY <1>1, <2>1 DEF histVars
<1>14. ASSUME HolderStep \/ \E i \in Ids : Evict(i) PROVE Fine
  <2>1. UNCHANGED spoiled
    BY <1>14 DEF HolderStep, HolderCaches, HolderUncaches, HolderWrites, HolderLeaves, Evict
  <2> QED
    BY <1>1, <2>1
<1> HIDE DEF Fine
<1>15. Fine
  <2>1. DatabaseStep
    BY StepIs
  <2> QED
    BY <1>4, <1>5, <1>6, <1>7, <1>8, <1>9, <1>10, <1>11, <1>12, <1>13, <1>14, <2>1
    DEF DatabaseStep
<1> QED
  BY <1>15 DEF Fine

\* Every step keeps the lists in order, even after a torn exit.
LEMMA KindsStay ==
  ASSUME Kinds, Next
  PROVE  Kinds'
<1>1. UpdTyped'
  <2>1. CASE Request
    <3>1. CASE Meanwhile
      BY <3>1, MeanwhileIs DEF Kinds
    <3>2. ASSUME NEW g \in Groups, AsyncUpdate(g) \/ UI_update_all_groups PROVE UpdTyped'
      BY <3>2, UpdateAsked
    <3>3. UI_update_all_groups => \E g \in Groups : TRUE
      BY DEF UI_update_all_groups, Kinds
    <3>4. \/ Meanwhile \/ UI_update_all_groups \/ \E g \in Groups : AsyncUpdate(g)
      BY <2>1, Zenon DEF Request, Add, Delete, Get, Move, Replace, DeleteGroup, RemoveInvalid
    <3> QED
      BY <3>1, <3>2, <3>3, <3>4
  <2>2. CASE Exit
    BY <2>2, IdleIs DEF Exit
  <2>3. CASE UNCHANGED upd
    BY <2>3 DEF Kinds, UpdTyped
  <2> QED
    BY <2>1, <2>2, <2>3, UpdateStepTyped DEF Next
<1> DEFINE Listing ==
      /\ groups' \in SUBSET Groups
      /\ members' \in [Groups -> SUBSET Ids]
      /\ groupRec' \in [Groups -> (SUBSET Ids) \cup {NoRecord}]
      /\ deleted' \in SUBSET (Ids \cup Groups)
<1>2. ASSUME NEW ks \in SUBSET Keys, NEW g \in Groups, AddProfileBatch(ks, g) PROVE Listing
  <2>1. PICK news \in SUBSET Ids : /\ members' = [members EXCEPT ![g] = @ \cup news]
                                  /\ deleted' = deleted \ news
                                  /\ UNCHANGED <<groups, groupRec>>
    BY <1>2 DEF AddProfileBatch, diskVars
  <2> QED
    BY <2>1 DEF Kinds
<1>3. ASSUME NEW ids \in SUBSET Ids, NEW unlist \in BOOLEAN, BatchDeleteProfiles(ids, unlist)
      PROVE  Listing
  <2>1. PICK dels, k : Deleting(ids, unlist, dels, k)
    BY <1>3, DeletingIs
  <2>2. /\ dels \in SUBSET Ids /\ deleted' = deleted \cup dels /\ UNCHANGED <<groups, groupRec>>
        /\ members' = [g \in Groups |-> members[g] \ From(g, dels, unlist)]
    BY <2>1 DEF Deleting
  <2> QED
    BY <2>2 DEF Kinds
<1>4. ASSUME NEW i \in Ids, HolderGets(i) PROVE Listing
  BY <1>4 DEF HolderGets, heldRest, diskVars, Kinds
<1>5. ASSUME NEW i \in Ids, NEW g \in Groups, MoveProfileBatch(i, g) PROVE Listing
  <2>1. PICK old \in groups :
          /\ members' = [members EXCEPT ![old] = @ \ {i}, ![g] = @ \cup {i}]
          /\ UNCHANGED <<groups, groupRec, deleted>>
    BY <1>5 DEF MoveProfileBatch, diskVars
  <2>2. PICK m : m = [members EXCEPT ![old] = @ \ {i}]
    OBVIOUS
  <2>3. old \in Groups /\ m \in [Groups -> SUBSET Ids]
    BY <2>2 DEF Kinds
  <2>4. members' = [m EXCEPT ![g] = @ \cup {i}]
    BY <2>1, <2>2
  <2>5. members' \in [Groups -> SUBSET Ids]
    BY <2>3, <2>4
  <2> QED
    BY <2>1, <2>5 DEF Kinds
<1>6. ASSUME NEW i \in Ids, NEW k \in Keys, ReplaceProfile(i, k) PROVE Listing
  BY <1>6 DEF ReplaceProfile, diskVars, Kinds
<1>7. ASSUME NEW g \in Groups, BatchDeleteGroups(g) PROVE Listing
  BY <1>7 DEF BatchDeleteGroups, diskVars, Kinds
<1>8. ASSUME NEW g \in Groups, DropNulls(g) PROVE Listing
  BY <1>8 DEF DropNulls, histVars, Kinds
<1>9. ASSUME ClearList \/ SaveGroup PROVE Listing
  <2>1. upd.gid \in Groups
    BY <1>9 DEF ClearList, SaveGroup, AtUpd, Kinds, UpdTyped
  <2> QED
    BY <1>9, <2>1 DEF ClearList, SaveGroup, diskVars, memVars, histVars, Kinds
<1>10. ASSUME NEW j \in jobs, JobStep(j) PROVE Listing
  BY <1>10 DEF JobStep, JobSavesGroup, JobUncaches, JobWrites, JobEnds, diskVars, memVars, histVars,
     Kinds
<1>11. ASSUME HolderStep \/ \E i \in Ids : Evict(i) PROVE Listing
  BY <1>11 DEF HolderStep, HolderCaches, HolderUncaches, HolderWrites, HolderLeaves, Evict,
       heldRest, diskVars, Kinds
<1>12. ASSUME Exit PROVE Listing
  BY <1>12 DEF Exit, Restart, Forgive, diskVars, Kinds
<1>13. ASSUME DatabaseStays PROVE Listing
  BY <1>13 DEF DatabaseStays, Kinds
<1> HIDE DEF Listing
<1>14. Listing
  <2>1. DatabaseStep
    BY StepIs
  <2> QED
    BY <1>2, <1>3, <1>4, <1>5, <1>6, <1>7, <1>8, <1>9, <1>10, <1>11, <1>12, <1>13, <2>1
    DEF DatabaseStep
<1> QED
  BY <1>1, <1>14 DEF Kinds, Listing

\* What holds of the lists until an exit is torn.
SubInv ==
  Kinds /\ TornKnown /\ (spoiled["torn"] = {} => Typed /\ Refd /\ ListInv)

\* The program starts in SubInv.
LEMMA SubInit == Init => SubInv
<1> SUFFICES ASSUME Init PROVE SubInv
  OBVIOUS
<1>1. Typed /\ UpdTyped /\ Refd /\ ListInv /\ spoiled["torn"] = {}
  BY InitKeeps
<1> QED
  BY <1>1 DEF SubInv, Kinds, TornKnown, Typed

\* A step keeps SubInv.
LEMMA SubNext ==
  ASSUME SubInv, [Next]_vars
  PROVE  SubInv'
<1>1. CASE Next
  <2>1. TornKnown' /\ spoiled'["torn"] \in {spoiled["torn"], Ids \cup Groups}
    BY <1>1, TornStays DEF SubInv
  <2>1a. Kinds'
    BY <1>1, KindsStay DEF SubInv
  <2>2. Ids \cup Groups # {}
    BY DatabaseAssumption DEF Ids
  <2>3. CASE spoiled["torn"] # {}
    BY <2>1, <2>1a, <2>2, <2>3 DEF SubInv
  <2>4. CASE spoiled["torn"] = {}
    <3>1. Typed /\ UpdTyped /\ UpdTyped' /\ Refd /\ ListInv
      BY <2>1a, <2>4 DEF SubInv, Kinds
    <3>2. ASSUME Request PROVE Keeps
      BY <3>1, <3>2, RequestKeeps
    <3>3. ASSUME UpdateStep PROVE Keeps \/ spoiled'["torn"] # {}
      BY <3>1, <3>3, UpdateStepKeeps
    <3>4. ASSUME Exit PROVE Keeps \/ spoiled'["torn"] # {}
      BY <3>1, <3>4, ExitKeeps
    <3>5. ASSUME UNCHANGED upd PROVE UpdKeeps /\ UpdTyped'
      BY <3>1, <3>5 DEF UpdKeeps, Clearing, Saving, UpdTyped
    <3>6. ASSUME NEW j \in jobs, JobStep(j), UNCHANGED upd PROVE Keeps
      <4>1. ASSUME NEW g \in Groups, JobSavesGroup(j, g) PROVE Keeps
        BY <3>1, <3>5, <3>6, <4>1, JobSavesGroupKeeps DEF Keeps
      <4>2. ASSUME NEW o \in Objs, JobUncaches(j, o) PROVE Keeps
        BY <3>1, <3>5, <3>6, <4>2, JobUncachesKeeps DEF Keeps
      <4>3. CASE JobWrites(j)
        BY <3>1, <3>5, <3>6, <4>3, JobWritesKeeps DEF Keeps
      <4>4. CASE JobEnds(j)
        BY <3>1, <3>5, <3>6, <4>4, JobEndsKeeps DEF Keeps
      <4> QED
        BY <3>6, <4>1, <4>2, <4>3, <4>4 DEF JobStep
    <3>7. ASSUME HolderStep, UNCHANGED upd PROVE Keeps
      <4>1. CASE HolderCaches
        BY <3>1, <3>5, <3>7, <4>1, HolderCachesKeeps DEF Keeps
      <4>2. CASE HolderUncaches
        BY <3>1, <3>5, <3>7, <4>2, HolderUncachesKeeps DEF Keeps
      <4>3. CASE HolderWrites
        BY <3>1, <3>5, <3>7, <4>3, HolderWritesKeeps DEF Keeps
      <4>4. CASE HolderLeaves
        BY <3>1, <3>5, <3>7, <4>4, HolderLeavesKeeps DEF Keeps
      <4> QED
        BY <3>7, <4>1, <4>2, <4>3, <4>4 DEF HolderStep
    <3>8. ASSUME NEW i \in Ids, Evict(i), UNCHANGED upd PROVE Keeps
      BY <3>1, <3>5, <3>8, EvictKeeps DEF Keeps
    <3>9. Keeps \/ spoiled'["torn"] # {}
      BY <1>1, <3>2, <3>3, <3>4, <3>6, <3>7, <3>8 DEF Next
    <3> QED
      BY <2>1, <2>1a, <3>9 DEF SubInv, Keeps
  <2> QED
    BY <2>3, <2>4
<1>2. CASE UNCHANGED vars
  <2>1. /\ UNCHANGED <<record, groupRec, heap, cached, weak, groups, members, max_profile_id, jobs,
                       held, deleted, replaced, spoiled>>
        /\ UNCHANGED upd
    BY <1>2 DEF vars, dbVars, diskVars, memVars, histVars
  <2>2. TornKnown' /\ Kinds'
    BY <2>1 DEF TornKnown, Kinds, UpdTyped, SubInv
  <2>3. ASSUME spoiled["torn"] = {} PROVE Typed' /\ Refd' /\ ListInv'
    <3>1. Typed /\ Refd /\ ListInv
      BY <2>3 DEF SubInv
    <3>2. UpdKeeps
      BY <2>1 DEF UpdKeeps, Clearing, Saving
    <3> QED
      BY <2>1, <3>1, <3>2, DbStays
  <2> QED
    BY <2>1, <2>2, <2>3 DEF SubInv
<1> QED
  BY <1>1, <1>2

\* SubInv is an invariant.
THEOREM SubInvHolds == Spec => []SubInv
<1>1. SubInv /\ [Next]_vars => SubInv'
  BY SubNext
<1> QED
  BY SubInit, <1>1, PTL DEF Spec

\* Of a profile and a group that ListedExists and OneOwner do not spare, ListInv speaks.
LEMMA SparedIs ==
  ASSUME SubInv, NEW g \in groups, NEW i, ~Spared(g, i)
  PROVE  /\ Typed /\ ListInv /\ Plain(i) /\ g \in Groups /\ g \notin deleted
         /\ members[g] \in SUBSET Ids
<1>1. /\ i \notin spoiled["moved"] /\ i \notin spoiled["reused"] /\ g \notin deleted \cap Groups
      /\ g \notin spoiled["torn"]
  BY DEF Spared
<1>2. g \in Groups
  BY DEF SubInv, Kinds
<1>3. spoiled["torn"] = {}
  BY <1>1, <1>2 DEF SubInv, TornKnown
<1>4. Typed /\ ListInv
  BY <1>3 DEF SubInv
<1>5. members[g] \in SUBSET Ids
  BY <1>2, <1>4 DEF Typed
<1> QED
  BY <1>1, <1>2, <1>4, <1>5 DEF Plain

\* Once the threads are done, a listed profile has its record, by Exists.
LEMMA ListedExistsIs == SubInv => ListedExists
<1> SUFFICES ASSUME SubInv, Quiet, NEW g \in groups, NEW i \in members[g], ~Spared(g, i)
             PROVE  Known(i)
  BY DEF ListedExists
<1>1. /\ ListInv /\ Plain(i) /\ g \in Groups /\ g \notin deleted /\ i \in Ids
  BY SparedIs
<1>2. jobs = {} /\ ~Clearing(g)
  BY DEF Quiet, Clearing
<1>3. Live(i)
  BY <1>1, <1>2 DEF ListInv, Exists
<1> QED
  BY <1>2, <1>3 DEF Live, Known

\* A profile is in one list, by Owner.
LEMMA OneOwnerIs == SubInv => OneOwner
<1> SUFFICES ASSUME SubInv, NEW g \in groups, NEW h \in groups,
                    NEW i \in members[g] \cap members[h],
                    ~Spared(g, i), ~Spared(h, i)
             PROVE  g = h
  BY DEF OneOwner
<1>1. /\ ListInv /\ Plain(i) /\ g \in Groups /\ h \in Groups /\ i \in Ids
  BY SparedIs
<1> QED
  BY <1>1 DEF ListInv, Owner, Lists

\* A group lists no id without a profile, once the threads are done, outside the named
\* exceptions: an update dereferences a null pointer at such an id
\* (GroupUpdater.cpp:1512-1516).
THEOREM ListedKnown == Spec => []ListedExists
BY SubInvHolds, ListedExistsIs, PTL

\* No profile is in two lists, and no id is given again while a list has it, outside the
\* named exceptions (Database.cpp:985-992, 753-779, 1071-1074).
THEOREM OwnedOnce == Spec => []OneOwner
BY SubInvHolds, OneOwnerIs, PTL

-----------------------------------------------------------------------------
(* What was deleted stays deleted, and what was replaced stays replaced.   *)

\* A profile or group that was in hand when it was deleted, or was asked for too late.
Excused(x) == x \in spoiled["inHand"] \/ x \in spoiled["askedLate"]

\* A deleted profile has no object, and its record is about to go.
DelId(i) ==
  i \in deleted /\ ~Excused(i) =>
    (\A o \in Objs : ~Is(o, i)) /\ (record[i] # NoRecord => \E j \in jobs : i \in j.drop)
\* A deleted group is not there, nobody is going to save it, and its record is about to go.
DelGroup(g) ==
  g \in deleted /\ ~Excused(g) =>
    /\ g \notin groups
    /\ \A j \in jobs : g \notin j.groups
    /\ groupRec[g] # NoRecord => \E j \in jobs : g \in j.dropGroups
\* The record has what the profile was replaced by.
NewOnDisk(i) == record[i] # NoRecord /\ record[i].key = replaced[i]
\* Any object of a replaced profile that may still be saved has the new content, which is on
\* disk or about to be written.
ReplId(i) ==
  replaced[i] # Nil /\ i \notin deleted /\ i \notin spoiled["aliased"] =>
    /\ \A o \in Objs : Is(o, i) /\ ~heap[o].no_save => heap[o].key = replaced[i]
    /\ NewOnDisk(i) \/ \E j \in jobs : i \in j.uncache /\ SavedBy(j, i)
\* The objects of a profile that may still be saved have the same content, and so has its
\* record, unless a thread is about to write it what the profile was replaced by.
Savable(o, i) == Is(o, i) /\ ~heap[o].no_save
OneContent(i) == \A o, p \in Objs : Savable(o, i) /\ Savable(p, i) => heap[o].key = heap[p].key
AsOnDisk(i) ==
  \A o \in Objs : Savable(o, i) /\ record[i] # NoRecord => heap[o].key = record[i].key
Coherent(i) ==
  i \notin spoiled["aliased"] =>
    OneContent(i) /\ (AsOnDisk(i) \/ \E j \in jobs : i \in j.uncache /\ SavedBy(j, i))
\* What a thread is going to drop was deleted.
DropsGone == \A j \in jobs : \A i \in j.drop : i \in deleted

\* What is true of the profiles and groups that were deleted or replaced.
HistInv ==
  /\ \A i \in Ids : DelId(i) /\ ReplId(i) /\ Coherent(i)
  /\ \A g \in Groups : DelGroup(g)
  /\ DropsGone

\* What a step does to the content of a profile it is not about.
WrittenFrom(o, i) ==
  Is(o, i) /\ ~heap[o].no_save /\ record'[i] = [key |-> heap[o].key, gid |-> heap[o].gid]
Same(i) ==
  /\ i \in spoiled["aliased"] => i \in spoiled'["aliased"]
  /\ \A o \in Objs : Is(o, i)' => Is(o, i) /\ heap'[o] = heap[o]
  /\ \/ record'[i] = record[i]
     \/ record'[i] = NoRecord /\ \E j \in jobs : i \in j.drop
     \/ \E o \in Objs : WrittenFrom(o, i)
  /\ \A j \in jobs : i \in j.drop => record'[i] = NoRecord \/ \E k \in jobs' : i \in k.drop
  /\ \A j \in jobs : SavedBy(j, i) =>
       \/ \E k \in jobs' : (i \in j.uncache => i \in k.uncache) /\ SavedBy(k, i)'
       \/ \E o \in Objs : WrittenFrom(o, i)
\* What a step does to a profile it is not about.
Untouched(i) ==
  /\ i \in deleted' <=> i \in deleted
  /\ replaced'[i] = replaced[i]
  /\ Excused(i) => Excused(i)'
  /\ Same(i)
\* What a step does to a group it is not about.
GroupUntouched(g) ==
  /\ g \in deleted' => g \in deleted
  /\ Excused(g) => Excused(g)'
  /\ g \in groups' => g \in groups
  /\ \A j \in jobs' : g \in j.groups => g \in groups \/ \E k \in jobs : g \in k.groups
  /\ groupRec'[g] # NoRecord =>
       groupRec[g] # NoRecord \/ g \in groups \/ \E k \in jobs : g \in k.groups
  /\ \A j \in jobs : g \in j.dropGroups =>
       groupRec'[g] = NoRecord \/ \E k \in jobs' : g \in k.dropGroups

\* A step that leaves the content of a profile the Same keeps it coherent.
LEMMA CoherentStays ==
  ASSUME NEW i \in Ids, Coherent(i), Same(i)
  PROVE  Coherent(i)'
<1> SUFFICES ASSUME i \notin spoiled'["aliased"]
             PROVE  /\ OneContent(i)'
                    /\ AsOnDisk(i)' \/ \E j \in jobs' : i \in j.uncache /\ SavedBy(j, i)'
  BY DEF Coherent
<1>1. OneContent(i) /\ (AsOnDisk(i) \/ \E j \in jobs : i \in j.uncache /\ SavedBy(j, i))
  BY DEF Coherent, Same
<1>2. \A o \in Objs : Savable(o, i)' => Savable(o, i) /\ heap'[o] = heap[o]
  BY DEF Savable, Same
<1>3. OneContent(i)'
  BY <1>1, <1>2 DEF OneContent
<1>4. ASSUME NEW o \in Objs, WrittenFrom(o, i) PROVE AsOnDisk(i)'
  <2>1. Savable(o, i) /\ record'[i].key = heap[o].key
    BY <1>4 DEF WrittenFrom, Savable
  <2> QED
    BY <1>1, <1>2, <2>1 DEF OneContent, AsOnDisk
<1>5. ASSUME AsOnDisk(i) PROVE AsOnDisk(i)'
  <2>1. record'[i] \in {record[i], NoRecord} => AsOnDisk(i)'
    BY <1>2, <1>5 DEF AsOnDisk
  <2> QED
    BY <1>4, <2>1 DEF Same
<1>6. ASSUME NEW j \in jobs, i \in j.uncache, SavedBy(j, i)
      PROVE  AsOnDisk(i)' \/ \E k \in jobs' : i \in k.uncache /\ SavedBy(k, i)'
  BY <1>4, <1>6 DEF Same
<1> QED
  BY <1>1, <1>3, <1>5, <1>6

\* A step keeps HistInv of a profile or group it leaves Untouched, and has to establish it
\* of the others.
LEMMA HistStep ==
  ASSUME Typed, HistInv,
         \A i \in Ids : Untouched(i) \/ (DelId(i)' /\ ReplId(i)' /\ Coherent(i)'),
         \A g \in Groups : GroupUntouched(g) \/ DelGroup(g)',
         DropsGone'
  PROVE  HistInv'
<1>1. ASSUME NEW i \in Ids, Untouched(i) PROVE DelId(i)'
  <2> SUFFICES ASSUME i \in deleted', ~Excused(i)'
               PROVE  /\ \A o \in Objs : ~Is(o, i)'
                      /\ record'[i] # NoRecord => \E j \in jobs' : i \in j.drop
    BY DEF DelId
  <2>1. i \in deleted /\ ~Excused(i)
    BY <1>1 DEF Untouched, Same
  <2>2. (\A o \in Objs : ~Is(o, i)) /\ (record[i] # NoRecord => \E j \in jobs : i \in j.drop)
    BY <2>1 DEF HistInv, DelId
  <2>3. \A o \in Objs : ~Is(o, i)'
    BY <1>1, <2>2 DEF Untouched, Same
  <2>4. record'[i] # NoRecord => record[i] # NoRecord
    BY <1>1, <2>2 DEF Untouched, Same, WrittenFrom
  <2>5. record'[i] # NoRecord => \E j \in jobs' : i \in j.drop
    BY <1>1, <2>2, <2>4 DEF Untouched, Same
  <2> QED
    BY <2>3, <2>5
<1>2. ASSUME NEW i \in Ids, Untouched(i) PROVE ReplId(i)'
  <2> SUFFICES ASSUME replaced'[i] # Nil, i \notin deleted', i \notin spoiled'["aliased"]
               PROVE  /\ \A o \in Objs :
                           Is(o, i)' /\ ~heap'[o].no_save => heap'[o].key = replaced'[i]
                      /\ NewOnDisk(i)' \/ \E j \in jobs' : i \in j.uncache /\ SavedBy(j, i)'
    BY DEF ReplId
  <2>1. /\ replaced[i] # Nil /\ i \notin deleted /\ i \notin spoiled["aliased"]
        /\ replaced'[i] = replaced[i]
    BY <1>2 DEF Untouched, Same
  <2>2. /\ \A o \in Objs : Is(o, i) /\ ~heap[o].no_save => heap[o].key = replaced[i]
        /\ NewOnDisk(i) \/ \E j \in jobs : i \in j.uncache /\ SavedBy(j, i)
    BY <2>1 DEF HistInv, ReplId
  <2>3. \A o \in Objs : Is(o, i)' /\ ~heap'[o].no_save => heap'[o].key = replaced'[i]
    BY <1>2, <2>1, <2>2 DEF Untouched, Same
  <2>4. ASSUME NEW o \in Objs, WrittenFrom(o, i) PROVE NewOnDisk(i)'
    <3>1. record'[i] = [key |-> heap[o].key, gid |-> heap[o].gid] /\ heap[o].key = replaced[i]
      BY <2>2, <2>4 DEF WrittenFrom
    <3>2. record'[i] # NoRecord
      <4>1. heap[o].key \in Keys /\ heap[o].gid \in Groups
        BY <2>4 DEF WrittenFrom, Is, Typed, Objects
      <4> QED
        BY <3>1, <4>1, Nothing DEF Records
    <3> QED
      BY <2>1, <3>1, <3>2 DEF NewOnDisk
  <2>5. ASSUME NewOnDisk(i) PROVE NewOnDisk(i)'
    <3>1. \A j \in jobs : i \notin j.drop
      BY <2>1, Zenon DEF HistInv, DropsGone
    <3>2. record'[i] = record[i] => NewOnDisk(i)'
      BY <2>1, <2>5 DEF NewOnDisk
    <3>3. record'[i] = record[i] \/ \E o \in Objs : WrittenFrom(o, i)
      BY <1>2, <3>1 DEF Untouched, Same
    <3> QED
      BY <2>4, <3>2, <3>3
  <2>6. ASSUME NEW j \in jobs, i \in j.uncache, SavedBy(j, i)
        PROVE  NewOnDisk(i)' \/ \E k \in jobs' : i \in k.uncache /\ SavedBy(k, i)'
    BY <1>2, <2>4, <2>6 DEF Untouched, Same
  <2> QED
    BY <2>2, <2>3, <2>5, <2>6
<1>3. ASSUME NEW g \in Groups, GroupUntouched(g) PROVE DelGroup(g)'
  <2> SUFFICES ASSUME g \in deleted', ~Excused(g)'
               PROVE  /\ g \notin groups'
                      /\ \A j \in jobs' : g \notin j.groups
                      /\ groupRec'[g] # NoRecord => \E j \in jobs' : g \in j.dropGroups
    BY DEF DelGroup
  <2>1. g \in deleted /\ ~Excused(g)
    BY <1>3 DEF GroupUntouched
  <2>2. /\ g \notin groups
        /\ \A j \in jobs : g \notin j.groups
        /\ groupRec[g] # NoRecord => \E j \in jobs : g \in j.dropGroups
    BY <2>1 DEF HistInv, DelGroup
  <2> QED
    BY <1>3, <2>2 DEF GroupUntouched
<1>4. ASSUME NEW i \in Ids, Untouched(i) PROVE Coherent(i)'
  BY <1>4, CoherentStays DEF Untouched, HistInv
<1> QED
  BY <1>1, <1>2, <1>3, <1>4 DEF HistInv

\* A record stays, is dropped as was intended, or is written from an object.
RecordsKept ==
  \A i \in Ids : \/ record'[i] = record[i]
                 \/ record'[i] = NoRecord /\ \E j \in jobs : i \in j.drop
                 \/ \E o \in Objs : WrittenFrom(o, i)
\* A thread drops and saves what it was going to.
JobsKept ==
  /\ \A j \in jobs' : \A i \in j.drop : \E k \in jobs : i \in k.drop
  /\ \A j \in jobs : \A i \in j.drop : record'[i] = NoRecord \/ \E k \in jobs' : i \in k.drop
  /\ \A j \in jobs : \A i \in Ids : SavedBy(j, i) =>
       \/ \E k \in jobs' : (i \in j.uncache => i \in k.uncache) /\ SavedBy(k, i)
       \/ \E o \in Objs : WrittenFrom(o, i)
\* A step that makes no object and starts no thread.
Quietly == HeapKept /\ RecordsKept /\ JobsKept
\* A list that is saved is that of a group that is there, or was to be saved.
GroupsKept ==
  \A g \in Groups :
    /\ \A j \in jobs' : g \in j.groups => g \in groups \/ \E k \in jobs : g \in k.groups
    /\ groupRec'[g] # NoRecord =>
         groupRec[g] # NoRecord \/ g \in groups \/ \E k \in jobs : g \in k.groups
    /\ \A j \in jobs : g \in j.dropGroups =>
         groupRec'[g] = NoRecord \/ \E k \in jobs' : g \in k.dropGroups

\* A step frees objects of the heap it makes.
LEMMA HeapIs ==
  ASSUME NEW h, Collect(h)
  PROVE  \A o \in Objs : heap'[o] = h[o] \/ heap'[o] = Nil
  BY DEF Collect

\* A thread that is going to save a profile still is when the objects are freed.
LEMMA SavedStays ==
  ASSUME HeapKept, Refd', NEW k \in jobs', NEW i \in Ids, SavedBy(k, i),
         k.ents \in SUBSET Objs, k.write \in Objs \cup {Nil}
  PROVE  SavedBy(k, i)'
<1>1. PICK o \in k.ents \cup {k.write} : Is(o, i) /\ ~heap[o].no_save
  BY DEF SavedBy
<1>2. o # Nil /\ o \in Objs
  BY <1>1 DEF Is
<1>3. heap'[o] # Nil
  BY <1>1, <1>2 DEF Refd
<1>4. heap'[o] = heap[o]
  BY <1>2, <1>3 DEF HeapKept
<1>5. Is(o, i)' /\ ~heap'[o].no_save
  BY <1>1, <1>2, <1>3, <1>4 DEF Is
<1> QED
  BY <1>1, <1>5 DEF SavedBy

\* A step that makes no object and starts no thread leaves the content of every profile.
LEMMA QuietSame ==
  ASSUME Typed', Refd', Quietly, spoiled' = spoiled
  PROVE  \A i \in Ids : Same(i)
<1> SUFFICES ASSUME NEW i \in Ids PROVE Same(i)
  OBVIOUS
<1>1. \A o \in Objs : Is(o, i)' => Is(o, i) /\ heap'[o] = heap[o]
  BY DEF Quietly, HeapKept, Is
<1>2. ASSUME NEW j \in jobs, SavedBy(j, i)
      PROVE  \/ \E k \in jobs' : (i \in j.uncache => i \in k.uncache) /\ SavedBy(k, i)'
             \/ \E o \in Objs : WrittenFrom(o, i)
  <2>1. ASSUME NEW k \in jobs', SavedBy(k, i) PROVE SavedBy(k, i)'
    <3>1. k.ents \in SUBSET Objs /\ k.write \in Objs \cup {Nil}
      BY DEF Typed, IsJob
    <3> QED
      BY <2>1, <3>1, SavedStays DEF Quietly
  <2> QED
    BY <1>2, <2>1 DEF Quietly, JobsKept
<1>3. \A j \in jobs : i \in j.drop => record'[i] = NoRecord \/ \E k \in jobs' : i \in k.drop
  BY DEF Quietly, JobsKept
<1> QED
  BY <1>1, <1>2, <1>3 DEF Same, Quietly, RecordsKept

\* An operation leaves the content of a profile when it makes none of its objects.
LEMMA OperationSame ==
  ASSUME Typed, Refd', NEW i \in Ids, record' = record, \A j \in jobs : j \in jobs',
         spoiled["aliased"] \subseteq spoiled'["aliased"],
         \A o \in Objs : \/ heap'[o] = heap[o]
                         \/ heap'[o] = Nil
                         \/ heap'[o].id # i /\ (heap[o] = Nil \/ heap[o].id # i)
  PROVE  Same(i)
<1>1. \A o \in Objs : Is(o, i)' => Is(o, i) /\ heap'[o] = heap[o]
  BY DEF Is
<1>2. ASSUME NEW j \in jobs, SavedBy(j, i) PROVE SavedBy(j, i)'
  <2>1. PICK o \in j.ents \cup {j.write} : Is(o, i) /\ ~heap[o].no_save
    BY <1>2 DEF SavedBy
  <2>2. o # Nil /\ o \in Objs
    BY <2>1 DEF Is, Typed, IsJob
  <2>3. heap'[o] # Nil
    BY <2>1, <2>2 DEF Refd
  <2>4. heap'[o] = heap[o]
    BY <2>1, <2>2, <2>3 DEF Is
  <2>5. Is(o, i)' /\ ~heap'[o].no_save
    BY <2>1, <2>2, <2>3, <2>4 DEF Is
  <2> QED
    BY <2>1, <2>5 DEF SavedBy
<1> QED
  BY <1>1, <1>2 DEF Same

\* A step of a thread, a holder or a cache keeps HistInv: what it writes comes from an object
\* that was there, what it drops was to be dropped.
LEMMA QuietHistory ==
  ASSUME Typed, HistInv, Typed', Refd', HeapKept, RecordsKept, JobsKept, GroupsKept,
         UNCHANGED <<deleted, replaced, spoiled, groups>>
  PROVE  HistInv'
<1>1. ASSUME NEW i \in Ids PROVE Untouched(i)
  <2>1. Same(i)
    BY QuietSame DEF Quietly
  <2> QED
    BY <2>1 DEF Untouched, Excused
<1>2. ASSUME NEW g \in Groups PROVE GroupUntouched(g)
  BY DEF GroupUntouched, GroupsKept, Excused
<1>3. DropsGone'
  BY Zenon DEF HistInv, DropsGone, JobsKept
<1> QED
  BY <1>1, <1>2, <1>3, HistStep

\* A write takes the content of the object.
LEMMA WritesFrom ==
  ASSUME Typed, NEW o \in Objs, heap[o] # Nil, record' = Written(o)
  PROVE  /\ RecordsKept
         /\ \A i \in Ids : Is(o, i) /\ ~heap[o].no_save => WrittenFrom(o, i)
<1>1. ASSUME NEW i \in Ids, Is(o, i), ~heap[o].no_save PROVE WrittenFrom(o, i)
  <2>1. heap[o].id = i /\ record \in [Ids -> Records \cup {NoRecord}]
    BY <1>1 DEF Is, Typed
  <2>2. record' = [record EXCEPT ![i] = [key |-> heap[o].key, gid |-> heap[o].gid]]
    BY <1>1, <2>1 DEF Written
  <2>3. record'[i] = [key |-> heap[o].key, gid |-> heap[o].gid]
    BY <2>1, <2>2
  <2> QED
    BY <1>1, <2>3 DEF WrittenFrom
<1>2. ASSUME NEW i \in Ids, ~(Is(o, i) /\ ~heap[o].no_save) PROVE record'[i] = record[i]
  <2>1. o # Nil /\ record \in [Ids -> Records \cup {NoRecord}]
    BY Nothing DEF Typed
  <2>2. CASE heap[o].no_save
    BY <2>2 DEF Written
  <2>3. CASE ~heap[o].no_save /\ heap[o].id # i
    BY <2>1, <2>3 DEF Written
  <2> QED
    BY <1>2, <2>1, <2>2, <2>3 DEF Is
<1> QED
  BY <1>1, <1>2 DEF RecordsKept

\* A step that starts and ends no thread.
LEMMA SameJobsKept ==
  ASSUME UNCHANGED jobs
  PROVE  JobsKept
  BY DEF JobsKept

\* Caching, uncaching, leaving and evicting keep HistInv.
LEMMA HolderHistory ==
  ASSUME Typed, HistInv, Typed', Refd',
         HolderCaches \/ HolderUncaches \/ HolderLeaves \/ \E e \in Ids : Evict(e)
  PROVE  HistInv' /\ Quietly
<1>1. /\ UNCHANGED <<record, groupRec, jobs, groups, deleted, replaced, spoiled>>
      /\ Collect(heap)
  BY DEF HolderCaches, HolderUncaches, HolderLeaves, Evict, heldRest, diskVars
<1>2. HeapKept
  BY <1>1, HeapIs DEF HeapKept
<1>3. RecordsKept /\ GroupsKept
  BY <1>1 DEF RecordsKept, GroupsKept
<1> QED
  BY <1>1, <1>2, <1>3, SameJobsKept, QuietHistory DEF Quietly

\* ProxyEntity::Save of the profile in hand (ProxyEntity.cpp:112) keeps it.
LEMMA HolderWritesHistory ==
  ASSUME Typed, Refd, HistInv, Typed', Refd', HolderWrites
  PROVE  HistInv' /\ Quietly
<1>1. /\ UNCHANGED <<groupRec, jobs, groups, deleted, replaced, spoiled>>
      /\ Collect(heap) /\ record' = Written(held.obj)
  BY DEF HolderWrites, heldRest
<1>2. HeapKept
  BY <1>1, HeapIs DEF HeapKept
<1>3. GroupsKept
  BY <1>1 DEF GroupsKept
<1>4. held.obj \in Objs /\ heap[held.obj] # Nil
  BY DEF HolderWrites, Typed, Refd
<1> QED
  BY <1>1, <1>2, <1>3, <1>4, WritesFrom, SameJobsKept, QuietHistory DEF Quietly

\* A thread's save of a list (Database.cpp:1119) keeps it: a deleted group has none coming.
LEMMA JobSavesGroupHistory ==
  ASSUME Typed, HistInv, Typed', Refd', NEW j \in jobs, NEW g \in Groups, JobSavesGroup(j, g)
  PROVE  HistInv' /\ Quietly
<1> DEFINE k == [j EXCEPT !.groups = j.groups \ {g}]
<1>1. /\ g \in j.groups /\ groupRec' = [groupRec EXCEPT ![g] = members[g]]
      /\ jobs' = (jobs \ {j}) \cup {k}
      /\ UNCHANGED <<record, heap, groups, deleted, replaced, spoiled>>
  BY DEF JobSavesGroup, Becomes, memVars, histVars
<1>2. /\ k.groups = j.groups \ {g} /\ k.ents = j.ents /\ k.write = j.write
      /\ k.drop = j.drop /\ k.dropGroups = j.dropGroups /\ k.uncache = j.uncache
  <2>1. IsJob(j) /\ j.groups \ {g} \in SUBSET Groups
    BY DEF Typed, IsJob
  <2> QED
    BY <2>1, JobLessGroup
<1> HIDE DEF k
<1>3. HeapKept /\ RecordsKept
  BY <1>1 DEF HeapKept, RecordsKept
<1>4. JobsKept
  <2>1. \A i \in Ids : SavedBy(j, i) => SavedBy(k, i)
    BY <1>2 DEF SavedBy
  <2> QED
    BY <1>1, <1>2, <2>1 DEF JobsKept
<1>5. GroupsKept
  BY <1>1, <1>2 DEF GroupsKept, Typed
<1> QED
  BY <1>1, <1>3, <1>4, <1>5, QuietHistory DEF Quietly

\* A thread's uncaching before a write keeps it.
LEMMA JobUncachesHistory ==
  ASSUME Typed, HistInv, Typed', Refd', NEW j \in jobs, NEW o \in Objs, JobUncaches(j, o)
  PROVE  HistInv' /\ Quietly
<1>1. PICK k :
            /\ k = [j EXCEPT !.ents = j.ents \ {o}, !.write = o]
            /\ j.write = Nil /\ jobs' = (jobs \ {j}) \cup {k}
            /\ UNCHANGED <<record, groupRec, groups, deleted, replaced, spoiled>>
            /\ Collect(heap)
  BY DEF JobUncaches, Becomes, diskVars, histVars
<1>2. /\ k.groups = j.groups /\ k.ents = j.ents \ {o} /\ k.write = o
      /\ k.drop = j.drop /\ k.dropGroups = j.dropGroups /\ k.uncache = j.uncache
  <2>1. IsJob(j)
    BY DEF Typed
  <2> QED
    BY <1>1, <2>1, JobTaken
<1>3. HeapKept /\ RecordsKept
  BY <1>1, HeapIs DEF HeapKept, RecordsKept
<1>4. JobsKept
  <2>1. ASSUME NEW i \in Ids, SavedBy(j, i) PROVE SavedBy(k, i)
    <3>1. PICK p \in j.ents \cup {j.write} : Is(p, i) /\ ~heap[p].no_save
      BY <2>1 DEF SavedBy
    <3>2. p \in k.ents \cup {k.write}
      BY <1>1, <1>2, <3>1 DEF Is
    <3> QED
      BY <3>1, <3>2 DEF SavedBy
  <2> QED
    BY <1>1, <1>2, <2>1 DEF JobsKept
<1>5. GroupsKept
  BY <1>1, <1>2 DEF GroupsKept
<1> QED
  BY <1>1, <1>3, <1>4, <1>5, QuietHistory DEF Quietly

\* A thread's write keeps it: a deleted profile has no object that could be written.
LEMMA JobWritesHistory ==
  ASSUME Typed, Refd, HistInv, Typed', Refd', NEW j \in jobs, JobWrites(j)
  PROVE  HistInv' /\ Quietly
<1> DEFINE k == [j EXCEPT !.write = Nil]
<1>1. /\ j.write # Nil /\ jobs' = (jobs \ {j}) \cup {k} /\ record' = Written(j.write)
      /\ UNCHANGED <<groupRec, groups, deleted, replaced, spoiled>>
      /\ Collect(heap)
  BY DEF JobWrites, Becomes, histVars
<1>2. /\ IsJob(j) /\ k.groups = j.groups /\ k.ents = j.ents /\ k.write = Nil
      /\ k.drop = j.drop /\ k.dropGroups = j.dropGroups /\ k.uncache = j.uncache
  <2>1. IsJob(j)
    BY DEF Typed
  <2> QED
    BY <2>1, JobDone
<1> HIDE DEF k
<1>3. HeapKept
  BY <1>1, HeapIs DEF HeapKept
<1>4. j.write \in Objs /\ heap[j.write] # Nil
  BY <1>1, <1>2 DEF IsJob, Refd
<1>5. /\ RecordsKept
      /\ \A i \in Ids : Is(j.write, i) /\ ~heap[j.write].no_save => WrittenFrom(j.write, i)
  BY <1>1, <1>4, WritesFrom
<1>6. JobsKept
  <2>1. ASSUME NEW i \in Ids, SavedBy(j, i)
        PROVE  SavedBy(k, i) \/ \E o \in Objs : WrittenFrom(o, i)
    <3>1. PICK p \in j.ents \cup {j.write} : Is(p, i) /\ ~heap[p].no_save
      BY <2>1 DEF SavedBy
    <3>2. CASE p = j.write
      BY <1>4, <1>5, <3>1, <3>2
    <3>3. CASE p \in k.ents
      BY <3>1, <3>3 DEF SavedBy
    <3> QED
      BY <1>2, <3>1, <3>2, <3>3
  <2> QED
    BY <1>1, <1>2, <2>1 DEF JobsKept
<1>7. GroupsKept
  BY <1>1, <1>2 DEF GroupsKept
<1> QED
  BY <1>1, <1>3, <1>5, <1>6, <1>7, QuietHistory DEF Quietly

\* The end of a thread, which drops records (Database.cpp:1123-1130), keeps it.
LEMMA JobEndsHistory ==
  ASSUME Typed, HistInv, Typed', Refd', NEW j \in jobs, JobEnds(j)
  PROVE  HistInv' /\ Quietly
<1>1. /\ j.groups = {} /\ j.ents = {} /\ j.write = Nil
      /\ record' = [i \in Ids |-> IF i \in j.drop THEN NoRecord ELSE record[i]]
      /\ groupRec' = [g \in Groups |-> IF g \in j.dropGroups THEN NoRecord ELSE groupRec[g]]
      /\ jobs' = jobs \ {j}
      /\ UNCHANGED <<groups, deleted, replaced, spoiled>>
      /\ Collect(heap)
  BY DEF JobEnds, histVars
<1>2. HeapKept
  BY <1>1, HeapIs DEF HeapKept
<1>3. RecordsKept
  BY <1>1 DEF RecordsKept
<1>4. JobsKept
  <2>1. \A i \in Ids : ~SavedBy(j, i)
    BY <1>1 DEF SavedBy, Is
  <2>2. j.drop \in SUBSET Ids
    BY DEF Typed, IsJob
  <2> QED
    BY <1>1, <2>1, <2>2 DEF JobsKept
<1>5. GroupsKept
  BY <1>1 DEF GroupsKept
<1> QED
  BY <1>1, <1>2, <1>3, <1>4, <1>5, QuietHistory DEF Quietly

\* A step that changes nothing, or a list in memory only, keeps it.
LEMMA StaysHistory ==
  ASSUME Typed, HistInv, Typed', Refd', DatabaseStays \/ ClearList
  PROVE  HistInv' /\ Quietly
<1>1. UNCHANGED <<record, groupRec, heap, jobs, groups, deleted, replaced, spoiled>>
  BY DEF DatabaseStays, ClearList, diskVars, histVars
<1>2. HeapKept /\ RecordsKept /\ GroupsKept
  BY <1>1 DEF HeapKept, RecordsKept, GroupsKept
<1> QED
  BY <1>1, <1>2, SameJobsKept, QuietHistory DEF Quietly

\* DropNulls keeps it: it writes the list of a group that is there.
LEMMA DropNullsHistory ==
  ASSUME Typed, HistInv, Typed', Refd', NEW g \in Groups, DropNulls(g)
  PROVE  HistInv'
<1>1. /\ UNCHANGED <<record, heap, jobs, groups, deleted, replaced, spoiled>>
      /\ g \in groups /\ groupRec' = [groupRec EXCEPT ![g] = members'[g]]
  BY DEF DropNulls, histVars
<1>2. HeapKept /\ RecordsKept
  BY <1>1 DEF HeapKept, RecordsKept
<1>3. GroupsKept
  BY <1>1 DEF GroupsKept, Typed
<1> QED
  BY <1>1, <1>2, <1>3, SameJobsKept, QuietHistory

\* An operation keeps HistInv, when it does of the profiles and groups it is about.
LEMMA OperationHistory ==
  ASSUME Typed, HistInv, Typed', Refd', NEW ts,
         record' = record, \A j \in jobs : j \in jobs',
         \A i \in Ids : i \notin ts =>
           (i \in deleted' <=> i \in deleted) /\ replaced'[i] = replaced[i],
         \A s \in Spoilers : spoiled[s] \subseteq spoiled'[s],
         \A o \in Objs : \/ heap'[o] = heap[o]
                         \/ heap'[o] = Nil
                         \/ heap'[o].id \in ts /\ (heap[o] = Nil \/ heap[o].id \in ts),
         \A i \in Ids : i \in ts => DelId(i)' /\ ReplId(i)' /\ (HeapKept \/ Coherent(i)'),
         \A g \in Groups : GroupUntouched(g) \/ DelGroup(g)',
         DropsGone'
  PROVE  HistInv'
<1>1. ASSUME NEW i \in Ids, i \notin ts \/ HeapKept PROVE Same(i)
  <2>1. spoiled["aliased"] \subseteq spoiled'["aliased"]
    BY DEF Spoilers
  <2>2. \A o \in Objs : \/ heap'[o] = heap[o]
                        \/ heap'[o] = Nil
                        \/ heap'[o].id # i /\ (heap[o] = Nil \/ heap[o].id # i)
    BY <1>1 DEF HeapKept
  <2> QED
    BY <2>1, <2>2, OperationSame
<1>2. ASSUME NEW i \in Ids, i \notin ts PROVE Untouched(i)
  <2>1. /\ i \in deleted' <=> i \in deleted
        /\ replaced'[i] = replaced[i]
    BY <1>2
  <2>2. Excused(i) => Excused(i)'
    BY DEF Excused, Spoilers
  <2> QED
    BY <1>1, <1>2, <2>1, <2>2 DEF Untouched
<1>3. ASSUME NEW i \in Ids, HeapKept PROVE Coherent(i)'
  BY <1>1, <1>3, CoherentStays DEF HistInv
<1> QED
  BY <1>2, <1>3, HistStep

\* An operation that starts a thread for groups that are there leaves them all Untouched.
LEMMA GroupsUntouched ==
  ASSUME UNCHANGED <<groupRec, groups>>, \A g \in Groups : g \in deleted' => g \in deleted,
         \A s \in Spoilers : spoiled[s] \subseteq spoiled'[s],
         \A j \in jobs : j \in jobs',
         \A j \in jobs' : j \in jobs \/ j.groups \subseteq groups
  PROVE  \A g \in Groups : GroupUntouched(g)
<1>1. \A g \in Groups : Excused(g) => Excused(g)'
  BY DEF Excused, Spoilers
<1> QED
  BY <1>1 DEF GroupUntouched

\* The update's group->Save() (GroupUpdater.cpp:1524) keeps it: a deleted group it writes
\* back is recorded as excepted.
LEMMA SaveGroupHistory ==
  ASSUME Typed, UpdTyped, HistInv, Typed', Refd', SaveGroup
  PROVE  HistInv'
<1>1. /\ groupRec' = [groupRec EXCEPT ![upd.gid] = members[upd.gid]]
      /\ spoiled' = [spoiled EXCEPT !["inHand"] = @ \cup ({upd.gid} \cap deleted)]
      /\ UNCHANGED <<record, heap, groups, jobs, deleted, replaced>>
      /\ upd.gid \in Groups
  BY DEF SaveGroup, memVars, AtUpd, UpdTyped
<1>2. /\ \A s \in Spoilers : spoiled[s] \subseteq spoiled'[s]
      /\ upd.gid \in deleted => upd.gid \in spoiled'["inHand"]
  BY <1>1 DEF Typed, Spoilers
<1>3. ASSUME NEW g \in Groups, g # upd.gid PROVE GroupUntouched(g)
  <2>1. groupRec'[g] = groupRec[g]
    BY <1>1, <1>3 DEF Typed
  <2>2. Excused(g) => Excused(g)'
    BY <1>2 DEF Excused, Spoilers
  <2> QED
    BY <1>1, <2>1, <2>2 DEF GroupUntouched
<1>4. DropsGone'
  BY <1>1 DEF HistInv, DropsGone
<1>5. \A g \in Groups : GroupUntouched(g) \/ DelGroup(g)'
  <2>1. ASSUME NEW g \in Groups, g = upd.gid PROVE DelGroup(g)'
    BY <1>1, <1>2, <2>1 DEF DelGroup, Excused
  <2> QED
    BY <1>3, <2>1
<1>6. PICK ts : ts = {}
  OBVIOUS
<1>7. /\ record' = record /\ \A j \in jobs : j \in jobs'
      /\ \A i \in Ids : i \notin ts =>
           (i \in deleted' <=> i \in deleted) /\ replaced'[i] = replaced[i]
      /\ \A o \in Objs : \/ heap'[o] = heap[o]
                         \/ heap'[o] = Nil
                         \/ heap'[o].id \in ts /\ (heap[o] = Nil \/ heap[o].id \in ts)
      /\ \A i \in Ids : i \in ts => DelId(i)' /\ ReplId(i)' /\ (HeapKept \/ Coherent(i)')
  BY <1>1, <1>6
<1> QED
  BY <1>2, <1>4, <1>5, <1>7, OperationHistory

\* Loading a profile keeps HistInv: its content is the cached one's or the record's.
LEMMA LoadsHistory ==
  ASSUME Typed, Refd, HistInv, Typed', Refd', NEW i \in Ids, CanLoad(i),
         NEW x \in Objects, x.id = i, x.key = GetProfile(i).key, x.no_save = GetProfile(i).no_save,
         Collect([heap EXCEPT ![Loaded(i)] = x]),
         \A j \in jobs : j \in jobs',
         \A j \in jobs' : j \in jobs \/ (j.groups \subseteq groups /\ j.drop = {}),
         UNCHANGED <<record, groupRec, groups, deleted, replaced>>,
         \A s \in Spoilers : spoiled[s] \subseteq spoiled'[s],
         i \in Dropping /\ i \in deleted => i \in spoiled'["askedLate"],
         ReadsOld(i) => i \in spoiled'["aliased"]
  PROVE  HistInv'
<1>1. /\ Loaded(i) \in Objs
      /\ Cached(i) # Nil => Is(Loaded(i), i) /\ heap[Loaded(i)] = GetProfile(i)
      /\ Cached(i) = Nil => /\ heap[Loaded(i)] = Nil /\ GetProfile(i) = FromRecord(i)
                            /\ record[i] # NoRecord
  <2>1. Known(i)
    BY DEF CanLoad
  <2> QED
    BY <2>1, KnownIs, Loading
<1>2. /\ \A o \in Objs : o # Loaded(i) => heap'[o] = heap[o] \/ heap'[o] = Nil
      /\ heap'[Loaded(i)] \in {x, Nil}
  BY <1>1 DEF Collect, Typed
<1>3. x # Nil /\ \A o \in Objs : o # Nil
  BY Nothing
<1>4. /\ i \in spoiled["aliased"] => i \in spoiled'["aliased"]
      /\ Excused(i) => Excused(i)'
  BY DEF Excused, Spoilers
<1>5. DelId(i)'
  <2> SUFFICES ASSUME i \in deleted, ~Excused(i)' PROVE FALSE
    BY DEF DelId
  <2>1. /\ \A o \in Objs : ~Is(o, i)
        /\ record[i] # NoRecord => \E j \in jobs : i \in j.drop
    BY <1>4 DEF HistInv, DelId
  <2>2. record[i] # NoRecord
    BY <1>1, <2>1
  <2>3. i \in Dropping
    BY <2>1, <2>2 DEF Dropping
  <2> QED
    BY <2>3 DEF Excused
<1>5a. ASSUME NEW j \in jobs, SavedBy(j, i) PROVE SavedBy(j, i)'
  <2>1. PICK o \in j.ents \cup {j.write} : Is(o, i) /\ ~heap[o].no_save
    BY <1>5a DEF SavedBy
  <2>2. o # Nil /\ o \in Objs
    BY <2>1 DEF Is, Typed, IsJob
  <2>3. heap'[o] # Nil
    BY <2>1, <2>2 DEF Refd
  <2>4. CASE o = Loaded(i)
    <3>1. heap'[o] = x /\ heap[o] = GetProfile(i)
      BY <1>1, <1>2, <2>1, <2>3, <2>4 DEF Is
    <3>2. Is(o, i)' /\ ~heap'[o].no_save
      BY <2>1, <2>2, <2>3, <3>1 DEF Is
    <3> QED
      BY <2>1, <3>2 DEF SavedBy
  <2>5. CASE o # Loaded(i)
    <3>1. heap'[o] = heap[o]
      BY <1>2, <2>2, <2>3, <2>5
    <3>2. Is(o, i)' /\ ~heap'[o].no_save
      BY <2>1, <2>2, <2>3, <3>1 DEF Is
    <3> QED
      BY <2>1, <3>2 DEF SavedBy
  <2> QED
    BY <2>4, <2>5
<1>6. ReplId(i)'
  <2> SUFFICES ASSUME replaced[i] # Nil, i \notin deleted, i \notin spoiled'["aliased"]
               PROVE  /\ \A o \in Objs :
                           Is(o, i)' /\ ~heap'[o].no_save => heap'[o].key = replaced[i]
                      /\ NewOnDisk(i)' \/ \E j \in jobs' : i \in j.uncache /\ SavedBy(j, i)'
    BY DEF ReplId
  <2>1. /\ \A o \in Objs : Is(o, i) /\ ~heap[o].no_save => heap[o].key = replaced[i]
        /\ NewOnDisk(i) \/ \E j \in jobs : i \in j.uncache /\ SavedBy(j, i)
    BY <1>4 DEF HistInv, ReplId
  <2>2. Cached(i) # Nil \/ \A j \in jobs : i \notin j.uncache
    BY DEF ReadsOld
  <2>3. ~x.no_save => x.key = replaced[i]
    <3>1. CASE Cached(i) # Nil
      BY <1>1, <2>1, <3>1
    <3>2. CASE Cached(i) = Nil
      BY <1>1, <2>1, <2>2, <3>2 DEF NewOnDisk, FromRecord
    <3> QED
      BY <3>1, <3>2
  <2>4. ASSUME NEW o \in Objs, Is(o, i)', ~heap'[o].no_save PROVE heap'[o].key = replaced[i]
    <3>1. CASE o = Loaded(i)
      BY <1>2, <2>3, <2>4, <3>1 DEF Is
    <3>2. CASE o # Loaded(i)
      BY <1>2, <2>1, <2>4, <3>2 DEF Is
    <3> QED
      BY <3>1, <3>2
  <2>6. NewOnDisk(i) => NewOnDisk(i)'
    BY DEF NewOnDisk
  <2> QED
    BY <1>5a, <2>1, <2>4, <2>6
<1>6a. Coherent(i)'
  <2> SUFFICES ASSUME i \notin spoiled'["aliased"]
               PROVE  /\ OneContent(i)'
                      /\ AsOnDisk(i)' \/ \E j \in jobs' : i \in j.uncache /\ SavedBy(j, i)'
    BY DEF Coherent
  <2>1. OneContent(i) /\ (AsOnDisk(i) \/ \E j \in jobs : i \in j.uncache /\ SavedBy(j, i))
    BY <1>4 DEF HistInv, Coherent
  <2>2. CASE Cached(i) # Nil
    <3>1. \A o \in Objs : Savable(o, i)' => Savable(o, i) /\ heap'[o].key = heap[o].key
      <4>1. heap[Loaded(i)] = GetProfile(i) /\ Is(Loaded(i), i)
        BY <1>1, <2>2
      <4> QED
        BY <1>2, <4>1 DEF Savable, Is
    <3>2. OneContent(i)' /\ (AsOnDisk(i) => AsOnDisk(i)')
      BY <2>1, <3>1 DEF OneContent, AsOnDisk
    <3> QED
      BY <1>5a, <2>1, <3>2
  <2>3. CASE Cached(i) = Nil
    <3>1. AsOnDisk(i) /\ record[i] # NoRecord /\ x.key = record[i].key
      BY <1>1, <2>1, <2>3 DEF ReadsOld, FromRecord
    <3>2. \A o \in Objs : Savable(o, i)' => heap'[o].key = record[i].key
      BY <1>2, <3>1 DEF Savable, Is, AsOnDisk
    <3> QED
      BY <3>2 DEF OneContent, AsOnDisk
  <2> QED
    BY <2>2, <2>3
<1>7. DropsGone'
  BY DEF HistInv, DropsGone
<1>8. \A g \in Groups : GroupUntouched(g)
  BY GroupsUntouched
<1>9. PICK ts : ts = {i}
  OBVIOUS
<1>10. /\ \A y \in Ids : y \notin ts =>
           (y \in deleted' <=> y \in deleted) /\ replaced'[y] = replaced[y]
       /\ \A o \in Objs : \/ heap'[o] = heap[o]
                          \/ heap'[o] = Nil
                          \/ heap'[o].id \in ts /\ (heap[o] = Nil \/ heap[o].id \in ts)
       /\ \A y \in Ids : y \in ts => DelId(y)' /\ ReplId(y)' /\ (HeapKept \/ Coherent(y)')
  <2>1. \A o \in Objs : o = Loaded(i) => heap[o] = Nil \/ heap[o].id = i
    BY <1>1 DEF Is
  <2>2. \A o \in Objs : \/ heap'[o] = heap[o]
                        \/ heap'[o] = Nil
                        \/ heap'[o].id = i /\ (heap[o] = Nil \/ heap[o].id = i)
    BY <1>2, <2>1
  <2>3. \A y \in Ids : y \in ts => y = i
    BY <1>9
  <2> QED
    BY <1>5, <1>6, <1>6a, <1>9, <2>2, <2>3
<1> QED
  BY <1>7, <1>8, <1>10, OperationHistory

\* A test's or dialog's GetProfile (Database.cpp:1145) keeps it.
LEMMA HolderGetsHistory ==
  ASSUME Typed, Refd, HistInv, Typed', Refd', NEW i \in Ids, HolderGets(i)
  PROVE  HistInv'
<1>1. /\ CanLoad(i) /\ Known(i)
      /\ spoiled' = [spoiled EXCEPT
            !["askedLate"] = @ \cup ({i} \cap Dropping),
            !["aliased"] = @ \cup {x \in {i} : ReadsOld(x)}]
      /\ UNCHANGED <<record, groupRec, groups, jobs, deleted, replaced>>
      /\ Collect([heap EXCEPT ![Loaded(i)] = GetProfile(i)])
  BY DEF HolderGets, CanLoad, diskVars, heldRest
<1>2. PICK x \in Objects : x = GetProfile(i) /\ x.id = i
  BY <1>1, KnownIs
<1>3. /\ \A s \in Spoilers : spoiled[s] \subseteq spoiled'[s]
      /\ i \in Dropping => i \in spoiled'["askedLate"]
      /\ ReadsOld(i) => i \in spoiled'["aliased"]
  BY <1>1 DEF Typed, Spoilers
<1>4. Collect([heap EXCEPT ![Loaded(i)] = x])
  BY <1>1, <1>2
<1>5. /\ x.key = GetProfile(i).key /\ x.no_save = GetProfile(i).no_save
      /\ \A j \in jobs : j \in jobs'
      /\ \A j \in jobs' : j \in jobs \/ (j.groups \subseteq groups /\ j.drop = {})
  BY <1>1, <1>2
<1> QED
  BY <1>1, <1>2, <1>3, <1>4, <1>5, LoadsHistory

\* MoveProfileBatch (Database.cpp:1057) keeps it.
LEMMA MoveHistory ==
  ASSUME Typed, Refd, HistInv, Typed', Refd', NEW i \in Ids, NEW g \in Groups,
         MoveProfileBatch(i, g)
  PROVE  HistInv'
<1> DEFINE old == GetProfile(i).gid
           k == [NewJob EXCEPT !.groups = {old, g}]
<1>1. /\ CanLoad(i) /\ Known(i) /\ old \in groups /\ g \in groups
      /\ jobs' = jobs \cup {k}
      /\ spoiled' = [spoiled EXCEPT !["moved"] = @ \cup {i},
                                    !["askedLate"] = @ \cup ({i} \cap deleted),
                                    !["aliased"] = @ \cup {x \in {i} : ReadsOld(x)}]
      /\ UNCHANGED <<record, groupRec, groups, deleted, replaced>>
      /\ Collect([heap EXCEPT ![Loaded(i)] = [GetProfile(i) EXCEPT !.gid = g]])
  BY DEF MoveProfileBatch, RunOnNewThread, CanLoad, diskVars
<1>2. k.groups = {old, g} /\ k.drop = {}
  <2>1. {old, g} \in SUBSET Groups
    BY <1>1 DEF Typed
  <2> QED
    BY <2>1, ListSavingJob
<1> HIDE DEF k
<1>3. PICK x \in Objects : /\ x = [GetProfile(i) EXCEPT !.gid = g]
                           /\ x.id = i /\ x.key = GetProfile(i).key
                           /\ x.no_save = GetProfile(i).no_save
  <2>1. PICK p \in Objects : p = GetProfile(i) /\ p.id = i
    BY <1>1, KnownIs
  <2>2. PICK x : x = [p EXCEPT !.gid = g]
    OBVIOUS
  <2>3. x \in Objects /\ x.id = p.id /\ x.key = p.key /\ x.no_save = p.no_save
    BY <2>2 DEF Objects
  <2> QED
    BY <2>1, <2>2, <2>3
<1>4. /\ \A s \in Spoilers : spoiled[s] \subseteq spoiled'[s]
      /\ i \in deleted => i \in spoiled'["askedLate"]
      /\ ReadsOld(i) => i \in spoiled'["aliased"]
  <2>1. PICK m, l, a : /\ m = spoiled["moved"] \cup {i}
                       /\ l = spoiled["askedLate"] \cup ({i} \cap deleted)
                       /\ a = spoiled["aliased"] \cup {n \in {i} : ReadsOld(n)}
    OBVIOUS
  <2>2. spoiled' = [spoiled EXCEPT !["moved"] = m, !["askedLate"] = l, !["aliased"] = a]
    BY <1>1, <2>1, Zenon
  <2>3. spoiled = [s \in Spoilers |-> spoiled[s]]
    BY DEF Typed
  <2>4. /\ spoiled'["moved"] = m /\ spoiled'["askedLate"] = l /\ spoiled'["aliased"] = a
        /\ \A s \in Spoilers : s \in {"moved", "askedLate", "aliased"} \/ spoiled'[s] = spoiled[s]
    BY <2>2, <2>3 DEF Spoilers
  <2> QED
    BY <2>1, <2>4
<1>5. Collect([heap EXCEPT ![Loaded(i)] = x])
  BY <1>1, <1>3, Zenon
<1>6. /\ \A j \in jobs : j \in jobs'
      /\ \A j \in jobs' : j \in jobs \/ (j.groups \subseteq groups /\ j.drop = {})
  BY <1>1, <1>2
<1> QED
  BY <1>1, <1>3, <1>4, <1>5, <1>6, LoadsHistory

\* ReplaceProfile (Database.cpp:1010) keeps it, and establishes it of the profile: what is left
\* of the old object is silenced, or recorded as aliased.
LEMMA ReplaceHistory ==
  ASSUME Typed, Refd, HistInv, Typed', Refd', NEW i \in Ids, NEW c \in Keys, ReplaceProfile(i, c)
  PROVE  HistInv'
<1>0. PICK h, k : Replacing(i, c, h, k)
  BY ReplacingIs
<1>1. /\ There(i) /\ jobs' = jobs \cup {k} /\ replaced' = [replaced EXCEPT ![i] = c]
      /\ spoiled' = [spoiled EXCEPT
           !["aliased"] = @ \cup {x \in {i} : Aliased(x)},
           !["askedLate"] = @ \cup ({i} \cap Dropping)]
      /\ UNCHANGED <<record, groupRec, groups, deleted>>
      /\ Collect(h)
  BY <1>0 DEF Replacing
<1>2. /\ k.groups = {} /\ k.ents = {NewObj} /\ k.drop = {} /\ k.uncache = {i}
  BY <1>0 DEF Replacing
<1>3. /\ NewObj \in Objs /\ NewObj # Nil /\ heap[NewObj] = Nil
      /\ h[NewObj].id = i /\ h[NewObj].key = c /\ ~h[NewObj].no_save
      /\ \A o \in Objs : o \notin {NewObj, Cached(i)} => h[o] = heap[o]
      /\ \A o \in Objs : o = Cached(i) => heap[o].id = i /\ h[o].id = i /\ h[o].no_save
  BY <1>0 DEF Replacing
<1>4. \A o \in Objs : heap'[o] = h[o] \/ heap'[o] = Nil
  BY <1>1, HeapIs
<1>5. /\ \A s \in Spoilers : spoiled[s] \subseteq spoiled'[s]
      /\ i \in Dropping => i \in spoiled'["askedLate"]
      /\ Aliased(i) => i \in spoiled'["aliased"]
  BY <1>1 DEF Typed, Spoilers
<1>6. /\ \A y \in Ids : y # i => replaced'[y] = replaced[y]
      /\ replaced'[i] = c
  BY <1>1 DEF Typed
<1>7. DelId(i)'
  <2> SUFFICES ASSUME i \in deleted, ~Excused(i)' PROVE FALSE
    BY <1>1 DEF DelId
  <2>1. ~Excused(i)
    BY <1>5 DEF Excused, Spoilers
  <2>2. /\ \A o \in Objs : ~Is(o, i)
        /\ record[i] # NoRecord => \E j \in jobs : i \in j.drop
    BY <2>1 DEF HistInv, DelId
  <2>3. i \in Dropping
    BY <1>1, <2>2 DEF There, Dropping
  <2> QED
    BY <1>5, <2>3 DEF Excused
<1>8. ReplId(i)' /\ Coherent(i)'
  <2> SUFFICES ASSUME i \notin spoiled'["aliased"]
               PROVE  /\ \A o \in Objs : Is(o, i)' /\ ~heap'[o].no_save => heap'[o].key = c
                      /\ \E j \in jobs' : i \in j.uncache /\ SavedBy(j, i)'
    BY <1>6 DEF ReplId, Coherent, OneContent, Savable
  <2>1. ~Aliased(i)
    BY <1>5
  <2>2. ASSUME NEW o \in Objs, Is(o, i)', ~heap'[o].no_save PROVE heap'[o].key = c
    <3>1. heap'[o] = h[o] /\ heap'[o].id = i /\ heap'[o] # Nil
      BY <1>4, <2>2 DEF Is
    <3>2. CASE o = NewObj
      BY <1>3, <3>1, <3>2
    <3>3. CASE o = Cached(i)
      BY <1>3, <2>2, <3>1, <3>3
    <3>4. CASE o \notin {NewObj, Cached(i)}
      BY <1>3, <2>1, <2>2, <3>1, <3>4 DEF Aliased
    <3> QED
      BY <3>2, <3>3, <3>4
  <2>3. k \in jobs' /\ i \in k.uncache /\ NewObj \in k.ents
    BY <1>1, <1>2
  <2>4. PICK o \in Objs : o = NewObj
    BY <1>3
  <2>5. heap'[o] # Nil
    BY <1>3, <2>3, <2>4 DEF Refd
  <2>6. heap'[o].id = i /\ ~heap'[o].no_save
    BY <1>3, <1>4, <2>4, <2>5
  <2>7. Is(o, i)'
    BY <1>3, <2>4, <2>5, <2>6 DEF Is
  <2>8. SavedBy(k, i)'
    BY <2>3, <2>4, <2>6, <2>7 DEF SavedBy
  <2> QED
    BY <2>2, <2>3, <2>8
<1>9. DropsGone'
  BY <1>1, <1>2 DEF HistInv, DropsGone
<1>10. \A g \in Groups : GroupUntouched(g)
  BY <1>1, <1>2, <1>5, GroupsUntouched
<1>11. PICK ts : ts = {i}
  OBVIOUS
<1>12. /\ record' = record /\ \A j \in jobs : j \in jobs'
       /\ \A y \in Ids : y \notin ts =>
            (y \in deleted' <=> y \in deleted) /\ replaced'[y] = replaced[y]
       /\ \A o \in Objs : \/ heap'[o] = heap[o]
                          \/ heap'[o] = Nil
                          \/ heap'[o].id \in ts /\ (heap[o] = Nil \/ heap[o].id \in ts)
       /\ \A y \in Ids : y \in ts => DelId(y)' /\ ReplId(y)' /\ (HeapKept \/ Coherent(y)')
  <2>1. \A o \in Objs : \/ heap'[o] = heap[o]
                        \/ heap'[o] = Nil
                        \/ heap'[o].id = i /\ (heap[o] = Nil \/ heap[o].id = i)
    BY <1>3, <1>4
  <2>2. \A y \in Ids : y \in ts => y = i
    BY <1>11
  <2> QED
    BY <1>1, <1>6, <1>7, <1>8, <1>11, <2>1, <2>2
<1> QED
  BY <1>5, <1>9, <1>10, <1>12, OperationHistory

\* BatchDeleteGroups keeps it, and establishes it of the group.
LEMMA BatchDeleteGroupsHistory ==
  ASSUME Typed, HistInv, Typed', Refd', NEW g \in Groups, BatchDeleteGroups(g)
  PROVE  HistInv'
<1>1. PICK k : /\ k = [NewJob EXCEPT !.dropGroups = {g}]
               /\ groups' = groups \ {g} /\ jobs' = jobs \cup {k} /\ deleted' = deleted \cup {g}
               /\ spoiled' = [spoiled EXCEPT !["inHand"] = @ \cup
                                {h \in {g} : \E j \in jobs : h \in j.groups}]
               /\ UNCHANGED <<record, groupRec, heap, replaced>>
  BY DEF BatchDeleteGroups, RunOnNewThread, Spoil, diskVars
<1>2. k.groups = {} /\ k.drop = {} /\ k.dropGroups = {g}
  <2>1. {g} \in SUBSET Groups
    OBVIOUS
  <2> QED
    BY <1>1, <2>1, GroupDroppingJob
<1>3. /\ \A s \in Spoilers : spoiled[s] \subseteq spoiled'[s]
      /\ (\E j \in jobs : g \in j.groups) => g \in spoiled'["inHand"]
  BY <1>1 DEF Typed, Spoilers
<1>4. DelGroup(g)'
  BY <1>1, <1>2, <1>3 DEF DelGroup, Excused
<1>5. ASSUME NEW f \in Groups, f # g PROVE GroupUntouched(f)
  <2>1. Excused(f) => Excused(f)'
    BY <1>3 DEF Excused, Spoilers
  <2> QED
    BY <1>1, <1>2, <1>5, <2>1 DEF GroupUntouched
<1>6. DropsGone'
  BY <1>1, <1>2 DEF HistInv, DropsGone
<1>7. PICK ts : ts = {}
  OBVIOUS
<1>8. /\ record' = record /\ \A j \in jobs : j \in jobs'
      /\ \A i \in Ids : i \notin ts =>
           (i \in deleted' <=> i \in deleted) /\ replaced'[i] = replaced[i]
      /\ \A o \in Objs : \/ heap'[o] = heap[o]
                         \/ heap'[o] = Nil
                         \/ heap'[o].id \in ts /\ (heap[o] = Nil \/ heap[o].id \in ts)
      /\ \A i \in Ids : i \in ts => DelId(i)' /\ ReplId(i)' /\ (HeapKept \/ Coherent(i)')
  BY <1>1, <1>7, Nothing
<1>9. \A f \in Groups : GroupUntouched(f) \/ DelGroup(f)'
  BY <1>4, <1>5
<1> QED
  BY <1>3, <1>6, <1>8, <1>9, OperationHistory

\* AddProfileBatch keeps it: the new ids are nobody's, and no thread drops them, by Bounds.
LEMMA AddHistory ==
  ASSUME Typed, HistInv, ListInv, Typed', Refd', NEW ks \in SUBSET Keys, NEW g \in Groups,
         AddProfileBatch(ks, g)
  PROVE  HistInv'
<1>0. PICK news, es, h, k : Adding(ks, g, news, es, h, k)
  BY AddingIs
<1>1. /\ news \in SUBSET Ids /\ g \in groups /\ jobs' = jobs \cup {k} /\ deleted' = deleted \ news
      /\ replaced' = [i \in Ids |-> IF i \in news THEN Nil ELSE replaced[i]]
      /\ spoiled' = [spoiled EXCEPT !["reused"] = @ \cup {i \in news : ListedBack(i)}]
      /\ UNCHANGED <<record, groupRec, groups>> /\ Collect(h)
      /\ k.groups = {g} /\ k.drop = {}
  BY <1>0 DEF Adding
<1>2. /\ \A o \in Objs : h[o] = heap[o] \/ h[o].id \in news
      /\ \A o \in Objs : h[o] = heap[o] \/ o = cached'[h[o].id]
      /\ \A o \in Objs : heap[o] # Nil => h[o] = heap[o]
      /\ \A x \in news : x > max_profile_id
  BY <1>0 DEF Adding
<1>3. \A o \in Objs : heap'[o] = h[o] \/ heap'[o] = Nil
  BY <1>1, HeapIs
<1>4. \A s \in Spoilers : spoiled[s] \subseteq spoiled'[s]
  BY <1>1 DEF Typed, Spoilers
<1>5. ASSUME NEW i \in Ids, i \in news PROVE DelId(i)' /\ ReplId(i)' /\ Coherent(i)'
  <2>1. ~There(i)
    BY <1>2, <1>5, Nothing DEF ListInv, Bounds, Typed
  <2>2. \A o \in Objs : Is(o, i)' => o = cached'[i]
    BY <1>2, <1>3, <2>1 DEF There, Is
  <2>3. OneContent(i)' /\ AsOnDisk(i)'
    BY <1>1, <2>1, <2>2 DEF OneContent, AsOnDisk, Savable, There
  <2> QED
    BY <1>1, <1>5, <2>3 DEF DelId, ReplId, Coherent
<1>6. \A j \in jobs : \A i \in j.drop : i \notin news
  <2>1. ASSUME NEW j \in jobs, NEW i \in j.drop PROVE i \notin news
    <3>1. i <= max_profile_id /\ i \in Nat /\ max_profile_id \in Nat
      BY Nothing DEF ListInv, Bounds, Typed, IsJob
    <3> QED
      BY <1>2, <3>1
  <2> QED
    BY <2>1
<1>7. DropsGone'
  BY <1>1, <1>6 DEF HistInv, DropsGone
<1>8. \A f \in Groups : GroupUntouched(f)
  BY <1>1, <1>4, GroupsUntouched
<1>9. /\ record' = record /\ \A j \in jobs : j \in jobs'
      /\ \A i \in Ids : i \notin news =>
           (i \in deleted' <=> i \in deleted) /\ replaced'[i] = replaced[i]
      /\ \A o \in Objs : \/ heap'[o] = heap[o]
                         \/ heap'[o] = Nil
                         \/ heap'[o].id \in news /\ (heap[o] = Nil \/ heap[o].id \in news)
  BY <1>1, <1>2, <1>3
<1> QED
  BY <1>4, <1>5, <1>7, <1>8, <1>9, OperationHistory

\* BatchDeleteProfiles keeps it, and establishes it of the profiles: they leave both caches, so
\* that nobody has an object unless it was in hand.
LEMMA DeleteHistory ==
  ASSUME Typed, Refd, HistInv, Typed', Refd', NEW ids \in SUBSET Ids, NEW unlist \in BOOLEAN,
         BatchDeleteProfiles(ids, unlist)
  PROVE  HistInv'
<1>0. PICK dels, k : Deleting(ids, unlist, dels, k)
  BY DeletingIs
<1>1. /\ dels \in SUBSET Ids
      /\ cached' = Uncached(cached, dels) /\ weak' = Uncached(weak, dels)
      /\ (jobs' = jobs /\ dels = {}) \/ jobs' = jobs \cup {k}
      /\ deleted' = deleted \cup dels
      /\ spoiled' = [spoiled EXCEPT !["inHand"] = @ \cup {i \in dels : InHand(i)}]
      /\ UNCHANGED <<record, groupRec, groups, held, replaced>>
      /\ Collect(heap)
  BY <1>0 DEF Deleting
<1>2. k.groups \subseteq groups /\ k.ents = {} /\ k.write = Nil /\ k.drop = dels
  BY <1>0 DEF Deleting, From
<1>3. \A o \in Objs : heap'[o] = heap[o] \/ heap'[o] = Nil
  BY <1>1, HeapIs
<1>4. /\ \A s \in Spoilers : spoiled[s] \subseteq spoiled'[s]
      /\ \A i \in dels : InHand(i) => i \in spoiled'["inHand"]
  BY <1>1 DEF Typed, Spoilers
<1>4a. HeapKept
  BY <1>3 DEF HeapKept
<1>5. ASSUME NEW i \in Ids, i \in dels PROVE DelId(i)' /\ ReplId(i)'
  <2> SUFFICES ASSUME ~Excused(i)'
               PROVE  /\ \A o \in Objs : ~Is(o, i)'
                      /\ \E j \in jobs' : i \in j.drop
    BY <1>1, <1>5 DEF DelId, ReplId
  <2>1. ~InHand(i)
    BY <1>4, <1>5 DEF Excused
  <2>2. ASSUME NEW o \in Objs, Is(o, i)' PROVE FALSE
    <3>1. heap[o] # Nil /\ heap[o].id = i /\ heap'[o] # Nil /\ o # Nil
      BY <1>3, <2>2 DEF Is
    <3>2. o \in Refs'
      BY <1>1, <3>1 DEF Collect
    <3>3. ASSUME NEW y \in Ids, o = cached'[y] \/ o = weak'[y] PROVE FALSE
      <4>1. y \notin dels /\ (o = cached[y] \/ o = weak[y])
        BY <1>1, <3>1, <3>3 DEF Uncached, Typed
      <4> QED
        BY <1>5, <3>1, <4>1 DEF Refd, Is
    <3>4. CASE o = held'.obj
      BY <1>1, <2>1, <3>1, <3>4 DEF InHand
    <3>5. ASSUME NEW j \in jobs', o \in j.ents \cup {j.write} PROVE FALSE
      BY <1>1, <1>2, <2>1, <3>1, <3>5 DEF InHand
    <3> QED
      BY <3>2, <3>3, <3>4, <3>5 DEF Refs
  <2>3. k \in jobs' /\ i \in k.drop
    BY <1>1, <1>2, <1>5
  <2> QED
    BY <2>2, <2>3
<1>6. DropsGone'
  BY <1>1, <1>2 DEF HistInv, DropsGone
<1>7. \A g \in Groups : GroupUntouched(g)
  <2>1. \A g \in Groups : g \in deleted' => g \in deleted
    BY <1>1, Nothing
  <2> QED
    BY <1>1, <1>2, <1>4, <2>1, GroupsUntouched
<1>8. /\ record' = record /\ \A j \in jobs : j \in jobs'
      /\ \A i \in Ids : i \notin dels =>
           (i \in deleted' <=> i \in deleted) /\ replaced'[i] = replaced[i]
      /\ \A o \in Objs : \/ heap'[o] = heap[o]
                         \/ heap'[o] = Nil
                         \/ heap'[o].id \in dels /\ (heap[o] = Nil \/ heap[o].id \in dels)
  BY <1>1, <1>3
<1> QED
  BY <1>4, <1>4a, <1>5, <1>6, <1>7, <1>8, OperationHistory

\* An exit with no thread under way, and LoadManager, keep it: what was excepted is forgiven.
LEMMA RestartHistory ==
  ASSUME Typed, HistInv, Restart(FALSE), jobs = {}
  PROVE  HistInv'
<1> DEFINE past == Ids \cap (spoiled["inHand"] \cup spoiled["askedLate"] \cup spoiled["aliased"])
<1>1. /\ groups' = {g \in Groups : groupRec[g] # NoRecord}
      /\ heap' = [o \in Objs |-> Nil] /\ jobs' = {}
      /\ deleted' = deleted \ past
      /\ replaced' = [i \in Ids |-> IF i \in past THEN Nil ELSE replaced[i]]
      /\ spoiled' = [s \in Spoilers |->
           CASE s = "torn" -> spoiled[s]
             [] s \in {"moved", "reused"} -> spoiled[s]
             [] OTHER -> spoiled[s] \ past]
      /\ UNCHANGED <<record, groupRec>>
  BY DEF Restart, Forgive, diskVars
<1>2. \A s \in {"inHand", "askedLate", "aliased"} : spoiled'[s] = spoiled[s] \ past
  BY <1>1 DEF Spoilers
<1>3. \A i \in Ids : \A o \in Objs : ~Is(o, i)'
  BY <1>1 DEF Is
<1>4. ASSUME NEW i \in Ids PROVE DelId(i)'
  BY <1>1, <1>2, <1>3 DEF HistInv, DelId, Excused
<1>5. ASSUME NEW i \in Ids PROVE ReplId(i)'
  <2> SUFFICES ASSUME replaced'[i] # Nil, i \notin deleted', i \notin spoiled'["aliased"]
               PROVE  NewOnDisk(i)'
    BY <1>3 DEF ReplId
  <2>1. i \notin past /\ replaced'[i] = replaced[i]
    BY <1>1
  <2>2. NewOnDisk(i)
    BY <1>1, <1>2, <2>1 DEF HistInv, ReplId
  <2> QED
    BY <1>1, <2>1, <2>2 DEF NewOnDisk
<1>6. ASSUME NEW g \in Groups PROVE DelGroup(g)'
  <2>1. g \notin past
    BY Nothing
  <2> HIDE DEF past
  <2> QED
    BY <1>1, <1>2, <2>1 DEF HistInv, DelGroup, Excused
<1> QED
  BY <1>1, <1>3, <1>4, <1>5, <1>6 DEF HistInv, DropsGone, Coherent, OneContent, AsOnDisk, Savable

-----------------------------------------------------------------------------
(* The invariant of the history holds.                                     *)

\* Nothing was deleted or replaced at first.
LEMMA InitHistory ==
  ASSUME Init
  PROVE  HistInv
<1>1. jobs = {} /\ deleted = {} /\ replaced = [i \in Ids |-> Nil]
  BY Zenon DEF Init, DbInit
<1>2. PICK c \in Keys : /\ \A o \in Objs : heap[o] # Nil => heap[o].key = c /\ ~heap[o].no_save
                       /\ \A i \in Ids : record[i] # NoRecord => record[i].key = c
  BY InitKeeps
<1>3. \A i \in Ids : Coherent(i)
  BY <1>2 DEF Coherent, OneContent, AsOnDisk, Savable, Is
<1> QED
  BY <1>1, <1>3 DEF HistInv, DelId, ReplId, DelGroup, DropsGone

\* Every step keeps HistInv, until an exit is torn.
LEMMA HistNext ==
  ASSUME SubInv, SubInv', spoiled["torn"] = {}, spoiled'["torn"] = {}, HistInv, [Next]_vars
  PROVE  HistInv'
<1>1. /\ Typed /\ Refd /\ ListInv /\ Kinds /\ UpdTyped
      /\ Typed' /\ Refd'
  BY DEF SubInv, Kinds
<1>2. ASSUME DatabaseStays \/ ClearList PROVE HistInv'
  BY <1>1, <1>2, StaysHistory
<1>3. ASSUME NEW ks \in SUBSET Keys, NEW g \in Groups, AddProfileBatch(ks, g) PROVE HistInv'
  BY <1>1, <1>3, AddHistory
<1>4. ASSUME NEW ids \in SUBSET Ids, NEW unlist \in BOOLEAN, BatchDeleteProfiles(ids, unlist)
      PROVE  HistInv'
  BY <1>1, <1>4, DeleteHistory
<1>5. ASSUME NEW i \in Ids, HolderGets(i) PROVE HistInv'
  BY <1>1, <1>5, HolderGetsHistory
<1>6. ASSUME NEW i \in Ids, NEW g \in Groups, MoveProfileBatch(i, g) PROVE HistInv'
  BY <1>1, <1>6, MoveHistory
<1>7. ASSUME NEW i \in Ids, NEW k \in Keys, ReplaceProfile(i, k) PROVE HistInv'
  BY <1>1, <1>7, ReplaceHistory
<1>8. ASSUME NEW g \in Groups, BatchDeleteGroups(g) PROVE HistInv'
  BY <1>1, <1>8, BatchDeleteGroupsHistory
<1>9. ASSUME NEW g \in Groups, DropNulls(g) PROVE HistInv'
  BY <1>1, <1>9, DropNullsHistory
<1>10. ASSUME SaveGroup PROVE HistInv'
  BY <1>1, <1>10, SaveGroupHistory
<1>11. ASSUME NEW j \in jobs, JobStep(j) PROVE HistInv'
  <2>1. ASSUME NEW g \in Groups, JobSavesGroup(j, g) PROVE HistInv'
    BY <1>1, <2>1, JobSavesGroupHistory
  <2>2. ASSUME NEW o \in Objs, JobUncaches(j, o) PROVE HistInv'
    BY <1>1, <2>2, JobUncachesHistory
  <2>3. CASE JobWrites(j)
    BY <1>1, <2>3, JobWritesHistory
  <2>4. CASE JobEnds(j)
    BY <1>1, <2>4, JobEndsHistory
  <2> QED
    BY <1>11, <2>1, <2>2, <2>3, <2>4 DEF JobStep
<1>12. ASSUME HolderStep \/ \E i \in Ids : Evict(i) PROVE HistInv'
  BY <1>1, <1>12, HolderHistory, HolderWritesHistory DEF HolderStep
<1>13. ASSUME Exit PROVE HistInv'
  <2>1. ~HalfSaved
    <3>1. HalfSaved => spoiled'["torn"] = Ids \cup Groups
      BY <1>13 DEF Exit, Restart, Forgive, Spoilers
    <3>2. 1 \in Ids
      BY DatabaseAssumption DEF Ids
    <3> QED
      BY <3>1, <3>2
  <2>2. Restart(FALSE) /\ jobs = {}
    BY <1>13, <2>1 DEF Exit, Restart, Forgive, HalfSaved
  <2> QED
    BY <1>1, <2>2, RestartHistory
<1>14. ASSUME DatabaseStep PROVE HistInv'
  BY <1>2, <1>3, <1>4, <1>5, <1>6, <1>7, <1>8, <1>9, <1>10, <1>11, <1>12, <1>13, <1>14
  DEF DatabaseStep
<1>15. CASE Next
  BY <1>1, <1>14, <1>15, StepIs
<1>16. CASE UNCHANGED vars
  BY <1>2, <1>16 DEF vars, dbVars, diskVars, memVars, histVars, DatabaseStays
<1> QED
  BY <1>15, <1>16

\* And what holds of the history until then.
FullInv == SubInv /\ (spoiled["torn"] = {} => HistInv)

\* FullInv is an invariant.
THEOREM FullInvHolds == Spec => []FullInv
<1>1. Init => FullInv
  BY SubInit, InitHistory DEF FullInv
<1>2. FullInv /\ [Next]_vars => FullInv'
  <2> SUFFICES ASSUME FullInv, [Next]_vars PROVE FullInv'
    OBVIOUS
  <2>1. SubInv /\ SubInv'
    BY SubNext DEF FullInv
  <2>2. ASSUME spoiled'["torn"] = {} PROVE HistInv'
    <3>1. spoiled["torn"] = {}
      <4>1. spoiled'["torn"] \in {spoiled["torn"], Ids \cup Groups}
        <5>1. CASE Next
          BY <2>1, <5>1, TornStays DEF SubInv
        <5>2. CASE UNCHANGED vars
          BY <5>2 DEF vars, dbVars, histVars
        <5> QED
          BY <5>1, <5>2
      <4>2. 1 \in Ids
        BY DatabaseAssumption DEF Ids
      <4> QED
        BY <2>2, <4>1, <4>2
    <3> QED
      BY <2>1, <2>2, <3>1, HistNext DEF FullInv
  <2> QED
    BY <2>1, <2>2 DEF FullInv
<1> QED
  BY <1>1, <1>2, PTL DEF Spec

\* Of what was not torn, HistInv speaks.
LEMMA NotTorn ==
  ASSUME FullInv, NEW x \in Ids \cup Groups, x \notin spoiled["torn"]
  PROVE  HistInv
  BY DEF FullInv, SubInv, TornKnown

\* Once the threads are done, a deleted profile or group has no record, by DelId and DelGroup.
LEMMA DeletedStaysIs == FullInv => DeletedStays
<1> SUFFICES ASSUME FullInv, Quiet, NEW x \in deleted,
                    x \notin UNION {spoiled[s] : s \in {"inHand", "askedLate", "torn"}}
             PROVE  IF x \in Groups THEN groupRec[x] = NoRecord ELSE record[x] = NoRecord
  BY DEF DeletedStays
<1>1. x \notin spoiled["inHand"] /\ x \notin spoiled["askedLate"] /\ x \notin spoiled["torn"]
  OBVIOUS
<1>2. x \in Ids \cup Groups
  BY DEF FullInv, SubInv, Kinds
<1>3. HistInv /\ jobs = {}
  BY <1>1, <1>2, NotTorn DEF Quiet
<1> QED
  BY <1>1, <1>2, <1>3 DEF HistInv, DelId, DelGroup, Excused

\* Once the replacing thread is done the record has the new content, by ReplId.
LEMMA ReplacedStaysIs == FullInv => ReplacedStays
<1> SUFFICES ASSUME FullInv, NEW i \in Ids \ (deleted \cup spoiled["aliased"] \cup spoiled["torn"]),
                    replaced[i] # Nil, \A j \in jobs : i \notin j.uncache
             PROVE  record[i] # NoRecord /\ record[i].key = replaced[i]
  BY DEF ReplacedStays
<1>1. HistInv
  BY NotTorn
<1> QED
  BY <1>1 DEF HistInv, ReplId, NewOnDisk

\* A deleted profile or group does not come back once the threads are done, outside the
\* named exceptions (Database.cpp:1118-1130, 995-1004, 1242-1253; ProxyEntity.cpp:107-113).
THEOREM DeletedGone == Spec => []DeletedStays
BY FullInvHolds, DeletedStaysIs, PTL

\* A replaced profile keeps its new content on disk ("it must not write itself back",
\* Database.cpp:1024), outside the named exceptions.
THEOREM ReplacedKept == Spec => []ReplacedStays
BY FullInvHolds, ReplacedStaysIs, PTL

-----------------------------------------------------------------------------
(* What an update leaves.                                                  *)

\* The objects of the caches may be saved, and so may one that is about to get there.
Clean ==
  /\ \A i \in Ids : cached[i] # Nil => ~heap[cached[i]].no_save
  /\ \A i \in Ids : weak[i] # Nil => ~heap[weak[i]].no_save
  /\ held.pc = "loaded" => /\ ~heap[held.obj].no_save
                           /\ \A i \in Ids : held.obj \notin {cached[i], weak[i]}

\* A step that makes no object, and puts none into a cache, keeps them so.
LEMMA CleanStays ==
  ASSUME Typed, Refd, Refd', Clean, HeapKept,
         \A i \in Ids : cached'[i] \in {cached[i], Nil} /\ weak'[i] \in {weak[i], Nil},
         held'.pc = "loaded" => held' = held
  PROVE  Clean'
<1>1. ASSUME NEW o \in Objs, heap[o] # Nil, heap'[o] # Nil PROVE heap'[o] = heap[o]
  BY <1>1 DEF HeapKept
<1>2. ASSUME NEW i \in Ids, cached'[i] # Nil PROVE ~heap'[cached'[i]].no_save
  <2>1. cached'[i] = cached[i] /\ cached[i] \in Objs
    BY <1>2 DEF Typed
  <2>2. heap[cached[i]] # Nil /\ heap'[cached[i]] # Nil
    BY <1>2, <2>1 DEF Refd, Is
  <2> QED
    BY <1>1, <1>2, <2>1, <2>2 DEF Clean
<1>3. ASSUME NEW i \in Ids, weak'[i] # Nil PROVE ~heap'[weak'[i]].no_save
  <2>1. weak'[i] = weak[i] /\ weak[i] \in Objs
    BY <1>3 DEF Typed
  <2>2. heap[weak[i]] # Nil /\ heap'[weak[i]] # Nil
    BY <1>3, <2>1 DEF Refd, Is
  <2> QED
    BY <1>1, <1>3, <2>1, <2>2 DEF Clean
<1>4. ASSUME held'.pc = "loaded"
      PROVE  /\ ~heap'[held'.obj].no_save
             /\ \A i \in Ids : held'.obj \notin {cached'[i], weak'[i]}
  <2>1. held' = held /\ held.pc = "loaded"
    BY <1>4
  <2>2. held.obj \in Objs /\ held.obj # Nil /\ heap[held.obj] # Nil /\ heap'[held.obj] # Nil
    BY <2>1 DEF Refd, Typed
  <2>3. heap'[held.obj] = heap[held.obj]
    BY <1>1, <2>2
  <2> QED
    BY <2>1, <2>2, <2>3 DEF Clean
<1> QED
  BY <1>2, <1>3, <1>4 DEF Clean

\* A GetProfile that reads the record makes an object of its own.
LEMMA HolderGetsClean ==
  ASSUME Typed, Refd, Refd', Clean, NEW i \in Ids, HolderGets(i)
  PROVE  Clean'
<1>1. /\ CanLoad(i) /\ Known(i) /\ UNCHANGED <<cached, weak>>
      /\ held' = [pc |-> IF Cached(i) = Nil THEN "loaded" ELSE "has", obj |-> Loaded(i)]
      /\ Collect([heap EXCEPT ![Loaded(i)] = GetProfile(i)])
  BY DEF HolderGets, CanLoad
<1>2. /\ Loaded(i) \in Objs
      /\ Cached(i) # Nil => Is(Loaded(i), i) /\ heap[Loaded(i)] = GetProfile(i)
      /\ Cached(i) = Nil => heap[Loaded(i)] = Nil /\ GetProfile(i) = FromRecord(i)
  BY <1>1, Loading
<1>3. /\ \A o \in Objs : o # Loaded(i) => heap'[o] = heap[o] \/ heap'[o] = Nil
      /\ heap'[Loaded(i)] \in {GetProfile(i), Nil}
  BY <1>1, <1>2 DEF Collect, Typed
<1>4. CASE Cached(i) # Nil
  <2>1. HeapKept
    BY <1>2, <1>3, <1>4 DEF HeapKept
  <2>2. held'.pc # "loaded"
    BY <1>1, <1>4
  <2> QED
    BY <1>1, <2>1, <2>2, CleanStays
<1>5. CASE Cached(i) = Nil
  <2>1. held'.pc = "loaded" /\ held'.obj = Loaded(i) /\ Loaded(i) # Nil
    BY <1>1, <1>2, <1>5, Nothing
  <2>2. ~heap'[held'.obj].no_save
    <3>1. heap'[Loaded(i)] # Nil
      BY <2>1 DEF Refd
    <3> QED
      BY <1>2, <1>3, <1>5, <2>1, <3>1 DEF FromRecord
  <2>3. ASSUME NEW x \in Ids, NEW o \in {cached[x], weak[x]}, o # Nil
        PROVE  o # Loaded(i) /\ heap'[o] = heap[o]
    <3>1. o \in Objs /\ heap[o] # Nil /\ heap'[o] # Nil
      BY <1>1, <2>3 DEF Typed, Refd, Is
    <3> QED
      BY <1>2, <1>3, <1>5, <3>1
  <2> QED
    BY <1>1, <2>1, <2>2, <2>3 DEF Clean
<1> QED
  BY <1>4, <1>5

\* The object that is read gets into weak_profiles.
LEMMA HolderCachesClean ==
  ASSUME Typed, Refd, Refd', Clean, HolderCaches
  PROVE  Clean'
<1>1. /\ held.pc = "loaded" /\ UNCHANGED cached /\ Collect(heap)
      /\ weak' = [weak EXCEPT ![heap[held.obj].id] = held.obj]
      /\ held' = [held EXCEPT !.pc = "has"]
  BY DEF HolderCaches
<1>2. held'.pc # "loaded"
  BY <1>1 DEF Typed
<1>3. \A o \in Objs : heap'[o] = heap[o] \/ heap'[o] = Nil
  BY <1>1, HeapIs
<1>4. \A x \in Ids : weak'[x] \in {weak[x], held.obj}
  BY <1>1 DEF Typed
<1>5. ASSUME NEW x \in Ids, NEW o \in {cached[x], weak'[x]}, o # Nil PROVE ~heap'[o].no_save
  <2>1. o \in Objs /\ heap'[o] # Nil
    BY <1>1, <1>4, <1>5 DEF Typed, Refd, Is
  <2> QED
    BY <1>1, <1>3, <1>4, <1>5, <2>1 DEF Clean
<1> QED
  BY <1>1, <1>2, <1>5 DEF Clean

\* A move changes the group of the cached object, or caches the one it reads.
LEMMA MoveClean ==
  ASSUME Typed, Refd, Refd', Clean, NEW i \in Ids, NEW g \in Groups, MoveProfileBatch(i, g)
  PROVE  Clean'
<1>1. /\ CanLoad(i) /\ Known(i) /\ UNCHANGED <<cached, held>>
      /\ weak' = [weak EXCEPT ![i] = IF cached[i] = Nil THEN Loaded(i) ELSE @]
      /\ Collect([heap EXCEPT ![Loaded(i)] = [GetProfile(i) EXCEPT !.gid = g]])
  BY DEF MoveProfileBatch, CanLoad
<1>2. /\ Loaded(i) \in Objs /\ Loaded(i) # Nil
      /\ Cached(i) # Nil => /\ Is(Loaded(i), i) /\ heap[Loaded(i)] = GetProfile(i)
                            /\ Loaded(i) \in {cached[i], weak[i]}
      /\ Cached(i) = Nil => heap[Loaded(i)] = Nil /\ GetProfile(i) = FromRecord(i)
      /\ GetProfile(i) \in Objects
  <2>1. Cached(i) # Nil => Loaded(i) \in {cached[i], weak[i]}
    BY DEF Loaded, Cached
  <2> QED
    BY <1>1, <2>1, Loading, KnownIs, Nothing
<1>3. PICK x : /\ x = [GetProfile(i) EXCEPT !.gid = g] /\ x.no_save = GetProfile(i).no_save
               /\ x.no_save \in BOOLEAN
  <2>1. PICK p \in Objects : p = GetProfile(i)
    BY <1>2
  <2>2. [p EXCEPT !.gid = g].no_save = p.no_save /\ p.no_save \in BOOLEAN
    BY DEF Objects
  <2> QED
    BY <2>1, <2>2
<1>4. /\ \A o \in Objs : o # Loaded(i) => heap'[o] = heap[o] \/ heap'[o] = Nil
      /\ heap'[Loaded(i)] \in {x, Nil}
  <2>1. Collect([heap EXCEPT ![Loaded(i)] = x])
    BY <1>1, <1>3, Zenon
  <2> QED
    BY <1>2, <2>1 DEF Collect, Typed
<1>5. ~x.no_save
  <2>1. CASE Cached(i) # Nil
    BY <1>2, <1>3, <2>1 DEF Clean
  <2>2. CASE Cached(i) = Nil
    BY <1>2, <1>3, <2>2 DEF FromRecord
  <2> QED
    BY <2>1, <2>2
<1>6. \A y \in Ids : weak'[y] \in {weak[y], Loaded(i)}
  BY <1>1 DEF Typed
<1>7. ASSUME NEW y \in Ids, NEW o \in {cached[y], weak'[y]}, o # Nil PROVE ~heap'[o].no_save
  <2>1. o \in {cached[y], weak[y], Loaded(i)}
    BY <1>6, <1>7
  <2>2. o \in Objs
    BY <1>2, <1>7, <2>1 DEF Typed
  <2>3. o \in {cached'[y], weak'[y]}
    BY <1>1, <1>7
  <2>4. heap'[o] # Nil
    BY <1>7, <2>3 DEF Refd, Is
  <2> QED
    BY <1>4, <1>5, <1>7, <2>1, <2>2, <2>4 DEF Clean
<1>8. ASSUME held.pc = "loaded"
      PROVE  ~heap'[held.obj].no_save /\ \A y \in Ids : held.obj \notin {cached[y], weak'[y]}
  <2>1. held.obj \in Objs /\ held.obj # Nil /\ heap[held.obj] # Nil /\ heap'[held.obj] # Nil
    BY <1>1, <1>8 DEF Typed, Refd
  <2>2. held.obj # Loaded(i)
    BY <1>2, <1>8, <2>1 DEF Clean
  <2> QED
    BY <1>4, <1>6, <1>8, <2>1, <2>2 DEF Clean
<1> QED
  BY <1>1, <1>7, <1>8 DEF Clean

\* A replacement takes the object it silences out of both caches.
LEMMA ReplaceClean ==
  ASSUME Typed, Refd, Refd', Clean, NEW i \in Ids, NEW c \in Keys, ReplaceProfile(i, c)
  PROVE  Clean'
<1>0. PICK h, k : Replacing(i, c, h, k)
  BY ReplacingIs
<1>1. /\ weak' = [weak EXCEPT ![i] = Nil] /\ cached' = [cached EXCEPT ![i] = NewObj]
      /\ UNCHANGED held /\ Collect(h)
      /\ NewObj \in Objs /\ NewObj # Nil /\ heap[NewObj] = Nil /\ ~h[NewObj].no_save
      /\ \A o \in Objs : o \notin {NewObj, Cached(i)} => h[o] = heap[o]
      /\ \A o \in Objs : o = Cached(i) => heap[o].id = i
  BY <1>0 DEF Replacing
<1>2. \A o \in Objs : heap'[o] = h[o] \/ heap'[o] = Nil
  BY <1>1, HeapIs
<1>3. /\ \A x \in Ids : cached'[x] = IF x = i THEN NewObj ELSE cached[x]
      /\ \A x \in Ids : weak'[x] = IF x = i THEN Nil ELSE weak[x]
  BY <1>1 DEF Typed
<1>4. heap'[NewObj] # Nil
  BY <1>1, <1>3 DEF Refd, Is
<1>5. ASSUME NEW x \in Ids, x # i, NEW o \in {cached[x], weak[x]}, o # Nil
      PROVE  ~heap'[o].no_save
  <2>1. o \in Objs /\ Is(o, x) /\ heap'[o] # Nil
    BY <1>3, <1>5 DEF Typed, Refd, Is
  <2>2. o \notin {NewObj, Cached(i)}
    BY <1>1, <1>5, <2>1 DEF Is
  <2> QED
    BY <1>1, <1>2, <1>5, <2>1, <2>2 DEF Clean
<1>6. ASSUME held.pc = "loaded"
      PROVE  ~heap'[held.obj].no_save /\ \A x \in Ids : held.obj \notin {cached'[x], weak'[x]}
  <2>1. held.obj \in Objs /\ held.obj # Nil /\ heap[held.obj] # Nil /\ heap'[held.obj] # Nil
    BY <1>1, <1>6 DEF Typed, Refd
  <2>2. held.obj \notin {NewObj, Cached(i)}
    BY <1>1, <1>6, <2>1 DEF Clean, Cached
  <2> QED
    BY <1>1, <1>2, <1>3, <1>6, <2>1, <2>2 DEF Clean
<1> QED
  BY <1>1, <1>2, <1>3, <1>4, <1>5, <1>6 DEF Clean

\* An addition caches what it makes.
LEMMA AddClean ==
  ASSUME Typed, Refd, ListInv, Refd', Clean, NEW ks \in SUBSET Keys, NEW g \in Groups,
         AddProfileBatch(ks, g)
  PROVE  Clean'
<1>0. PICK news, es, h, k : Adding(ks, g, news, es, h, k)
  BY AddingIs
<1>1. /\ news \in SUBSET Ids /\ UNCHANGED <<weak, held>> /\ Collect(h)
      /\ \A o \in Objs : heap[o] # Nil => h[o] = heap[o]
      /\ \A x \in news : /\ cached'[x] \in Objs /\ cached'[x] # Nil
                         /\ h[cached'[x]].id = x /\ ~h[cached'[x]].no_save
                         /\ x > max_profile_id
      /\ \A x \in Ids : x \notin news => cached'[x] = cached[x]
  BY <1>0 DEF Adding
<1>2. \A o \in Objs : heap'[o] = h[o] \/ heap'[o] = Nil
  BY <1>1, HeapIs
<1>3. \A x \in news : ~There(x)
  BY <1>1, Nothing DEF ListInv, Bounds, Typed
<1>4. ASSUME NEW o \in Objs, heap[o] # Nil
      PROVE  /\ \A x \in news : o # cached'[x]
             /\ heap'[o] # Nil => heap'[o] = heap[o]
  <2>1. o # Nil
    BY Nothing
  <2>2. \A x \in news : o # cached'[x]
    BY <1>1, <1>3, <1>4, <2>1 DEF There, Is
  <2> QED
    BY <1>1, <1>2, <1>4, <2>2
<1>5. ASSUME NEW x \in Ids, NEW o \in {cached'[x], weak[x]}, o # Nil PROVE ~heap'[o].no_save
  <2>1. o \in Objs /\ heap'[o] # Nil
    BY <1>1, <1>5 DEF Typed, Refd, Is
  <2>2. CASE x \in news /\ o = cached'[x]
    BY <1>1, <1>2, <2>1, <2>2
  <2>3. CASE ~(x \in news /\ o = cached'[x])
    <3>1. o \in {cached[x], weak[x]}
      BY <1>1, <1>5, <2>3
    <3>2. heap[o] # Nil
      BY <1>5, <3>1 DEF Refd, Is
    <3> QED
      BY <1>4, <1>5, <2>1, <3>1, <3>2 DEF Clean
  <2> QED
    BY <2>2, <2>3
<1>6. ASSUME held.pc = "loaded"
      PROVE  ~heap'[held.obj].no_save /\ \A x \in Ids : held.obj \notin {cached'[x], weak[x]}
  <2>1. held.obj \in Objs /\ held.obj # Nil /\ heap[held.obj] # Nil /\ heap'[held.obj] # Nil
    BY <1>1, <1>6 DEF Typed, Refd
  <2> QED
    BY <1>1, <1>4, <1>6, <2>1 DEF Clean
<1> QED
  BY <1>1, <1>5, <1>6 DEF Clean

\* Every step keeps Clean.
LEMMA CleanNext ==
  ASSUME Typed, Refd, ListInv, Refd', Clean, DatabaseStep
  PROVE  Clean'
<1> DEFINE Uncaching == \A i \in Ids : cached'[i] \in {cached[i], Nil} /\ weak'[i] \in {weak[i], Nil}
<1>1. ASSUME Collect(heap) \/ heap' = heap PROVE HeapKept
  BY <1>1, HeapIs DEF HeapKept
<1>2. ASSUME NEW ids \in SUBSET Ids, NEW unlist \in BOOLEAN, BatchDeleteProfiles(ids, unlist)
      PROVE  Clean'
  <2>1. PICK dels, k : Deleting(ids, unlist, dels, k)
    BY <1>2, DeletingIs
  <2>2. /\ cached' = Uncached(cached, dels) /\ weak' = Uncached(weak, dels)
        /\ Collect(heap) /\ held' = held
    BY <2>1 DEF Deleting
  <2>3. Uncaching
    BY <2>2 DEF Uncached, Typed
  <2> QED
    BY <1>1, <2>2, <2>3, CleanStays
<1>3. ASSUME NEW g, DatabaseStays \/ BatchDeleteGroups(g) \/ DropNulls(g) \/ ClearList \/ SaveGroup
      PROVE  Clean'
  <2>1. UNCHANGED <<heap, cached, weak, held>>
    BY <1>3 DEF DatabaseStays, BatchDeleteGroups, DropNulls, ClearList, SaveGroup, memVars
  <2> QED
    BY <1>1, <2>1, CleanStays
<1>4. ASSUME NEW j \in jobs, JobStep(j) PROVE Clean'
  <2>1. (Collect(heap) \/ heap' = heap) /\ held' = held
    BY <1>4 DEF JobStep, JobSavesGroup, JobUncaches, JobWrites, JobEnds, memVars
  <2>2. Uncaching
    BY <1>4 DEF JobStep, JobSavesGroup, JobUncaches, JobWrites, JobEnds, memVars, Forget, Uncached,
       Typed
  <2> QED
    BY <1>1, <2>1, <2>2, CleanStays
<1>5. ASSUME HolderUncaches \/ HolderWrites \/ HolderLeaves \/ \E i \in Ids : Evict(i) PROVE Clean'
  <2>1. Collect(heap) /\ (held'.pc = "loaded" => held' = held)
    BY <1>5 DEF HolderUncaches, HolderWrites, HolderLeaves, Evict, NotHeld, Typed
  <2>2. Uncaching
    BY <1>5 DEF HolderUncaches, HolderWrites, HolderLeaves, Evict, Typed
  <2> QED
    BY <1>1, <2>1, <2>2, CleanStays
<1>6. ASSUME Exit PROVE Clean'
  <2>1. /\ cached' = [i \in Ids |-> Nil] /\ weak' = [i \in Ids |-> Nil]
        /\ held'.pc # "loaded" /\ heap' = [o \in Objs |-> Nil]
    BY <1>6 DEF Exit, Restart, NotHeld
  <2> QED
    BY <2>1 DEF Clean
<1> HIDE DEF Uncaching
<1> QED
  BY <1>2, <1>3, <1>4, <1>5, <1>6, HolderGetsClean, HolderCachesClean, MoveClean, ReplaceClean,
     AddClean DEF DatabaseStep, HolderStep

\* An update may rely on the profile.
Sound(i) == ~Spared(upd.gid, i) /\ i \notin spoiled["aliased"]
\* Whoever looks at the profile, now or later, finds content c.
Has(i, c) ==
  /\ \A o \in Objs : Savable(o, i) => heap[o].key = c
  /\ record[i] # NoRecord => record[i].key = c
  /\ record[i] = NoRecord => \A o \in Objs : Is(o, i) => ~heap[o].no_save
  /\ Live(i)
  /\ \A j \in jobs : i \notin j.drop
\* The profile is on disk, and no thread is going to drop it.
OnFile(i) == record[i] # NoRecord /\ \A j \in jobs : i \notin j.drop
\* The profiles K, and the contents that are still to be added, are those of the
\* subscription, each once.
Agreed(K) ==
  \E f \in [K -> Keys] :
    /\ \A i \in K : Has(i, f[i])
    /\ upd.sub = upd.content \cup {f[i] : i \in K}
    /\ \A i \in K : f[i] \notin upd.content
    /\ \A i, j \in K : f[i] = f[j] => i = j

\* The update has its answer, and nothing else changes the database.
Alone == upd.alone /\ upd.pc \in {"read", "clear", "save", "add", "drop", "finish"}
\* The profiles that the update is not going to drop.
Staying == members[upd.gid] \ upd.drop
\* The list has been read and compared.
Sorted ==
  /\ \A i \in members[upd.gid] \cup upd.drop : i <= max_profile_id
  /\ (\A i \in Staying : Sound(i)) => Agreed(Staying)
  /\ \A i \in members[upd.gid] \cap upd.drop : Sound(i) => OnFile(i)
\* The list has been changed.
Synced ==
  (\A i \in members[upd.gid] : Sound(i)) =>
    \E K \in SUBSET members[upd.gid] : members[upd.gid] \ K \subseteq {started_id} /\ Agreed(K)

\* How far an update has come.
Syncs ==
  /\ upd.pc \in {"idle", "begin", "fetch", "read", "clear"} => upd.drop = {}
  /\ Alone =>
       /\ held.pc = "none" /\ upd.gid \in groups
       /\ upd.pc = "read" => jobs = {}
       /\ upd.pc \in {"read", "clear"} => upd.sub = upd.content
       /\ upd.pc \in {"save", "add", "drop"} => Sorted
       /\ upd.pc \in {"drop", "finish"} => upd.content = {}
       /\ upd.pc = "finish" => Synced

\* A step leaves what is to be found of the profile, and starts no thread that drops it.
Leaves(i) == Same(i) /\ \A j \in jobs' : i \in j.drop => \E k \in jobs : i \in k.drop

\* A step that leaves a profile leaves its content.
LEMMA HasStays ==
  ASSUME Typed, NEW i \in Ids, NEW c, Has(i, c), Leaves(i)
  PROVE  Has(i, c)'
<1>1. /\ \A o \in Objs : Savable(o, i) => heap[o].key = c
      /\ record[i] # NoRecord => record[i].key = c
      /\ record[i] = NoRecord => \A o \in Objs : Is(o, i) => ~heap[o].no_save
      /\ Live(i)
      /\ \A j \in jobs : i \notin j.drop
  BY DEF Has
<1>2. \A o \in Objs : Is(o, i)' => Is(o, i) /\ heap'[o] = heap[o]
  BY DEF Leaves, Same
<1>3. \A o \in Objs : Savable(o, i)' => heap'[o].key = c
  BY <1>1, <1>2 DEF Savable
<1>4. ASSUME NEW o \in Objs, WrittenFrom(o, i) PROVE record'[i] # NoRecord /\ record'[i].key = c
  <2>1. record'[i] = [key |-> heap[o].key, gid |-> heap[o].gid] /\ heap[o].key = c
    BY <1>1, <1>4 DEF WrittenFrom, Savable
  <2>2. heap[o].key \in Keys /\ heap[o].gid \in Groups
    BY <1>4 DEF WrittenFrom, Is, Typed, Objects
  <2> QED
    BY <2>1, <2>2, Nothing DEF Records
<1>5. record'[i] = record[i] \/ (record'[i] # NoRecord /\ record'[i].key = c)
  BY <1>1, <1>4 DEF Leaves, Same
<1>6. record'[i] = NoRecord => \A o \in Objs : Is(o, i)' => ~heap'[o].no_save
  BY <1>1, <1>2, <1>5
<1>7. Live(i)'
  <2>1. CASE record[i] # NoRecord
    BY <1>5, <2>1 DEF Live
  <2>2. ASSUME NEW j \in jobs, SavedBy(j, i) PROVE Live(i)'
    <3>1. (\E k \in jobs' : SavedBy(k, i)') \/ \E o \in Objs : WrittenFrom(o, i)
      BY <2>2 DEF Leaves, Same
    <3> QED
      BY <1>4, <3>1 DEF Live
  <2> QED
    BY <1>1, <2>1, <2>2 DEF Live
<1>8. \A j \in jobs' : i \notin j.drop
  BY <1>1 DEF Leaves
<1> QED
  BY <1>1, <1>3, <1>5, <1>6, <1>7, <1>8 DEF Has

\* And its record.
LEMMA OnFileStays ==
  ASSUME Typed, NEW i \in Ids, OnFile(i), Leaves(i)
  PROVE  OnFile(i)'
<1>1. ASSUME NEW o \in Objs, WrittenFrom(o, i) PROVE record'[i] # NoRecord
  <2>1. heap[o].key \in Keys /\ heap[o].gid \in Groups
    BY <1>1 DEF WrittenFrom, Is, Typed, Objects
  <2> QED
    BY <1>1, <2>1, Nothing DEF Records, WrittenFrom
<1>2. record'[i] # NoRecord
  BY <1>1 DEF OnFile, Leaves, Same
<1> QED
  BY <1>2 DEF OnFile, Leaves

\* Profiles that agree with the subscription do so after such a step.
LEMMA AgreedStays ==
  ASSUME Typed, NEW K \in SUBSET Ids, Agreed(K), \A i \in K : Leaves(i),
         upd'.sub = upd.sub, upd'.content = upd.content
  PROVE  Agreed(K)'
<1>1. PICK f \in [K -> Keys] :
        /\ \A i \in K : Has(i, f[i])
        /\ upd.sub = upd.content \cup {f[i] : i \in K}
        /\ \A i \in K : f[i] \notin upd.content
        /\ \A i, j \in K : f[i] = f[j] => i = j
  BY DEF Agreed
<1>2. \A i \in K : Has(i, f[i])'
  BY <1>1, HasStays
<1> QED
  BY <1>1, <1>2 DEF Agreed

\* What is unusual stays so.
LEMMA SoundShrinks ==
  ASSUME upd'.gid = upd.gid, \A s \in Spoilers : spoiled[s] \subseteq spoiled'[s],
         deleted \cap Groups \subseteq deleted'
  PROVE  \A i \in Ids : Sound(i)' => Sound(i)
  BY DEF Sound, Spared, Spoilers

\* A sound profile is plain, and the update's group was not deleted.
LEMMA SoundIs ==
  ASSUME upd.gid \in Groups, NEW i \in Ids, Sound(i)
  PROVE  Plain(i) /\ upd.gid \notin deleted /\ i \notin spoiled["aliased"]
  BY DEF Sound, Spared, Plain

\* What anybody sees of a profile that has a content is that content.
LEMMA ContentIs ==
  ASSUME Typed, Refd, Clean, NEW i \in Ids, NEW c, Has(i, c)
  PROVE  Content(i) = c
<1>1. CASE Known(i)
  <2>1. CASE Cached(i) # Nil
    <3>1. /\ Cached(i) \in Objs /\ Is(Cached(i), i) /\ GetProfile(i) = heap[Cached(i)]
      BY <1>1, <2>1, KnownIs
    <3>2. ~heap[Cached(i)].no_save
      BY <2>1 DEF Clean, Cached
    <3> QED
      BY <1>1, <3>1, <3>2 DEF Content, KeyOf, Has, Savable
  <2>2. CASE Cached(i) = Nil
    BY <1>1, <2>2, KnownIs DEF Content, KeyOf, Has, FromRecord
  <2> QED
    BY <2>1, <2>2
<1>2. CASE ~Known(i)
  <2> DEFINE S == {heap[o] : o \in Objs \ Free}
  <2>1. record[i] = NoRecord /\ \A o \in Objs : Is(o, i) => ~heap[o].no_save /\ heap[o].key = c
    BY <1>2 DEF Known, Has, Savable
  <2>2. PICK o \in Objs : Is(o, i)
    <3>1. PICK j \in jobs : SavedBy(j, i)
      BY <2>1 DEF Has, Live
    <3>2. PICK o \in j.ents \cup {j.write} : Is(o, i)
      BY <3>1 DEF SavedBy
    <3>3. o \in Objs
      BY <3>2 DEF Is, Typed, IsJob
    <3> QED
      BY <3>2, <3>3
  <2>3. heap[o] \in S /\ heap[o].id = i
    BY <2>2 DEF Is, Free
  <2>4. (CHOOSE x \in S : x.id = i) \in S /\ (CHOOSE x \in S : x.id = i).id = i
    BY <2>3
  <2>5. \A x \in S : x.id = i => x.key = c
    BY <2>1, Nothing DEF Is, Free
  <2>6. Content(i) = (CHOOSE x \in S : x.id = i).key
    BY <1>2, Zenon DEF Content
  <2> HIDE DEF S
  <2> QED
    BY <2>4, <2>5, <2>6
<1> QED
  BY <1>1, <1>2

\* Once the list is changed the group has what the subscription has.
LEMMA UpdateSyncsIs ==
  ASSUME Typed, Refd, Clean, Syncs, Kinds
  PROVE  UpdateSyncs
<1> SUFFICES ASSUME upd.pc = "finish", upd.alone,
                    \A i \in members[upd.gid] : ~Spared(upd.gid, i) /\ i \notin spoiled["aliased"],
                    NEW others, others = members[upd.gid] \ {started_id}
             PROVE  /\ {Content(i) : i \in others} \subseteq upd.sub
                    /\ upd.sub \subseteq {Content(i) : i \in members[upd.gid]}
                    /\ \A i, j \in others : Content(i) = Content(j) => i = j
  BY Zenon DEF UpdateSyncs, AtUpd
<1>1. Synced /\ upd.content = {}
  BY DEF Syncs, Alone
<1>2. members[upd.gid] \in SUBSET Ids
  BY DEF Kinds, UpdTyped
<1>3. PICK K \in SUBSET members[upd.gid] : members[upd.gid] \ K \subseteq {started_id} /\ Agreed(K)
  BY <1>1 DEF Synced, Sound
<1>4. PICK f \in [K -> Keys] :
        /\ \A i \in K : Has(i, f[i])
        /\ upd.sub = {f[i] : i \in K}
        /\ \A i, j \in K : f[i] = f[j] => i = j
  BY <1>1, <1>3 DEF Agreed
<1>5. \A i \in K : Content(i) = f[i]
  BY <1>2, <1>4, ContentIs
<1>6. others \subseteq K
  BY <1>3
<1> QED
  BY <1>4, <1>5, <1>6

\* Where the update goes.
UpdIs(p, c, d, s, a) ==
  /\ upd'.pc = p /\ upd'.gid = upd.gid /\ upd'.content = c /\ upd'.drop = d
  /\ upd'.sub = s /\ upd'.alone = a

\* The fields of the update after a step of it.
LEMMA UpdGoes ==
  ASSUME UpdTyped, NEW p, NEW c, NEW d, NEW s, NEW a,
         \/ upd' = [upd EXCEPT !.pc = p, !.content = c, !.drop = d, !.sub = s, !.alone = a]
         \/ upd' = [upd EXCEPT !.pc = p, !.content = c, !.sub = s, !.alone = a] /\ d = upd.drop
         \/ upd' = [upd EXCEPT !.pc = p, !.content = c, !.drop = d] /\ s = upd.sub /\ a = upd.alone
         \/ upd' = [upd EXCEPT !.pc = p, !.content = c]
              /\ d = upd.drop /\ s = upd.sub /\ a = upd.alone
         \/ upd' = [upd EXCEPT !.pc = p, !.drop = d]
              /\ c = upd.content /\ s = upd.sub /\ a = upd.alone
         \/ upd' = [upd EXCEPT !.pc = p, !.sub = s]
              /\ c = upd.content /\ d = upd.drop /\ a = upd.alone
         \/ upd' = [upd EXCEPT !.pc = p]
              /\ c = upd.content /\ d = upd.drop /\ s = upd.sub /\ a = upd.alone
         \/ upd' = [upd EXCEPT !.alone = a, !.sub = s]
              /\ p = upd.pc /\ c = upd.content /\ d = upd.drop
  PROVE  UpdIs(p, c, d, s, a)
<1>1. upd' = [pc |-> p, gid |-> upd.gid, content |-> c, drop |-> d, all |-> upd.all, sub |-> s,
              alone |-> a]
  BY DEF UpdTyped
<1> QED
  BY <1>1 DEF UpdIs

\* A step that changes no object, record or thread leaves every profile.
LEMMA LeavesAll ==
  ASSUME UNCHANGED <<record, heap, jobs>>, spoiled["aliased"] \subseteq spoiled'["aliased"]
  PROVE  \A i \in Ids : Leaves(i)
BY DEF Leaves, Same, SavedBy, Is

\* While an update is alone, a step that is not its own leaves it where it is.
LEMMA SyncsStays ==
  ASSUME Typed, UpdTyped, Kinds, Syncs, UNCHANGED upd,
         Alone => /\ UNCHANGED <<held, groups, members, max_profile_id, started_id, deleted, spoiled>>
                  /\ \A i \in Ids : Leaves(i)
                  /\ jobs = {} => jobs' = {}
  PROVE  Syncs'
<1>1. CASE ~Alone
  BY <1>1 DEF Syncs, Alone
<1>2. CASE Alone
  <2>1. /\ UNCHANGED <<held, groups, members, max_profile_id, started_id, deleted, spoiled>>
        /\ \A i \in Ids : Leaves(i)
        /\ jobs = {} => jobs' = {}
    BY <1>2
  <2>2. \A i \in Ids : Sound(i)' => Sound(i)
    BY <2>1, SoundShrinks
  <2>3. upd.gid \in Groups /\ members[upd.gid] \in SUBSET Ids
    BY <1>2 DEF Alone, UpdTyped, Typed
  <2>4. \A K \in SUBSET Ids : Agreed(K) => Agreed(K)'
    BY <2>1, AgreedStays
  <2>5. Sorted => Sorted'
    <3>1. PICK K \in SUBSET Ids : K = Staying
      BY <2>3 DEF Staying
    <3>2. Staying' = K
      BY <2>1, <3>1 DEF Staying
    <3> SUFFICES ASSUME Sorted PROVE Sorted'
      OBVIOUS
    <3>3. \A i \in members[upd.gid] \cup upd.drop : i <= max_profile_id
      BY DEF Sorted
    <3>4. (\A i \in K : Sound(i)') => Agreed(K)'
      BY <2>2, <2>4, <3>1 DEF Sorted
    <3>5. \A i \in members[upd.gid] \cap upd.drop : Sound(i)' => OnFile(i)'
      BY <2>1, <2>2, <2>3, OnFileStays DEF Sorted
    <3> QED
      BY <2>1, <3>2, <3>3, <3>4, <3>5 DEF Sorted
  <2>6. Synced => Synced'
    BY <2>1, <2>2, <2>3, <2>4 DEF Synced
  <2> QED
    BY <1>2, <2>1, <2>5, <2>6 DEF Syncs, Alone
<1> QED
  BY <1>1, <1>2

\* A profile that the group of an update lists, alone and with nobody saving, has its content
\* on disk, by Exists, and everywhere else, by Coherent.
LEMMA ListedHas ==
  ASSUME Typed, UpdTyped, Refd, ListInv, HistInv, Clean, upd.pc = "read", jobs = {},
         NEW i \in members[upd.gid], i \in Ids, Known(i), Sound(i)
  PROVE  OnFile(i) /\ Has(i, KeyOf(i)) /\ KeyOf(i) \in Keys
<1>1. upd.gid \in Groups /\ Plain(i) /\ upd.gid \notin deleted /\ i \notin spoiled["aliased"]
  BY SoundIs DEF UpdTyped
<1>2. record[i] # NoRecord
  <2>1. Live(i) \/ Clearing(upd.gid)
    BY <1>1 DEF ListInv, Exists
  <2> QED
    BY <2>1 DEF Live, Clearing
<1>3. record[i] \in Records /\ record[i].key \in Keys
  BY <1>2 DEF Typed, Records
<1>4. \A o \in Objs : Savable(o, i) => heap[o].key = record[i].key
  BY <1>1, <1>2 DEF HistInv, Coherent, AsOnDisk
<1>5. KeyOf(i) = record[i].key
  <2>1. CASE Cached(i) # Nil
    <3>1. Cached(i) \in Objs /\ Is(Cached(i), i) /\ GetProfile(i) = heap[Cached(i)]
      BY <2>1, KnownIs
    <3>2. ~heap[Cached(i)].no_save
      BY <2>1 DEF Clean, Cached
    <3> QED
      BY <1>4, <3>1, <3>2 DEF KeyOf, Savable
  <2>2. CASE Cached(i) = Nil
    BY <2>2, KnownIs DEF KeyOf, FromRecord
  <2> QED
    BY <2>1, <2>2
<1>6. Has(i, KeyOf(i))
  BY <1>2, <1>4, <1>5 DEF Has, Live
<1> QED
  BY <1>2, <1>3, <1>5, <1>6 DEF OnFile

\* Reading and comparing the list (GroupUpdater.cpp:1500-1521) sorts it.
LEMMA ReadListSyncs ==
  ASSUME Typed, UpdTyped, Refd, ListInv, HistInv, Clean, Syncs, ReadList
  PROVE  Syncs'
<1>1. PICK keep \in Kept(members[upd.gid]) :
        upd' = [upd EXCEPT !.pc = "save", !.drop = members[upd.gid] \ keep,
                           !.content = upd.content \ {KeyOf(i) : i \in keep}]
  BY Zenon DEF ReadList
<1>2. /\ upd.pc = "read" /\ UNCHANGED dbVars /\ \A i \in members[upd.gid] : Known(i)
  BY DEF ReadList, AtUpd
<1>3. PICK d, n : d = members[upd.gid] \ keep /\ n = upd.content \ {KeyOf(i) : i \in keep}
  OBVIOUS
<1>4. UpdIs("save", n, d, upd.sub, upd.alone)
  <2>1. upd' = [upd EXCEPT !.pc = "save", !.content = n, !.drop = d]
    <3>1. upd' = [upd EXCEPT !.pc = "save", !.drop = d, !.content = n]
      BY <1>1, <1>3, Zenon
    <3> QED
      BY <3>1 DEF UpdTyped
  <2> QED
    BY <2>1, UpdGoes
<1>5. CASE ~upd.alone
  BY <1>4, <1>5 DEF UpdIs, Syncs, Alone
<1>6. CASE upd.alone
  <2>1. /\ held.pc = "none" /\ upd.gid \in groups /\ jobs = {} /\ upd.sub = upd.content
    BY <1>2, <1>6 DEF Syncs, Alone
  <2>2. /\ members[upd.gid] \in SUBSET Ids /\ keep \subseteq members[upd.gid]
        /\ \A i \in keep : KeyOf(i) \in upd.content
        /\ \A i, j \in keep : KeyOf(i) = KeyOf(j) => i = j
    BY <1>2 DEF Kept, UpdTyped, Typed
  <2>3. UNCHANGED <<record, heap, held, groups, members, jobs, max_profile_id, deleted, spoiled>>
    BY <1>2 DEF dbVars, diskVars, memVars, histVars
  <2>4. ASSUME NEW i \in members[upd.gid], Sound(i)'
        PROVE  OnFile(i) /\ Has(i, KeyOf(i)) /\ KeyOf(i) \in Keys
    <3>1. Sound(i)
      BY <1>4, <2>3, <2>4 DEF Sound, Spared, UpdIs
    <3> QED
      BY <1>2, <2>1, <2>2, <3>1, ListedHas
  <2>5. \A i \in members[upd.gid] \cup d : i <= max_profile_id
    <3>1. ASSUME NEW i \in members[upd.gid] PROVE i <= max_profile_id
      <4>1. There(i) /\ i \in Ids
        BY <1>2, <2>2, KnownIs
      <4> QED
        BY <4>1 DEF ListInv, Bounds
    <3> QED
      BY <1>3, <3>1
  <2>6. ASSUME \A i \in keep : Sound(i)' PROVE Agreed(keep)'
    <3>0. PICK f : f = [i \in keep |-> KeyOf(i)]
      OBVIOUS
    <3>1. f \in [keep -> Keys]
      BY <2>2, <2>4, <2>6, <3>0
    <3>2. \A i \in keep : f[i] = KeyOf(i)
      BY <3>0
    <3>3. \A i \in keep : Has(i, f[i])'
      <4>1. \A i \in keep : Has(i, f[i])
        BY <2>2, <2>4, <2>6, <3>2
      <4> QED
        BY <2>3, <4>1 DEF Has, Savable, Live, SavedBy, Is
    <3>4. /\ upd.sub = n \cup {f[i] : i \in keep}
          /\ \A i \in keep : f[i] \notin n
          /\ \A i, j \in keep : f[i] = f[j] => i = j
      BY <1>3, <2>1, <2>2, <3>2
    <3> QED
      BY <1>4, <3>1, <3>3, <3>4 DEF Agreed, UpdIs
  <2>7. Staying' = keep
    BY <1>3, <1>4, <2>2, <2>3 DEF Staying, UpdIs
  <2>8. \A i \in members[upd.gid] \cap d : Sound(i)' => OnFile(i)'
    BY <2>3, <2>4 DEF OnFile
  <2>9. Sorted'
    BY <1>4, <2>3, <2>5, <2>6, <2>7, <2>8 DEF Sorted, UpdIs
  <2> QED
    BY <1>4, <2>1, <2>3, <2>9 DEF Syncs, Alone, UpdIs
<1> QED
  BY <1>5, <1>6

\* The answer comes: alone when nothing is being saved and nobody holds a profile.
LEMMA FetchedSyncs ==
  ASSUME UpdTyped, Syncs, NEW c \in SUBSET Keys, Fetched(c)
  PROVE  Syncs'
<1>1. PICK al \in BOOLEAN, s \in SUBSET Keys :
        /\ al = (upd.gid \in groups /\ jobs = {} /\ held.pc = "none")
        /\ s = IF al THEN c ELSE {}
        /\ upd' = [upd EXCEPT !.pc = "read", !.content = c, !.alone = al, !.sub = s]
  BY Zenon DEF Fetched
<1>2. upd.pc = "fetch" /\ UNCHANGED <<groups, jobs, held>>
  BY DEF Fetched, AtUpd, dbVars, memVars
<1>3. UpdIs("read", c, upd.drop, s, al)
  <2>1. upd' = [upd EXCEPT !.pc = "read", !.content = c, !.sub = s, !.alone = al]
    BY <1>1 DEF UpdTyped
  <2> QED
    BY <2>1, UpdGoes
<1>4. CASE ~al
  BY <1>2, <1>3, <1>4 DEF Syncs, Alone, UpdIs
<1>5. CASE al
  <2>1. held'.pc = "none" /\ upd.gid \in groups' /\ jobs' = {} /\ s = c
    BY <1>1, <1>2, <1>5
  <2> QED
    BY <1>2, <1>3, <2>1 DEF Syncs, Alone, UpdIs
<1> QED
  BY <1>1, <1>4, <1>5

\* With sub_clear the running profile is all that may be left of the list
\* (GroupUpdater.cpp:1489-1497).
LEMMA DeleteListSyncs ==
  ASSUME Typed, UpdTyped, Syncs, DeleteList
  PROVE  Syncs'
<1>1. /\ upd.pc = "read" /\ BatchDeleteProfiles(members[upd.gid], FALSE)
      /\ upd' = [upd EXCEPT !.pc = "clear"]
  BY DEF DeleteList, AtUpd, Goto
<1>2. UpdIs("clear", upd.content, upd.drop, upd.sub, upd.alone)
  BY <1>1, UpdGoes
<1>3. UNCHANGED <<groups, held>>
  BY <1>1 DEF BatchDeleteProfiles
<1> QED
  BY <1>1, <1>2, <1>3 DEF Syncs, Alone, UpdIs

\* An emptied list agrees with a subscription of which everything is still to be added.
LEMMA ClearListSyncs ==
  ASSUME Typed, UpdTyped, Syncs, ClearList
  PROVE  Syncs'
<1>1. /\ upd.pc = "clear" /\ members' = [members EXCEPT ![upd.gid] = {}]
      /\ UNCHANGED <<groups, held>> /\ upd' = [upd EXCEPT !.pc = "save"]
  BY DEF ClearList, AtUpd, Goto
<1>2. UpdIs("save", upd.content, upd.drop, upd.sub, upd.alone)
  BY <1>1, UpdGoes
<1>3. upd.gid \in Groups /\ upd.drop = {} /\ members'[upd.gid] = {}
  BY <1>1 DEF UpdTyped, Typed, Syncs
<1>4. ASSUME upd.alone PROVE Sorted'
  <2>1. upd.sub = upd.content
    BY <1>1, <1>4 DEF Syncs, Alone
  <2>2. Staying' = {} /\ upd'.sub = upd'.content \cup {}
    BY <1>2, <1>3, <2>1 DEF Staying, UpdIs
  <2>3. PICK f : f = [i \in {} |-> i]
    OBVIOUS
  <2>4. f \in [{} -> Keys] /\ {f[i] : i \in {}} = {}
    BY <2>3
  <2>5. Agreed({})'
    BY <2>2, <2>4 DEF Agreed
  <2> QED
    BY <1>2, <1>3, <2>2, <2>5 DEF Sorted, UpdIs
<1> QED
  BY <1>1, <1>2, <1>4 DEF Syncs, Alone, UpdIs

\* Saving the list changes no profile.
LEMMA SaveGroupSyncs ==
  ASSUME Typed, UpdTyped, Syncs, SaveGroup
  PROVE  Syncs'
<1>1. /\ upd.pc = "save" /\ upd' = [upd EXCEPT !.pc = "add"]
      /\ spoiled' = [spoiled EXCEPT !["inHand"] = @ \cup ({upd.gid} \cap deleted)]
      /\ UNCHANGED <<record, heap, jobs, groups, held, members, max_profile_id, deleted>>
  BY DEF SaveGroup, AtUpd, Goto, memVars
<1>2. UpdIs("add", upd.content, upd.drop, upd.sub, upd.alone)
  BY <1>1, UpdGoes
<1>3. /\ \A s \in Spoilers : spoiled[s] \subseteq spoiled'[s]
      /\ spoiled["aliased"] \subseteq spoiled'["aliased"]
  BY <1>1 DEF Typed, Spoilers
<1>4. \A i \in Ids : (Sound(i)' => Sound(i)) /\ Leaves(i)
  BY <1>1, <1>2, <1>3, SoundShrinks, LeavesAll DEF UpdIs
<1>5. upd.gid \in Groups /\ members[upd.gid] \in SUBSET Ids
  BY <1>1 DEF UpdTyped, Typed
<1>6. ASSUME upd.alone PROVE Sorted'
  <2>1. Sorted
    BY <1>1, <1>6 DEF Syncs, Alone
  <2>2. PICK K \in SUBSET Ids : K = Staying
    BY <1>5 DEF Staying
  <2>3. Staying' = K
    BY <1>1, <1>2, <2>2 DEF Staying, UpdIs
  <2>4. (\A i \in K : Sound(i)') => Agreed(K)'
    BY <1>2, <1>4, <2>1, <2>2, AgreedStays DEF Sorted, UpdIs
  <2>5. \A i \in members[upd.gid] \cap upd.drop : Sound(i)' => OnFile(i)'
    BY <1>4, <1>5, <2>1, OnFileStays DEF Sorted
  <2> QED
    BY <1>1, <1>2, <2>1, <2>3, <2>4, <2>5 DEF Sorted, UpdIs
<1> QED
  BY <1>1, <1>2, <1>6 DEF Syncs, Alone, UpdIs

\* What is added agrees with the subscription: each new profile has one of the contents that
\* were left (Database.cpp:960-1008).
LEMMA AddedAgree ==
  ASSUME Typed, ListInv, Typed', Refd', NEW ks \in SUBSET Keys, NEW g \in Groups,
         NEW news, NEW es, NEW h, NEW k, Adding(ks, g, news, es, h, k),
         NEW K \in SUBSET Ids, \A i \in K : i <= max_profile_id,
         ks = upd.content, upd'.content = {}, upd'.sub = upd.sub, Agreed(K)
  PROVE  Agreed(K \cup news)'
<1>1. /\ news \in SUBSET Ids /\ jobs' = jobs \cup {k} /\ record' = record /\ Collect(h)
      /\ spoiled' = [spoiled EXCEPT !["reused"] = @ \cup {i \in news : ListedBack(i)}]
      /\ \A x \in news : x > max_profile_id
      /\ k.ents = es /\ k.drop = {}
  BY DEF Adding
<1>2. /\ \A o \in Objs : h[o] = heap[o] \/ h[o].id \in news
      /\ \A o \in Objs : h[o] = heap[o] \/ o = cached'[h[o].id]
      /\ \A o \in Objs : heap[o] # Nil => h[o] = heap[o]
      /\ \A x \in news : /\ cached'[x] \in es /\ cached'[x] \in Objs /\ cached'[x] # Nil
                         /\ h[cached'[x]].id = x /\ ~h[cached'[x]].no_save
      /\ \A x \in news : h[cached'[x]].key \in ks
      /\ \A c \in ks : \E x \in news : h[cached'[x]].key = c
      /\ \A x, y \in news : h[cached'[x]].key = h[cached'[y]].key => x = y
  BY DEF Adding
<1>3. \A o \in Objs : heap'[o] = h[o] \/ heap'[o] = Nil
  BY <1>1, HeapIs
<1>4. \A i \in K : i \notin news
  <2>1. \A i \in Ids : ~(i > max_profile_id /\ i <= max_profile_id)
    BY Nothing DEF Typed
  <2> QED
    BY <1>1, <2>1
<1>5. ASSUME NEW i \in K PROVE Leaves(i)
  <2>1. spoiled["aliased"] \subseteq spoiled'["aliased"]
    BY <1>1 DEF Typed, Spoilers
  <2>2. \A o \in Objs : \/ heap'[o] = heap[o]
                        \/ heap'[o] = Nil
                        \/ heap'[o].id # i /\ (heap[o] = Nil \/ heap[o].id # i)
    BY <1>2, <1>3, <1>4
  <2>3. Same(i)
    BY <1>1, <2>1, <2>2, OperationSame
  <2> QED
    BY <1>1, <2>3 DEF Leaves
<1>6. PICK f \in [K -> Keys] :
        /\ \A i \in K : Has(i, f[i])
        /\ upd.sub = upd.content \cup {f[i] : i \in K}
        /\ \A i \in K : f[i] \notin upd.content
        /\ \A i, j \in K : f[i] = f[j] => i = j
  BY DEF Agreed
<1>7. PICK e : e = [i \in K \cup news |-> IF i \in news THEN h[cached'[i]].key ELSE f[i]]
  OBVIOUS
<1>8. /\ e \in [K \cup news -> Keys]
      /\ \A i \in K : e[i] = f[i]
      /\ \A i \in news : e[i] = h[cached'[i]].key /\ e[i] \in ks
  BY <1>2, <1>4, <1>7
<1>9. ASSUME NEW x \in news PROVE Has(x, e[x])'
  <2>1. ~There(x)
    BY <1>1, Nothing DEF ListInv, Bounds, Typed
  <2>2. \A o \in Objs : Is(o, x)' => o = cached'[x] /\ heap'[o] = h[o]
    BY <1>2, <1>3, <2>1 DEF There, Is
  <2>3. /\ \A o \in Objs : Is(o, x)' => ~heap'[o].no_save /\ heap'[o].key = e[x]
        /\ record'[x] = NoRecord
    BY <1>1, <1>2, <1>8, <2>1, <2>2 DEF There
  <2>4. SavedBy(k, x)'
    <3>1. PICK o \in es : o = cached'[x] /\ o \in Objs /\ o # Nil
      BY <1>1, <1>2
    <3>2. x \in Ids /\ cached'[x] # Nil
      BY <1>1, <3>1
    <3>3. Is(o, x)'
      BY <3>1, <3>2 DEF Refd
    <3> QED
      BY <1>1, <2>3, <3>1, <3>3 DEF SavedBy
  <2>5. \A j \in jobs' : x \notin j.drop
    <3>1. ASSUME NEW j \in jobs PROVE x \notin j.drop
      <4>1. x \in j.drop => x <= max_profile_id
        BY DEF ListInv, Bounds
      <4>2. ~(x > max_profile_id /\ x <= max_profile_id)
        BY <1>1, Nothing DEF Typed
      <4> QED
        BY <1>1, <4>1, <4>2
    <3> QED
      BY <1>1, <3>1
  <2> QED
    BY <1>1, <2>3, <2>4, <2>5 DEF Has, Savable, Live
<1>10. \A i \in K \cup news : Has(i, e[i])'
  <2>1. \A i \in K : Has(i, f[i])'
    BY <1>5, <1>6, HasStays
  <2> QED
    BY <1>8, <1>9, <2>1
<1>11. upd.sub = {e[i] : i \in K \cup news}
  <2>1. {e[i] : i \in news} = ks
    BY <1>2, <1>8
  <2>2. {e[i] : i \in K} = {f[i] : i \in K}
    BY <1>8
  <2>3. {e[i] : i \in K \cup news} = {e[i] : i \in K} \cup {e[i] : i \in news}
    OBVIOUS
  <2> QED
    BY <1>6, <2>1, <2>2, <2>3
<1>12. ASSUME NEW i \in K \cup news, NEW j \in K \cup news, e[i] = e[j] PROVE i = j
  <2>1. CASE i \in K /\ j \in K
    BY <1>6, <1>8, <1>12, <2>1
  <2>2. CASE i \in news /\ j \in news
    BY <1>2, <1>8, <1>12, <2>2
  <2>3. CASE i \in K /\ j \in news
    BY <1>6, <1>8, <1>12, <2>3
  <2>4. CASE i \in news /\ j \in K
    BY <1>6, <1>8, <1>12, <2>4
  <2> QED
    BY <2>1, <2>2, <2>3, <2>4
<1>13. /\ K \cup news \in SUBSET Ids
       /\ upd'.sub = upd'.content \cup {e[i] : i \in K \cup news}
       /\ \A i \in K \cup news : e[i] \notin upd'.content
  BY <1>1, <1>11
<1> QED
  BY <1>8, <1>10, <1>12, <1>13 DEF Agreed

\* The new profiles join the list (GroupUpdater.cpp:1528-1531).
LEMMA AddNewSyncs ==
  ASSUME Typed, UpdTyped, Kinds, Refd, ListInv, Typed', Refd', Syncs, AddNew
  PROVE  Syncs'
<1>1. upd.pc = "add" /\ upd' = [upd EXCEPT !.pc = "drop", !.content = {}]
  BY DEF AddNew, AtUpd
<1>2. UpdIs("drop", {}, upd.drop, upd.sub, upd.alone)
  BY <1>1, UpdGoes
<1>3. CASE ~upd.alone
  BY <1>2, <1>3 DEF Syncs, Alone, UpdIs
<1>4. CASE upd.alone
  <2>1. held.pc = "none" /\ upd.gid \in groups /\ Sorted
    BY <1>1, <1>4 DEF Syncs, Alone
  <2>2. /\ upd.gid \in Groups /\ members[upd.gid] \in SUBSET Ids /\ upd.content \in SUBSET Keys
        /\ upd.drop \in SUBSET Ids
    BY <1>1 DEF UpdTyped, Typed
  <2>3. PICK K \in SUBSET Ids : K = Staying
    BY <2>2 DEF Staying
  <2>4. /\ \A i \in members[upd.gid] \cup upd.drop : i <= max_profile_id
        /\ (\A i \in K : Sound(i)) => Agreed(K)
        /\ \A i \in members[upd.gid] \cap upd.drop : Sound(i) => OnFile(i)
    BY <2>1, <2>3 DEF Sorted
  <2>5. CASE UNCHANGED <<diskVars, memVars, jobs, locker, held, restarts, histVars>> /\ upd.content = {}
    <3>1. UNCHANGED <<record, heap, jobs, groups, held, members, max_profile_id, deleted, spoiled>>
      BY <2>5 DEF diskVars, memVars, histVars
    <3>2. \A i \in Ids : (Sound(i)' => Sound(i)) /\ Leaves(i)
      BY <1>2, <3>1, SoundShrinks, LeavesAll DEF UpdIs
    <3>3. (\A i \in K : Sound(i)') => Agreed(K)'
      BY <1>2, <2>4, <2>5, <3>2, AgreedStays DEF UpdIs
    <3>4. Staying' = K
      BY <1>2, <2>3, <3>1 DEF Staying, UpdIs
    <3>5. \A i \in members[upd.gid] \cap upd.drop : Sound(i)' => OnFile(i)'
      BY <2>2, <2>4, <3>2, OnFileStays
    <3>6. Sorted'
      BY <1>2, <2>4, <3>1, <3>3, <3>4, <3>5 DEF Sorted, UpdIs
    <3> QED
      BY <1>2, <2>1, <3>1, <3>6 DEF Syncs, Alone, UpdIs
  <2>6. CASE AddProfileBatch(upd.content, upd.gid)
    <3>1. PICK ks \in SUBSET Keys, g \in Groups : ks = upd.content /\ g = upd.gid
      BY <2>2
    <3>2. PICK news, es, h, k : Adding(ks, g, news, es, h, k)
      BY <2>6, <3>1, AddingIs
    <3>3. /\ news \in SUBSET Ids /\ jobs' = jobs \cup {k} /\ UNCHANGED <<record, groups, held>>
          /\ members' = [members EXCEPT ![g] = @ \cup news]
          /\ deleted' = deleted \ news
          /\ spoiled' = [spoiled EXCEPT !["reused"] = @ \cup {i \in news : ListedBack(i)}]
          /\ \A x \in Ids : x <= max_profile_id => x <= max_profile_id'
          /\ \A x \in news : x > max_profile_id /\ x <= max_profile_id'
          /\ k.drop = {} /\ Collect(h)
          /\ \A o \in Objs : h[o] = heap[o] \/ h[o].id \in news
          /\ \A o \in Objs : heap[o] # Nil => h[o] = heap[o]
      BY <3>2 DEF Adding
    <3>4. members'[upd.gid] = members[upd.gid] \cup news
      BY <3>1, <3>3 DEF Typed
    <3>5. \A x \in news : x \notin members[upd.gid] \cup upd.drop
      <4>1. \A x \in Ids : ~(x > max_profile_id /\ x <= max_profile_id)
        BY Nothing DEF Typed
      <4> QED
        BY <2>2, <2>4, <3>3, <4>1
    <3>6. /\ \A s \in Spoilers : spoiled[s] \subseteq spoiled'[s]
          /\ spoiled["aliased"] \subseteq spoiled'["aliased"]
      BY <3>3 DEF Typed, Spoilers
    <3>7. \A i \in Ids : Sound(i)' => Sound(i)
      <4>1. deleted \cap Groups \subseteq deleted'
        BY <3>3, DatabaseAssumption
      <4> QED
        BY <1>2, <3>6, <4>1, SoundShrinks DEF UpdIs
    <3>8. Staying' = K \cup news
      BY <1>2, <2>3, <3>4, <3>5 DEF Staying, UpdIs
    <3>9. (\A i \in K \cup news : Sound(i)') => Agreed(K \cup news)'
      <4> SUFFICES ASSUME \A i \in K \cup news : Sound(i)' PROVE Agreed(K \cup news)'
        OBVIOUS
      <4>1. Agreed(K)
        BY <2>4, <3>7
      <4>2. \A i \in K : i <= max_profile_id
        BY <2>3, <2>4 DEF Staying
      <4>3. upd'.content = {} /\ upd'.sub = upd.sub
        BY <1>2 DEF UpdIs
      <4> QED
        BY <3>1, <3>2, <4>1, <4>2, <4>3, AddedAgree
    <3>10. ASSUME NEW i \in members[upd.gid] \cap upd.drop, Sound(i)' PROVE OnFile(i)'
      <4>1. OnFile(i) /\ i \in Ids /\ i \notin news
        BY <2>2, <2>4, <3>5, <3>7, <3>10
      <4> QED
        BY <3>3, <4>1 DEF OnFile
    <3>11. Sorted'
      <4>1. members'[upd.gid] \cap upd.drop = members[upd.gid] \cap upd.drop
        BY <3>4, <3>5
      <4>2. \A i \in members'[upd.gid] \cup upd.drop : i <= max_profile_id'
        BY <2>2, <2>4, <3>3, <3>4
      <4> QED
        BY <1>2, <3>8, <3>9, <3>10, <4>1, <4>2 DEF Sorted, UpdIs
    <3> QED
      BY <1>2, <2>1, <3>3, <3>11 DEF Syncs, Alone, UpdIs
  <2>7. \/ upd.content = {} /\ UNCHANGED <<diskVars, memVars, jobs, locker, held, restarts, histVars>>
        \/ AddProfileBatch(upd.content, upd.gid)
    BY <2>1, Zenon DEF AddNew
  <2> QED
    BY <2>5, <2>6, <2>7
<1> QED
  BY <1>3, <1>4

\* What the subscription no longer has leaves the list: the update deletes what it could
\* find, and what is left could not be deleted (GroupUpdater.cpp:1533-1548).
LEMMA DropOldSyncs ==
  ASSUME Typed, UpdTyped, Kinds, Refd, ListInv, Typed', Refd', Syncs, DropOld
  PROVE  Syncs'
<1>1. /\ upd.pc = "drop" /\ BatchDeleteProfiles(upd.drop, TRUE)
      /\ upd' = [upd EXCEPT !.pc = "finish", !.drop = {}]
  BY DEF DropOld, AtUpd
<1>2. UpdIs("finish", upd.content, {}, upd.sub, upd.alone)
  BY <1>1, UpdGoes
<1>3. CASE ~upd.alone
  BY <1>2, <1>3 DEF Syncs, Alone, UpdIs
<1>4. CASE upd.alone
  <2>1. held.pc = "none" /\ upd.gid \in groups /\ Sorted /\ upd.content = {}
    BY <1>1, <1>4 DEF Syncs, Alone
  <2>2. PICK g \in Groups, ids \in SUBSET Ids, K \in SUBSET Ids :
           g = upd.gid /\ ids = upd.drop /\ K = Staying /\ members[g] \in SUBSET Ids
    <3>1. upd.gid \in Groups /\ upd.drop \in SUBSET Ids
      BY <1>1 DEF UpdTyped
    <3>2. members[upd.gid] \in SUBSET Ids /\ Staying \in SUBSET Ids
      BY <3>1 DEF Typed, Staying
    <3> QED
      BY <3>1, <3>2
  <2>3. /\ (\A i \in K : Sound(i)) => Agreed(K)
        /\ \A i \in members[g] \cap ids : Sound(i) => OnFile(i)
        /\ K = members[g] \ ids
    BY <2>1, <2>2 DEF Sorted, Staying
  <2>4. BatchDeleteProfiles(ids, TRUE)
    BY <1>1, <2>2
  <2>5. PICK dels, k : Deleting(ids, TRUE, dels, k)
    BY <2>4, DeletingIs
  <2>6. /\ dels = Deletable(ids) /\ dels \in SUBSET Ids /\ dels \subseteq ids
        /\ members' = [x \in Groups |-> members[x] \ From(x, dels, TRUE)]
        /\ (jobs' = jobs /\ dels = {}) \/ jobs' = jobs \cup {k}
        /\ deleted' = deleted \cup dels
        /\ spoiled' = [spoiled EXCEPT !["inHand"] = @ \cup {i \in dels : InHand(i)}]
        /\ UNCHANGED <<record, groups, held>>
        /\ Collect(heap) /\ k.drop = dels
    BY <2>5 DEF Deleting
  <2>7. started_id' = started_id
    BY <2>4 DEF BatchDeleteProfiles
  <2>8. members'[g] = members[g] \ {i \in dels : GetProfile(i).gid = g}
    BY <2>1, <2>2, <2>6 DEF From, Of
  <2>9. /\ \A s \in Spoilers : spoiled[s] \subseteq spoiled'[s]
        /\ spoiled["aliased"] \subseteq spoiled'["aliased"]
    BY <2>6 DEF Typed, Spoilers
  <2>10. \A i \in Ids : Sound(i)' => Sound(i)
    <3>1. deleted \cap Groups \subseteq deleted'
      BY <2>6
    <3> QED
      BY <1>2, <2>9, <3>1, SoundShrinks DEF UpdIs
  <2>11. \A i \in K : Leaves(i)
    <3>1. \A o \in Objs : heap'[o] = heap[o] \/ heap'[o] = Nil
      BY <2>6, HeapIs
    <3>2. \A j \in jobs : j \in jobs'
      BY <2>6
    <3>3. \A i \in K : Same(i)
      BY <2>6, <2>9, <3>1, <3>2, OperationSame
    <3>4. \A i \in K, j \in jobs' : i \in j.drop => \E l \in jobs : i \in l.drop
      BY <2>3, <2>6
    <3> QED
      BY <3>3, <3>4 DEF Leaves
  <2>12. K \in SUBSET members'[g]
    BY <2>3, <2>6, <2>8
  <2>13. ASSUME \A i \in members'[g] : Sound(i)' PROVE Agreed(K)'
    <3>1. Agreed(K)
      BY <2>2, <2>3, <2>10, <2>12, <2>13
    <3> QED
      BY <1>2, <2>1, <2>11, <3>1, AgreedStays DEF UpdIs
  <2>14. ASSUME NEW i \in members'[g] \ K, Sound(i)' PROVE i = started_id'
    <3>1. /\ i \in Ids /\ i \in members[g] \cap ids /\ Sound(i)
          /\ ~(i \in dels /\ GetProfile(i).gid = g)
      BY <2>2, <2>3, <2>8, <2>10, <2>14
    <3>2. Known(i)
      BY <2>3, <3>1 DEF OnFile, Known
    <3>3. HasGid(i, GetProfile(i).gid) /\ GetProfile(i).gid \in Groups
      BY <3>1, <3>2, KnownIs DEF Objects
    <3>4. Plain(i) /\ Lists(g, i)
      BY <2>2, <3>1, SoundIs DEF Lists
    <3>5. GetProfile(i).gid = g
      BY <3>1, <3>3, <3>4 DEF ListInv, Home
    <3> QED
      BY <2>6, <2>7, <3>1, <3>2, <3>5 DEF Deletable
  <2>15. Synced'
    <3>1. upd'.gid = g
      BY <1>2, <2>2 DEF UpdIs
    <3> QED
      BY <2>12, <2>13, <2>14, <3>1 DEF Synced
  <2> QED
    BY <1>2, <2>1, <2>6, <2>15 DEF Syncs, Alone, UpdIs
<1> QED
  BY <1>3, <1>4

\* No update has its answer, and none has profiles to drop.
LEMMA SyncsBefore ==
  ASSUME upd'.pc \in {"idle", "begin", "fetch", "hung"},
         upd'.pc # "hung" => upd'.drop = {}
  PROVE  Syncs'
  BY DEF Syncs, Alone

\* What the user asks for ends an update's being alone, or begins an update.
LEMMA RequestSyncs ==
  ASSUME UpdTyped, Syncs, Request
  PROVE  Syncs'
<1>1. CASE Meanwhile
  <2>1. upd' = [upd EXCEPT !.alone = FALSE, !.sub = {}]
    BY <1>1 DEF Meanwhile
  <2>2. UpdIs(upd.pc, upd.content, upd.drop, {}, FALSE)
    BY <2>1, UpdGoes
  <2> QED
    BY <2>2 DEF Syncs, Alone, UpdIs
<1>2. ASSUME NEW g, NEW a, upd' = Begun(g, a) PROVE Syncs'
  <2>1. upd'.pc = "begin" /\ upd'.drop = {}
    BY <1>2, BegunIs
  <2> QED
    BY <2>1, SyncsBefore
<1>3. ASSUME NEW g \in Groups, AsyncUpdate(g) PROVE Syncs'
  <2>1. upd' = [pc |-> "begin", gid |-> g, content |-> {}, drop |-> {}, all |-> {}, sub |-> {},
                alone |-> TRUE]
    <3>1. upd' = [Idle EXCEPT !.pc = "begin", !.gid = g]
      BY <1>3 DEF AsyncUpdate
    <3> QED
      BY <3>1 DEF Idle
  <2> QED
    BY <2>1, SyncsBefore
<1>4. CASE UI_update_all_groups
  <2>1. PICK g : upd' = Begun(g, groups \ {g})
    BY <1>4, Zenon DEF UI_update_all_groups, Begun
  <2> QED
    BY <2>1, <1>2
<1> QED
  BY <1>1, <1>3, <1>4, Zenon DEF Request, Add, Delete, Get, Move, Replace, DeleteGroup, RemoveInvalid

\* An update that ends leaves no update, or the next one at its beginning.
LEMMA FinishSyncs ==
  ASSUME Finish
  PROVE  Syncs'
<1>1. (\E g, a : upd' = Begun(g, a)) \/ upd' = Idle
  BY Zenon DEF Finish, Begun
<1>2. upd'.pc \in {"idle", "begin"} /\ upd'.drop = {}
  <2>1. ASSUME NEW g, NEW a, upd' = Begun(g, a) PROVE upd'.pc \in {"idle", "begin"} /\ upd'.drop = {}
    BY <2>1, BegunIs
  <2>2. ASSUME upd' = Idle PROVE upd'.pc \in {"idle", "begin"} /\ upd'.drop = {}
    BY <2>2 DEF Idle
  <2> QED
    BY <1>1, <2>1, <2>2
<1> QED
  BY <1>2, SyncsBefore

\* Its own steps keep Syncs.
LEMMA UpdateStepSyncs ==
  ASSUME Typed, UpdTyped, Kinds, Refd, ListInv, HistInv, Clean, Typed', Refd', Syncs, UpdateStep
  PROVE  Syncs'
<1>1. CASE UpdateBegins
  <2>1. CASE upd' = [upd EXCEPT !.pc = "fetch"]
    <3>1. UpdIs("fetch", upd.content, upd.drop, upd.sub, upd.alone)
      BY <2>1, UpdGoes
    <3>2. upd.pc = "begin"
      BY <1>1 DEF UpdateBegins, AtUpd
    <3> QED
      BY <3>1, <3>2, SyncsBefore DEF UpdIs, Syncs
  <2> QED
    BY <1>1, <2>1, FinishSyncs DEF UpdateBegins, Goto
<1>2. CASE UpdateFails \/ PreFinish
  BY <1>2, FinishSyncs DEF UpdateFails, PreFinish
<1>3. CASE PreFinishHangs
  <2>1. upd' = [upd EXCEPT !.pc = "hung", !.sub = {}]
    BY <1>3 DEF PreFinishHangs
  <2>2. UpdIs("hung", upd.content, upd.drop, {}, upd.alone)
    BY <2>1, UpdGoes
  <2> QED
    BY <2>2, SyncsBefore DEF UpdIs
<1>4. CASE ReadDies
  <2>1. upd'.pc = "idle" /\ upd'.drop = {}
    BY <1>4 DEF ReadDies, Exit, Idle
  <2> QED
    BY <2>1, SyncsBefore
<1>5. ASSUME NEW c \in SUBSET Keys, Fetched(c) PROVE Syncs'
  BY <1>5, FetchedSyncs
<1>6. CASE ReadList
  BY <1>6, ReadListSyncs
<1>7. CASE DeleteList
  BY <1>7, DeleteListSyncs
<1>8. CASE ClearList
  BY <1>8, ClearListSyncs
<1>9. CASE SaveGroup
  BY <1>9, SaveGroupSyncs
<1>10. CASE AddNew
  BY <1>10, AddNewSyncs
<1>11. CASE DropOld
  BY <1>11, DropOldSyncs
<1> QED
  BY <1>1, <1>2, <1>3, <1>4, <1>5, <1>6, <1>7, <1>8, <1>9, <1>10, <1>11 DEF UpdateStep

\* A step that is not the update's own, makes no object and starts no thread keeps Syncs.
LEMMA QuietSyncs ==
  ASSUME Typed, UpdTyped, Kinds, Typed', Refd', Syncs, Quietly,
         UNCHANGED <<upd, held, groups, members, max_profile_id, started_id, deleted, spoiled>>,
         jobs = {} => jobs' = {}
  PROVE  Syncs'
<1>1. \A i \in Ids : Same(i)
  BY QuietSame
<1>2. \A i \in Ids : Leaves(i)
  BY <1>1 DEF Leaves, Quietly, JobsKept
<1> QED
  BY <1>2, SyncsStays

\* Every step keeps Syncs, until an exit is torn.
LEMMA SyncsNext ==
  ASSUME SubInv, SubInv', spoiled["torn"] = {}, spoiled'["torn"] = {}, HistInv, Clean, Syncs,
         [Next]_vars
  PROVE  Syncs'
<1>1. /\ Typed /\ Refd /\ ListInv /\ Kinds /\ UpdTyped
      /\ Typed' /\ Refd'
  BY DEF SubInv, Kinds
<1>2. ASSUME NEW j \in jobs, JobStep(j), UNCHANGED upd PROVE Syncs'
  <2>1. UNCHANGED <<held, groups, members, max_profile_id, started_id, deleted, spoiled>>
    BY <1>2 DEF JobStep, JobSavesGroup, JobUncaches, JobWrites, JobEnds, memVars, histVars
  <2>2. Quietly
    BY <1>1, <1>2, JobSavesGroupHistory, JobUncachesHistory, JobWritesHistory, JobEndsHistory
    DEF JobStep
  <2> QED
    BY <1>1, <1>2, <2>1, <2>2, QuietSyncs
<1>3. ASSUME NEW i \in Ids, Evict(i), UNCHANGED upd PROVE Syncs'
  <2>1. UNCHANGED <<jobs, held, groups, members, max_profile_id, started_id, deleted, spoiled>>
    BY <1>3 DEF Evict, heldRest
  <2>2. Quietly
    BY <1>1, <1>3, HolderHistory
  <2> QED
    BY <1>1, <1>3, <2>1, <2>2, QuietSyncs
<1>4. ASSUME HolderStep, UNCHANGED upd PROVE Syncs'
  <2>1. held.pc # "none"
    BY <1>4 DEF HolderStep, HolderCaches, HolderUncaches, HolderWrites, HolderLeaves
  <2>2. ~Alone
    BY <2>1 DEF Syncs
  <2> QED
    BY <1>4, <2>2 DEF Syncs, Alone
<1>5. CASE Exit
  <2>1. upd'.pc = "idle" /\ upd'.drop = {}
    BY <1>5 DEF Exit, Idle
  <2> QED
    BY <2>1, SyncsBefore
<1>6. CASE UNCHANGED vars
  <2>1. DatabaseStays /\ UNCHANGED <<upd, started_id>>
    BY <1>6 DEF vars, dbVars, diskVars, memVars, histVars, DatabaseStays
  <2>2. Quietly
    BY <1>1, <2>1, StaysHistory
  <2> QED
    BY <1>1, <2>1, <2>2, QuietSyncs DEF DatabaseStays
<1>7. CASE Request
  BY <1>1, <1>7, RequestSyncs
<1>8. CASE UpdateStep
  BY <1>1, <1>8, UpdateStepSyncs
<1> QED
  BY <1>2, <1>3, <1>4, <1>5, <1>6, <1>7, <1>8 DEF Next

\* At first no update is under way.
LEMMA InitSyncs ==
  ASSUME Init
  PROVE  Clean /\ Syncs
<1>1. upd = Idle /\ held.pc = "none"
  <2>1. upd = Idle /\ held = NotHeld
    BY Zenon DEF Init, DbInit
  <2> QED
    BY <2>1 DEF NotHeld
<1>2. Typed /\ \A o \in Objs : heap[o] # Nil => ~heap[o].no_save
  BY InitKeeps
<1>3. Refd
  BY InitKeeps
<1>4. Clean
  BY <1>1, <1>2, <1>3 DEF Clean, Typed, Refd, Is
<1>5. Syncs
  BY <1>1 DEF Syncs, Alone, Idle
<1> QED
  BY <1>4, <1>5

\* And what holds of the updates until then.
SyncInv == FullInv /\ (spoiled["torn"] = {} => Clean /\ Syncs)

\* SyncInv is an invariant.
THEOREM SyncInvHolds == Spec => []SyncInv
<1>1. Init => SyncInv
  BY SubInit, InitHistory, InitSyncs DEF SyncInv, FullInv
<1>2. SyncInv /\ FullInv' /\ [Next]_vars => SyncInv'
  <2> SUFFICES ASSUME SyncInv, FullInv', [Next]_vars, spoiled'["torn"] = {}
               PROVE  Clean' /\ Syncs'
    BY DEF SyncInv
  <2>1. SubInv /\ SubInv'
    BY DEF SyncInv, FullInv
  <2>2. spoiled["torn"] = {}
    <3>1. spoiled'["torn"] \in {spoiled["torn"], Ids \cup Groups}
      <4>1. CASE Next
        BY <2>1, <4>1, TornStays DEF SubInv
      <4>2. CASE UNCHANGED vars
        BY <4>2 DEF vars, dbVars, histVars
      <4> QED
        BY <4>1, <4>2
    <3>2. 1 \in Ids
      BY DatabaseAssumption DEF Ids
    <3> QED
      BY <3>1, <3>2
  <2>3. HistInv /\ Clean /\ Syncs /\ Kinds /\ Typed /\ Refd /\ ListInv /\ Refd'
    BY <2>1, <2>2 DEF SyncInv, FullInv, SubInv
  <2>4. DatabaseStep
    <3>1. CASE Next
      BY <2>3, <3>1, StepIs
    <3>2. CASE UNCHANGED vars
      BY <3>2 DEF vars, dbVars, diskVars, memVars, histVars, DatabaseStays, DatabaseStep
    <3> QED
      BY <3>1, <3>2
  <2>5. Clean'
    BY <2>3, <2>4, CleanNext
  <2>6. Syncs'
    BY <2>1, <2>2, <2>3, SyncsNext
  <2> QED
    BY <2>5, <2>6
<1> QED
  BY <1>1, <1>2, FullInvHolds, PTL DEF Spec

\* What an update that was alone leaves is the subscription, by Synced.
LEMMA SyncedIs == SyncInv => UpdateSyncs
<1> SUFFICES ASSUME SyncInv PROVE UpdateSyncs
  OBVIOUS
<1>1. CASE spoiled["torn"] = {}
  <2>1. Typed /\ Refd /\ Kinds /\ Clean /\ Syncs
    BY <1>1 DEF SyncInv, FullInv, SubInv
  <2> QED
    BY <2>1, UpdateSyncsIs
<1>2. CASE spoiled["torn"] # {}
  BY <1>2, Zenon DEF UpdateSyncs
<1> QED
  BY <1>1, <1>2

\* An update that nothing has interfered with leaves the group with the contents of the
\* subscription, each once, and at most the running profile besides (GroupUpdater.cpp:1307-1316,
\* 1500-1550).
THEOREM UpdatesSync == Spec => []UpdateSyncs
BY SyncInvHolds, SyncedIs, PTL
=============================================================================
