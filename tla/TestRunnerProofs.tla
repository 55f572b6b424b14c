-------------------------- MODULE TestRunnerProofs ---------------------------
(***************************************************************************)
(* TLAPS proofs about TestRunner, for any number of runs, profiles, stops, *)
(* polls and failures: the mutex speedtestRunning keeps test runs apart as *)
(* long as no batch unlocks it twice, only a stop can leave it behind, and *)
(* results end up with the profiles they were measured for.                *)
(*                                                                         *)
(* What a batch builds (Fulls, TagMap, Collected) is opaque here.  That    *)
(* the two functions of a batch are given and counted under the same two   *)
(* conditions is all the mutex depends on; that the call, the poller and   *)
(* the answer of a batch use the same TagMap is all the latencies do.      *)
(***************************************************************************)
EXTENDS TestRunner, TLAPS

\* The pcs at which a run's own thread has the mutex.
HoldPcs == {"start", "collect", "final", "build", "arm", "pass", "speedBuild",
            "ask", "asked", "next", "again", "end"}

\* Between Arm and the last count the mutex is held on behalf of the batch.
Owns(r) == r.pc \in HoldPcs \/ (r.pc = "wait" /\ ~r.given)

\* A function of the pool that has not counted itself yet.
Uncounted(t) == t.pc \in {"test", "asked", "save", "count"}

Due(i, kind) == \E t \in tasks : t.run = i /\ t.kind = kind /\ Uncounted(t)
Num(b) == IF b THEN 1 ELSE 0

\* What a run's record is, whatever ids and profiles are.
RunRecord(r) ==
  /\ r = [pc |-> r.pc, kind |-> r.kind, ids |-> r.ids, profs |-> r.profs,
          after |-> r.after, n |-> r.n, counter |-> r.counter, left |-> r.left,
          given |-> r.given]
  /\ r.pc \in Pcs
  /\ r.n \in Nat /\ r.counter \in Nat /\ r.given \in BOOLEAN
  /\ r.pc = "idle" => r.n = 0
  /\ r.pc \in {"build", "arm", "wait", "pass"} => r.after \in {"relock", "finish"}

TaskRecord(t) ==
  /\ t = [run |-> t.run, kind |-> t.kind, n |-> t.n, pc |-> t.pc,
          todo |-> t.todo, profs |-> t.profs, res |-> t.res]
  /\ t.run \in Runs /\ t.kind \in {"full", "tags"} /\ t.n \in Nat
  /\ Uncounted(t) \/ t.pc = "load"

\* A task belongs to a batch its run has begun, and knows the batch's profiles.
Batches ==
  /\ run = [i \in Runs |-> run[i]]
  /\ \A i \in Runs : RunRecord(run[i])
  /\ \A t \in tasks :
       /\ TaskRecord(t)
       /\ t.n <= run[t.run].n
       /\ LambdaLive(t) => t.profs = run[t.run].profs

\* A run that owns the mutex has it locked and is alone with it.
Owned ==
  /\ \A i \in Runs : Owns(run[i]) => locked
  /\ \A i, j \in Runs : Owns(run[i]) /\ Owns(run[j]) => i = j
  /\ \A i \in Runs : At(i, "pass") => run[i].given

\* The counter says how many functions of the batch are through, and one that is
\* not through has its lambda waiting, with the mutex.
Counted ==
  /\ \A t \in tasks : Uncounted(t) =>
       run[t.run].pc = "wait" /\ ~run[t.run].given /\ t.n = run[t.run].n
  /\ \A t, u \in tasks :
       Uncounted(t) /\ Uncounted(u) /\ t.run = u.run /\ t.kind = u.kind => t = u
  /\ \A i \in Runs : At(i, "wait") /\ ~run[i].given =>
       run[i].counter + Num(Due(i, "full")) + Num(Due(i, "tags"))
         = TestCount(run[i].profs)

\* While the mutex is locked there is a run to give it back.
FreePcs == {"idle", "relock", "finish", "done"}
Taken == locked => \E i \in Runs : run[i].pc \notin FreePcs

MutexInv == Batches /\ ("strayUnlock" \in raced \/ (Owned /\ Counted))

-----------------------------------------------------------------------------
\* The updates the run's own thread makes of its record.
SetPc(x, pc) == [x EXCEPT !.pc = pc]
SetAfter(x, pc, after) == [x EXCEPT !.pc = pc, !.after = after]
SetLeft(x, pc, left) == [x EXCEPT !.pc = pc, !.left = left]
SetProfs(x, pc, profs) == [x EXCEPT !.pc = pc, !.profs = profs]

\* The rest of the record survives an update of its pc.
LEMMA RunPc ==
  ASSUME NEW x, RunRecord(x), NEW pc \in Pcs \ {"idle"},
         pc \in {"build", "arm", "wait", "pass"} => x.after \in {"relock", "finish"}
  PROVE  LET s == SetPc(x, pc) IN
         RunRecord(s) /\ s.pc = pc /\ s.n = x.n /\ s.given = x.given /\ s.profs = x.profs
  BY DEF RunRecord, SetPc

\* Collecting changes ids and profiles only.
LEMMA CollectedRun ==
  ASSUME NEW r, RunRecord(r)
  PROVE  RunRecord(Collected(r)) /\ Collected(r).pc = r.pc /\ Collected(r).n = r.n
<1> DEFINE profs == r.profs \o Found(SubSeq(r.ids, 1, Takes(r)))
           ids == SubSeq(r.ids, Takes(r) + 1, Len(r.ids))
<1>1. Collected(r) = [r EXCEPT !.profs = profs, !.ids = ids]
  BY DEF Collected
<1> HIDE DEF profs, ids
<1>2. Collected(r) = [pc |-> r.pc, kind |-> r.kind, ids |-> ids, profs |-> profs,
                      after |-> r.after, n |-> r.n, counter |-> r.counter,
                      left |-> r.left, given |-> r.given]
  BY <1>1 DEF RunRecord
<1> QED
  BY <1>2 DEF RunRecord

\* What becomes of a task that goes on: the same function of the same batch.
Onward(t, pc, todo, res) ==
  {[t EXCEPT !.pc = pc], [t EXCEPT !.pc = pc, !.res = res],
   [t EXCEPT !.pc = pc, !.todo = todo, !.res = res]}

LEMMA TaskUpdate ==
  ASSUME NEW t, TaskRecord(t), NEW pc \in {"test", "asked", "save", "count", "load"},
         NEW res, NEW todo
  PROVE  \A s \in Onward(t, pc, todo, res) :
           /\ TaskRecord(s) /\ s.pc = pc
           /\ s.run = t.run /\ s.kind = t.kind /\ s.n = t.n /\ s.profs = t.profs
<1> DEFINE Rec(a, b) == [run |-> t.run, kind |-> t.kind, n |-> t.n, pc |-> pc,
                         todo |-> a, profs |-> t.profs, res |-> b]
           u == [t EXCEPT !.pc = pc]
           v == [u EXCEPT !.todo = todo]
<1>1. u = Rec(t.todo, t.res)
  BY DEF TaskRecord
<1> HIDE DEF u
<1>2. [u EXCEPT !.res = res] = Rec(t.todo, res)
  BY <1>1
<1>3. v = Rec(todo, t.res)
  BY <1>1
<1> HIDE DEF v
<1>4. [v EXCEPT !.res = res] = Rec(todo, res)
  BY <1>3
<1>5. /\ [t EXCEPT !.pc = pc, !.res = res] = [u EXCEPT !.res = res]
       /\ [t EXCEPT !.pc = pc, !.todo = todo, !.res = res] = [v EXCEPT !.res = res]
  BY DEF u, v
<1>6. ASSUME NEW a, NEW b
      PROVE  /\ TaskRecord(Rec(a, b)) /\ Rec(a, b).pc = pc /\ Rec(a, b).run = t.run
             /\ Rec(a, b).kind = t.kind /\ Rec(a, b).n = t.n
             /\ Rec(a, b).profs = t.profs
  BY DEF TaskRecord, Uncounted
<1> HIDE DEF Rec
<1> QED
  BY <1>1, <1>2, <1>4, <1>5, <1>6 DEF u, Onward

\* Both functions of a batch are given to the pool, or neither, or one.
LEMMA TestCountIs ==
  ASSUME NEW profs
  PROVE  TestCount(profs) = Num(Fulls(profs) # <<>>) + Num(DOMAIN TagMap(profs) # {})
  BY DEF TestCount, Num

-----------------------------------------------------------------------------
(***************************************************************************)
(* A step of a run's own thread, Arm left out: the run's record becomes r. *)
(* It keeps the mutex, takes a free one, or gives back the one it has.     *)
(***************************************************************************)
RunMoves(i, r) ==
  /\ run' = [run EXCEPT ![i] = r] /\ UNCHANGED <<tasks, raced>>
  /\ RunRecord(r) /\ r.n = run[i].n
  /\ r.pc # "wait"
  /\ r.pc = "pass" => run[i].pc = "wait" /\ r.profs = run[i].profs /\ r.given = run[i].given
  /\ run[i].pc = "wait" => ~locked
  /\ \/ locked' = locked /\ (r.pc \in HoldPcs => run[i].pc \in HoldPcs)
     \/ ~locked /\ locked'
     \/ ~locked' /\ run[i].pc \in HoldPcs /\ r.pc \notin HoldPcs
  /\ \/ ~locked' \/ r.pc \notin FreePcs \/ stop
     \/ locked' = locked /\ run[i].pc \in FreePcs

LEMMA RunMovesSafe ==
  ASSUME Batches, NEW i \in Runs, NEW r, RunMoves(i, r)
  PROVE  Batches' /\ (Taken => Taken' \/ stop)
         /\ (Owned /\ Counted => Owned' /\ Counted')
<1>1. /\ run'[i] = r
      /\ \A j \in Runs : j # i => run'[j] = run[j]
      /\ tasks' = tasks
  BY DEF RunMoves, Batches
<1>2. Batches'
  <2>1. run' = [j \in Runs |-> run'[j]]
    BY DEF Batches, RunMoves
  <2>2. \A j \in Runs : RunRecord(run'[j])
    BY <1>1 DEF Batches, RunMoves
  <2>3. ASSUME NEW t \in tasks
        PROVE  TaskRecord(t) /\ t.n <= run'[t.run].n
               /\ (LambdaLive(t)' => t.profs = run'[t.run].profs)
    <3>1. TaskRecord(t) /\ t.run \in Runs /\ t.n <= run[t.run].n
      BY DEF Batches, TaskRecord
    <3>2. CASE t.run = i
      <4>1. LambdaLive(t)' => LambdaLive(t) /\ r.profs = run[i].profs
        BY <1>1, <3>2 DEF LambdaLive, RunMoves
      <4> QED
        BY <1>1, <3>1, <3>2, <4>1 DEF RunMoves, Batches
    <3>3. CASE t.run # i
      BY <1>1, <3>1, <3>3 DEF Batches, LambdaLive
    <3> QED
      BY <3>2, <3>3
  <2> QED
    BY <1>1, <2>1, <2>2, <2>3 DEF Batches, TaskRecord, Uncounted
<1>3. ASSUME Owned, Counted PROVE Owned' /\ Counted'
  <2>1. run[i].pc = "wait" => run[i].given
    BY <1>3 DEF Owned, Owns, RunMoves, Batches, RunRecord
  <2>2. Owns(r) <=> r.pc \in HoldPcs
    BY DEF Owns, RunMoves
  <2>3. Owned'
    <3>1. \A j \in Runs : At(j, "pass")' => run'[j].given
      BY <1>1, <1>3, <2>1 DEF Owned, At, RunMoves
    <3>2. ASSUME NEW j \in Runs, Owns(run'[j]) PROVE locked'
      BY <1>1, <1>3, <2>2, <3>2 DEF Owned, RunMoves, Owns
    <3>3. ASSUME NEW j \in Runs, NEW k \in Runs, Owns(run'[j]), Owns(run'[k])
          PROVE  j = k
      BY <1>1, <1>3, <2>2, <3>2, <3>3 DEF Owned, RunMoves, Owns
    <3> QED
      BY <3>1, <3>2, <3>3 DEF Owned, Owns
  <2>4. Counted'
    <3>1. \A t \in tasks : Uncounted(t) => t.run \in Runs /\ t.run # i
      BY <1>3, <2>1 DEF Counted, Batches, TaskRecord
    <3>2. \A j \in Runs, kind \in {"full", "tags"} : Due(j, kind)' <=> Due(j, kind)
      BY <1>1 DEF Due, Uncounted
    <3>3. \A t \in tasks : Uncounted(t) =>
            run'[t.run].pc = "wait" /\ ~run'[t.run].given /\ t.n = run'[t.run].n
      BY <1>1, <1>3, <3>1 DEF Counted
    <3>4. ASSUME NEW j \in Runs, run'[j].pc = "wait", ~run'[j].given
          PROVE  run'[j].counter + Num(Due(j, "full")') + Num(Due(j, "tags")')
                   = TestCount(run'[j].profs)
      <4>1. j # i
        BY <1>1, <3>4 DEF RunMoves
      <4> QED
        BY <1>1, <1>3, <3>2, <3>4, <4>1 DEF Counted, At, Num
    <3> QED
      BY <1>1, <1>3, <3>3, <3>4 DEF Counted, Uncounted, At, Num
  <2> QED
    BY <2>3, <2>4
<1>4. ASSUME Taken, ~stop PROVE Taken'
  BY <1>1, <1>4 DEF Taken, RunMoves
<1> QED
  BY <1>2, <1>3, <1>4

\* A batch is armed: its functions are new, and counted from none.
LEMMA ArmSafe ==
  ASSUME Batches, NEW i \in Runs, Arm(i)
  PROVE  Batches' /\ (Taken => Taken' \/ stop)
         /\ (Owned /\ Counted => Owned' /\ Counted')
<1> DEFINE profs == run[i].profs
           n == run[i].n + 1
           full == Task(i, "full", n, Fulls(profs), profs)
           tags == Task(i, "tags", n, <<>>, profs)
           F == IF Fulls(profs) = <<>> THEN {} ELSE {full}
           G == IF DOMAIN TagMap(profs) = {} THEN {} ELSE {tags}
           none == TestCount(profs) = 0
           r == [run[i] EXCEPT !.pc = "wait", !.n = n, !.counter = 0, !.given = none]
<1>1. /\ tasks' = (tasks \cup F) \cup G
      /\ locked' = IF none THEN FALSE ELSE locked
      /\ run[i].pc = "arm"
  BY DEF Arm, Unlock, NoLock, At
<1>2. run' = [run EXCEPT ![i] = r]
  BY DEF Arm
<1>3. RunRecord(run[i]) /\ n \in Nat /\ run[i].n \in Nat /\ n = run[i].n + 1
  BY DEF Batches, RunRecord
<1>4. none \in BOOLEAN
  OBVIOUS
<1> HIDE DEF none, n
<1>5. /\ RunRecord(r) /\ r.pc = "wait" /\ r.n = n /\ r.counter = 0 /\ r.given = none
      /\ r.profs = profs
  <2> DEFINE x == run[i]
             y == [pc |-> "wait", kind |-> x.kind, ids |-> x.ids, profs |-> x.profs,
                   after |-> x.after, n |-> n, counter |-> 0, left |-> x.left,
                   given |-> none]
  <2>1. r = [x EXCEPT !.pc = "wait", !.n = n, !.counter = 0, !.given = none]
    OBVIOUS
  <2>2. /\ x = [pc |-> x.pc, kind |-> x.kind, ids |-> x.ids, profs |-> x.profs,
                after |-> x.after, n |-> x.n, counter |-> x.counter, left |-> x.left,
                given |-> x.given]
        /\ x.after \in {"relock", "finish"}
    BY <1>1, <1>3 DEF RunRecord
  <2> HIDE DEF r, x
  <2>3. r = y
    BY <2>1, <2>2
  <2>4. RunRecord(y)
    BY <1>3, <1>4, <2>2 DEF RunRecord, Pcs
  <2> QED
    BY <2>3, <2>4 DEF x
<1>6. /\ full.run = i /\ full.kind = "full" /\ full.n = n /\ full.profs = profs
      /\ tags.run = i /\ tags.kind = "tags" /\ tags.n = n /\ tags.profs = profs
      /\ Uncounted(full) /\ Uncounted(tags)
      /\ TaskRecord(full) /\ TaskRecord(tags)
  BY <1>3 DEF Task, Uncounted, TaskRecord
<1> HIDE DEF r, full, tags
<1>7. run'[i] = r /\ (\A j \in Runs : j # i => run'[j] = run[j])
      /\ run' = [j \in Runs |-> run'[j]]
  BY <1>2 DEF Batches
<1>8. Batches'
  <2>1. \A j \in Runs : RunRecord(run'[j])
    BY <1>5, <1>7 DEF Batches
  <2>2. ASSUME NEW t \in tasks
        PROVE  TaskRecord(t) /\ t.n <= run'[t.run].n
               /\ (LambdaLive(t)' => t.profs = run'[t.run].profs)
    <3>1. TaskRecord(t) /\ t.run \in Runs /\ t.n \in Nat /\ t.n <= run[t.run].n
      BY DEF Batches, TaskRecord
    <3>2. CASE t.run = i
      BY <1>3, <1>5, <1>7, <3>1, <3>2 DEF LambdaLive
    <3>3. CASE t.run # i
      BY <1>7, <3>1, <3>3 DEF Batches, LambdaLive
    <3> QED
      BY <3>2, <3>3
  <2>3. ASSUME NEW t \in {full, tags}
        PROVE  TaskRecord(t) /\ t.n <= run'[t.run].n
               /\ (LambdaLive(t)' => t.profs = run'[t.run].profs)
    BY <1>3, <1>5, <1>6, <1>7
  <2>4. tasks' \subseteq tasks \cup {full, tags}
    BY <1>1
  <2> HIDE DEF F, G
  <2> QED
    BY <1>7, <2>1, <2>2, <2>3, <2>4 DEF Batches, TaskRecord, Uncounted
<1>9. ASSUME Owned, Counted PROVE Owned' /\ Counted'
  <2>1. Owns(run[i]) /\ locked /\ \A j \in Runs : Owns(run[j]) => j = i
    BY <1>1, <1>9 DEF Owned, Owns, HoldPcs
  <2>2. Owns(r) <=> ~none
    BY <1>5 DEF Owns, HoldPcs
  <2>3. Owned'
    BY <1>1, <1>5, <1>7, <1>9, <2>1, <2>2 DEF Owned, At
  <2>4. \A t \in tasks : Uncounted(t) => t.run \in Runs /\ t.run # i
    BY <1>1, <1>9 DEF Counted, Batches, TaskRecord
  <2>5. none <=> (Fulls(profs) = <<>> /\ DOMAIN TagMap(profs) = {})
    BY DEF none, TestCount
  <2>6. /\ Due(i, "full")' <=> Fulls(profs) # <<>>
        /\ Due(i, "tags")' <=> DOMAIN TagMap(profs) # {}
        /\ \A j \in Runs \ {i}, kind \in {"full", "tags"} : Due(j, kind)' <=> Due(j, kind)
    BY <1>1, <1>6, <2>4 DEF Due, Uncounted
  <2>7. \A t \in tasks' : Uncounted(t) =>
          run'[t.run].pc = "wait" /\ ~run'[t.run].given /\ t.n = run'[t.run].n
    BY <1>1, <1>5, <1>6, <1>7, <1>9, <2>4, <2>5 DEF Counted
  <2>8. \A t, u \in tasks' :
          Uncounted(t) /\ Uncounted(u) /\ t.run = u.run /\ t.kind = u.kind => t = u
    BY <1>1, <1>6, <1>9, <2>4 DEF Counted
  <2>9. ASSUME NEW j \in Runs, run'[j].pc = "wait", ~run'[j].given
        PROVE  run'[j].counter + Num(Due(j, "full")') + Num(Due(j, "tags")')
                 = TestCount(run'[j].profs)
    <3>1. CASE j = i
      BY <1>5, <1>7, <2>6, <3>1, TestCountIs DEF Num
    <3>2. CASE j # i
      BY <1>7, <1>9, <2>6, <2>9, <3>2 DEF Counted, At, Num
    <3> QED
      BY <3>1, <3>2
  <2> QED
    BY <2>3, <2>7, <2>8, <2>9 DEF Counted, Uncounted, At, Num
<1>10. Taken'
  BY <1>5, <1>7 DEF Taken, FreePcs
<1> QED
  BY <1>8, <1>9, <1>10

-----------------------------------------------------------------------------
\* A step of a task short of its count: it is still the same function, and due.
LEMMA TaskGoesOn ==
  ASSUME Batches, NEW t \in tasks, NEW r, TaskRecord(r), Uncounted(t), Uncounted(r),
         r.run = t.run, r.kind = t.kind, r.n = t.n, r.profs = t.profs,
         Now(t, r), UNCHANGED <<run, locked>>
  PROVE  Batches' /\ (Taken => Taken' \/ stop)
         /\ (Owned /\ Counted => Owned' /\ Counted')
<1>1. tasks' = (tasks \ {t}) \cup {r} /\ run' = run /\ locked' = locked
  BY DEF Now, Replace
<1>2. Batches'
  BY <1>1 DEF Batches, LambdaLive, TaskRecord, Uncounted
<1>3. ASSUME Owned, Counted PROVE Owned' /\ Counted'
  <2>1. Owned'
    BY <1>1, <1>3 DEF Owned, Owns, At
  <2>2. \A i \in Runs, kind \in {"full", "tags"} : Due(i, kind)' <=> Due(i, kind)
    BY <1>1 DEF Due, Uncounted
  <2>3. \A u \in tasks' : Uncounted(u) =>
          run[u.run].pc = "wait" /\ ~run[u.run].given /\ u.n = run[u.run].n
    BY <1>1, <1>3 DEF Counted
  <2>4. \A u, v \in tasks' :
          Uncounted(u) /\ Uncounted(v) /\ u.run = v.run /\ u.kind = v.kind => u = v
    BY <1>1, <1>3 DEF Counted
  <2>5. \A i \in Runs : run[i].pc = "wait" /\ ~run[i].given =>
          run[i].counter + Num(Due(i, "full")') + Num(Due(i, "tags")')
            = TestCount(run[i].profs)
    BY <1>3, <2>2 DEF Counted, At, Num
  <2> QED
    BY <1>1, <2>1, <2>3, <2>4, <2>5 DEF Counted, Uncounted, At, Num
<1>4. Taken => Taken'
  BY <1>1 DEF Taken
<1> QED
  BY <1>2, <1>3, <1>4

\* A function that is through counts itself, once.
LEMMA CountSafe ==
  ASSUME Batches, NEW t \in tasks, CountTask(t)
  PROVE  Batches' /\ (Taken => Taken' \/ stop)
         /\ (Owned /\ Counted => Owned' /\ Counted')
<1> DEFINE i == t.run
           r == [t EXCEPT !.pc = "load"]
           x == [run[i] EXCEPT !.counter = run[i].counter + 1]
<1>1. TaskRecord(t) /\ i \in Runs /\ t.kind \in {"full", "tags"} /\ RunRecord(run[i])
  BY DEF Batches, TaskRecord
<1>2. /\ TaskRecord(r) /\ r.pc = "load" /\ r.run = i /\ r.kind = t.kind /\ r.n = t.n
      /\ r.profs = t.profs /\ ~Uncounted(r)
  <2> DEFINE pc == "load"
             y == [t EXCEPT !.pc = pc]
  <2>1. pc \in {"test", "asked", "save", "count", "load"} /\ pc = "load"
    OBVIOUS
  <2> HIDE DEF pc
  <2>2. y \in Onward(t, pc, 0, 0)
    BY DEF Onward
  <2> HIDE DEF y
  <2>3. /\ TaskRecord(y) /\ y.pc = pc /\ y.run = t.run /\ y.kind = t.kind /\ y.n = t.n
        /\ y.profs = t.profs
    BY <1>1, <2>1, <2>2, TaskUpdate
  <2> QED
    BY <2>1, <2>3 DEF y, pc, Uncounted
<1>3. /\ tasks' = (tasks \ {t}) \cup {r} /\ locked' = locked
      /\ run' = IF LambdaLive(t) THEN [run EXCEPT ![i] = x] ELSE run
      /\ t.pc = "count"
  BY DEF CountTask, Now, Replace, NoLock
<1>4. /\ RunRecord(x) /\ x.pc = run[i].pc /\ x.n = run[i].n /\ x.given = run[i].given
      /\ x.profs = run[i].profs /\ x.counter = run[i].counter + 1
  <2> DEFINE y == run[i]
  <2>1. RunRecord(y) /\ x = [y EXCEPT !.counter = y.counter + 1]
    BY <1>1
  <2> HIDE DEF y
  <2> QED
    BY <2>1 DEF RunRecord, y
<1> HIDE DEF r, x
<1>5. /\ \A j \in Runs : j # i => run'[j] = run[j]
      /\ run'[i] = IF LambdaLive(t) THEN x ELSE run[i]
      /\ run' = [j \in Runs |-> run'[j]]
  BY <1>1, <1>3 DEF Batches
<1>6. \A j \in Runs :
        /\ RunRecord(run'[j])
        /\ run'[j].pc = run[j].pc /\ run'[j].n = run[j].n
        /\ run'[j].given = run[j].given /\ run'[j].profs = run[j].profs
  BY <1>1, <1>4, <1>5 DEF Batches
<1>7. Batches'
  <2>1. ASSUME NEW u \in tasks'
        PROVE  TaskRecord(u) /\ u.n <= run'[u.run].n
               /\ (LambdaLive(u)' => u.profs = run'[u.run].profs)
    <3>1. CASE u \in tasks
      <4>1. /\ TaskRecord(u) /\ u.run \in Runs /\ u.n <= run[u.run].n
            /\ LambdaLive(u) => u.profs = run[u.run].profs
        BY <3>1 DEF Batches, TaskRecord
      <4>2. /\ run'[u.run].pc = run[u.run].pc /\ run'[u.run].n = run[u.run].n
            /\ run'[u.run].given = run[u.run].given /\ run'[u.run].profs = run[u.run].profs
        BY <1>6, <4>1
      <4> QED
        BY <4>1, <4>2 DEF LambdaLive
    <3>2. CASE u = r
      BY <1>1, <1>2, <1>6, <3>2 DEF Batches, LambdaLive
    <3> QED
      BY <1>3, <3>1, <3>2
  <2> QED
    BY <1>5, <1>6, <2>1 DEF Batches, TaskRecord, Uncounted
<1>8. ASSUME Owned, Counted PROVE Owned' /\ Counted'
  <2>1. run[i].pc = "wait" /\ ~run[i].given /\ LambdaLive(t)
    BY <1>3, <1>8 DEF Counted, Uncounted, LambdaLive
  <2>2. Owned'
    BY <1>3, <1>6, <1>8 DEF Owned, Owns, At
  <2>3. /\ Due(i, t.kind) /\ ~Due(i, t.kind)'
        /\ \A kind \in {"full", "tags"} \ {t.kind} : Due(i, kind)' <=> Due(i, kind)
        /\ \A j \in Runs \ {i}, kind \in {"full", "tags"} : Due(j, kind)' <=> Due(j, kind)
    <3>1. Uncounted(t)
      BY <1>3 DEF Uncounted
    <3>2. \A u \in tasks : u.run = i /\ u.kind = t.kind /\ Uncounted(u) => u = t
      BY <1>8, <3>1 DEF Counted
    <3> QED
      BY <1>2, <1>3, <3>1, <3>2 DEF Due, Uncounted
  <2>4. \A u \in tasks' : Uncounted(u) =>
          run'[u.run].pc = "wait" /\ ~run'[u.run].given /\ u.n = run'[u.run].n
    BY <1>2, <1>3, <1>6, <1>8 DEF Counted, Batches, TaskRecord
  <2>5. \A u, v \in tasks' :
          Uncounted(u) /\ Uncounted(v) /\ u.run = v.run /\ u.kind = v.kind => u = v
    BY <1>2, <1>3, <1>8 DEF Counted
  <2>6. ASSUME NEW j \in Runs, run'[j].pc = "wait", ~run'[j].given
        PROVE  run'[j].counter + Num(Due(j, "full")') + Num(Due(j, "tags")')
                 = TestCount(run'[j].profs)
    <3>1. run[j].counter + Num(Due(j, "full")) + Num(Due(j, "tags"))
            = TestCount(run[j].profs) /\ run[j].counter \in Nat
      BY <1>6, <1>8, <2>6 DEF Counted, At, Batches, RunRecord
    <3>2. CASE j = i
      <4>1. run'[j].counter = run[j].counter + 1 /\ run'[j].profs = run[j].profs
        BY <1>4, <1>5, <2>1, <3>2
      <4> QED
        BY <1>1, <2>3, <3>1, <3>2, <4>1 DEF Num
    <3>3. CASE j # i
      BY <1>5, <2>3, <3>1, <3>3 DEF Num
    <3> QED
      BY <3>2, <3>3
  <2> QED
    BY <2>2, <2>4, <2>5, <2>6 DEF Counted, Uncounted, At, Num
<1>9. Taken => Taken'
  BY <1>3, <1>6 DEF Taken
<1> QED
  BY <1>7, <1>8, <1>9

\* Who takes itself for the last gives the mutex back.  As long as nobody has done
\* so with a mutex that was not the batch's, all functions of the batch are through.
LEMMA LoadSafe ==
  ASSUME Batches, NEW t \in tasks, LoadCounter(t)
  PROVE  Batches' /\ (Taken => Taken' \/ stop)
         /\ (Owned /\ Counted => "strayUnlock" \in raced' \/ (Owned' /\ Counted'))
<1> DEFINE i == t.run
           x == [run[i] EXCEPT !.given = TRUE]
           live == LambdaLive(t)
<1>1. TaskRecord(t) /\ i \in Runs /\ RunRecord(run[i])
  BY DEF Batches, TaskRecord
<1>2. PICK last \in IF live THEN {run[i].counter = TestCount(t.profs)} ELSE BOOLEAN :
        IF last
        THEN /\ locked' = FALSE
             /\ raced' = raced \cup (IF live /\ ~run[i].given THEN {} ELSE {"strayUnlock"})
             /\ run' = IF live THEN [run EXCEPT ![i] = x] ELSE run
        ELSE UNCHANGED <<locked, raced>> /\ UNCHANGED run
  BY DEF LoadCounter, NoLock
<1>3. tasks' = tasks \ {t} /\ t.pc = "load" /\ ~Uncounted(t)
  BY DEF LoadCounter, Uncounted
<1>4. live \in BOOLEAN /\ last \in BOOLEAN
  BY DEF LambdaLive
<1>5. /\ RunRecord(x) /\ x.pc = run[i].pc /\ x.n = run[i].n /\ x.given
      /\ x.profs = run[i].profs
  <2> DEFINE y == run[i]
  <2>1. RunRecord(y) /\ x = [y EXCEPT !.given = TRUE]
    BY <1>1
  <2> HIDE DEF x, y
  <2>2. x = [pc |-> y.pc, kind |-> y.kind, ids |-> y.ids, profs |-> y.profs,
             after |-> y.after, n |-> y.n, counter |-> y.counter, left |-> y.left,
             given |-> TRUE]
    BY <2>1 DEF RunRecord
  <2>3. RunRecord(x)
    BY <2>1, <2>2 DEF RunRecord
  <2> QED
    BY <2>2, <2>3 DEF y
<1>6. run' \in {run, [run EXCEPT ![i] = x]}
  BY <1>2, <1>4
<1> HIDE DEF x, live
<1>7. /\ \A j \in Runs : j # i => run'[j] = run[j]
      /\ run'[i] \in {run[i], x}
      /\ run' = [j \in Runs |-> run'[j]]
  BY <1>1, <1>6 DEF Batches
<1>8. \A j \in Runs :
        /\ RunRecord(run'[j])
        /\ run'[j].pc = run[j].pc /\ run'[j].n = run[j].n
        /\ run'[j].profs = run[j].profs
  BY <1>1, <1>5, <1>7 DEF Batches
<1>9. Batches'
  BY <1>3, <1>7, <1>8 DEF Batches, LambdaLive, TaskRecord, Uncounted
<1>10. ASSUME Owned, Counted, "strayUnlock" \notin raced' PROVE Owned' /\ Counted'
  <2>1. \A j \in Runs, kind \in {"full", "tags"} : Due(j, kind)' <=> Due(j, kind)
    BY <1>3 DEF Due, Uncounted
  <2>2. CASE ~last
    <3>1. run' = run /\ locked' = locked
      BY <1>2, <2>2
    <3>2. Owned'
      BY <1>10, <3>1 DEF Owned, Owns, At
    <3>3. Counted'
      BY <1>3, <1>10, <2>1, <3>1 DEF Counted, Uncounted, At, Num
    <3> QED
      BY <3>2, <3>3
  <2>3. CASE last
    <3>1. live /\ ~run[i].given /\ ~locked' /\ run' = [run EXCEPT ![i] = x]
      BY <1>2, <1>10, <2>3
    <3>2. run[i].pc = "wait" /\ run[i].counter = TestCount(run[i].profs)
      BY <1>1, <1>2, <1>10, <2>3, <3>1 DEF Owned, At, live, LambdaLive, Batches
    <3>3. run'[i] = x
      BY <1>1, <3>1 DEF Batches
    <3>4. Owns(run[i]) /\ \A j \in Runs : Owns(run[j]) => j = i
      BY <1>1, <1>10, <3>1, <3>2 DEF Owned, Owns
    <3>5. \A j \in Runs : ~Owns(run'[j])
      BY <1>5, <1>7, <3>2, <3>3, <3>4 DEF Owns, HoldPcs
    <3>6. Owned'
      BY <1>5, <1>7, <1>10, <3>3, <3>5 DEF Owned, At
    <3>7. ~Due(i, "full") /\ ~Due(i, "tags")
      <4>1. run[i].counter + Num(Due(i, "full")) + Num(Due(i, "tags"))
              = TestCount(run[i].profs) /\ run[i].counter \in Nat
        BY <1>1, <1>10, <3>1, <3>2 DEF Counted, At, RunRecord
      <4> QED
        BY <3>2, <4>1 DEF Num
    <3>8. \A u \in tasks : Uncounted(u) => u.run \in Runs /\ u.run # i
      BY <3>7 DEF Due, Batches, TaskRecord
    <3>9. \A u \in tasks' : Uncounted(u) =>
            run'[u.run].pc = "wait" /\ ~run'[u.run].given /\ u.n = run'[u.run].n
      BY <1>3, <1>7, <1>10, <3>8 DEF Counted
    <3>10. \A u, v \in tasks' :
             Uncounted(u) /\ Uncounted(v) /\ u.run = v.run /\ u.kind = v.kind => u = v
      BY <1>3, <1>10 DEF Counted
    <3>11. \A j \in Runs : run'[j].pc = "wait" /\ ~run'[j].given =>
             run'[j].counter + Num(Due(j, "full")') + Num(Due(j, "tags")')
               = TestCount(run'[j].profs)
      BY <1>5, <1>7, <1>10, <2>1, <3>3 DEF Counted, At, Num
    <3> QED
      BY <3>6, <3>9, <3>10, <3>11 DEF Counted, Uncounted, At, Num
  <2> QED
    BY <1>4, <2>2, <2>3
<1>11. Taken => Taken'
  <2>1. locked' => locked
    BY <1>2, <1>4
  <2> QED
    BY <1>8, <2>1 DEF Taken
<1> QED
  BY <1>9, <1>10, <1>11

-----------------------------------------------------------------------------
\* Steps that leave the runs, the pool and the mutex alone.
LEMMA ElsewhereSafe ==
  ASSUME Batches, UNCHANGED <<run, tasks, locked>>
  PROVE  Batches' /\ (Taken => Taken' \/ stop)
         /\ (Owned /\ Counted => Owned' /\ Counted')
<1>1. run' = run /\ tasks' = tasks /\ locked' = locked
  OBVIOUS
<1>2. Batches'
  BY <1>1 DEF Batches, LambdaLive
<1>3. Owned => Owned'
  BY <1>1 DEF Owned, At
<1>4. Counted => Counted'
  BY <1>1 DEF Counted, At, Due
<1>5. Taken => Taken'
  BY <1>1 DEF Taken
<1> QED
  BY <1>2, <1>3, <1>4, <1>5

\* The record of a run that is asked for.
LEMMA AskedRecord ==
  ASSUME NEW kind, NEW ids
  PROVE  [Idle EXCEPT !.pc = "start", !.kind = kind, !.ids = ids]
           = [pc |-> "start", kind |-> kind, ids |-> ids, profs |-> <<>>,
              after |-> "collect", n |-> 0, counter |-> 0, left |-> 0, given |-> FALSE]
<1> DEFINE no == FALSE
           a == [Idle EXCEPT !.pc = "start"]
           b == [a EXCEPT !.kind = kind]
           Rec(pc, k, i) ==
             [pc |-> pc, kind |-> k, ids |-> i, profs |-> <<>>, after |-> "collect",
              n |-> 0, counter |-> 0, left |-> 0, given |-> no]
<1>1. Idle = Rec("idle", "url", <<>>)
  BY DEF Idle
<1> HIDE DEF no \* the provers want no Boolean literal in the record
<1>2. a = Rec("start", "url", <<>>)
  BY <1>1
<1> HIDE DEF a
<1>3. b = Rec("start", kind, <<>>)
  BY <1>2
<1> HIDE DEF b
<1>4. [b EXCEPT !.ids = ids] = Rec("start", kind, ids)
  BY <1>3
<1> QED
  BY <1>4 DEF a, b, no

\* A request takes a free mutex.
LEMMA AskMoves ==
  ASSUME Batches, NEW i \in Runs, NEW kind, NEW ids, Ask(i, kind, ids)
  PROVE  \E r : RunMoves(i, r)
<1> DEFINE asked == IF kind = "current" THEN <<>> ELSE ids
           r == [Idle EXCEPT !.pc = "start", !.kind = kind, !.ids = asked]
<1>1. run' = [run EXCEPT ![i] = r] /\ ~locked /\ locked' /\ UNCHANGED <<tasks, raced>>
      /\ run[i].pc = "idle"
  BY DEF Ask, tryLock, Threads, At
<1> HIDE DEF asked
<1>2. r = [pc |-> "start", kind |-> kind, ids |-> asked, profs |-> <<>>,
           after |-> "collect", n |-> 0, counter |-> 0, left |-> 0, given |-> FALSE]
  BY AskedRecord
<1> HIDE DEF r
<1>3. RunRecord(r) /\ r.pc = "start" /\ r.n = 0
  BY <1>2 DEF RunRecord, Pcs
<1>4. run[i].n = 0
  BY <1>1 DEF Batches, RunRecord
<1> QED
  BY <1>1, <1>3, <1>4 DEF RunMoves, FreePcs

\* The pcs at which a record's fields need not agree.
Plain == Pcs \ {"idle", "build", "arm", "wait", "pass"}

LEMMA PlainPcs ==
  {"ask", "collect", "final", "finish", "done", "next", "speedBuild", "asked",
   "again", "end"} \subseteq Plain
  BY DEF Plain, Pcs

LEMMA RunUpdates ==
  ASSUME NEW x, RunRecord(x), NEW pc \in Pcs, pc # "idle", NEW a, NEW b, NEW c, NEW s,
         s = [pc |-> pc, kind |-> x.kind, ids |-> x.ids, profs |-> a, after |-> b,
              n |-> x.n, counter |-> x.counter, left |-> c, given |-> x.given],
         pc \in {"build", "arm", "wait", "pass"} => b \in {"relock", "finish"}
  PROVE  RunRecord(s) /\ s.pc = pc /\ s.n = x.n
<1>1. /\ s.pc = pc /\ s.kind = x.kind /\ s.ids = x.ids /\ s.profs = a /\ s.after = b
      /\ s.n = x.n /\ s.counter = x.counter /\ s.left = c
  OBVIOUS
<1>2. s.given = x.given
  BY Zenon
<1> QED
  BY <1>1, <1>2 DEF RunRecord

LEMMA RunAfter ==
  ASSUME NEW x, RunRecord(x), NEW pc \in {"build", "final"}, NEW after,
         pc = "build" => after \in {"relock", "finish"}
  PROVE  LET s == SetAfter(x, pc, after) IN RunRecord(s) /\ s.pc = pc /\ s.n = x.n
<1> DEFINE s == SetAfter(x, pc, after)
           u == [x EXCEPT !.pc = pc]
<1>1. s = [pc |-> pc, kind |-> x.kind, ids |-> x.ids, profs |-> x.profs,
           after |-> after, n |-> x.n, counter |-> x.counter,
           left |-> x.left, given |-> x.given]
  <2>1. u = [pc |-> pc, kind |-> x.kind, ids |-> x.ids, profs |-> x.profs,
             after |-> x.after, n |-> x.n, counter |-> x.counter, left |-> x.left,
             given |-> x.given]
    BY DEF RunRecord
  <2>2. s = [u EXCEPT !.after = after]
    BY DEF SetAfter
  <2> HIDE DEF s, u
  <2> QED
    BY <2>1, <2>2
<1> HIDE DEF s
<1>2. RunRecord(s) /\ s.pc = pc /\ s.n = x.n
  BY <1>1, RunUpdates DEF Plain, Pcs
<1> QED
  BY <1>2 DEF s

LEMMA RunLeft ==
  ASSUME NEW x, RunRecord(x), NEW pc \in Plain, NEW left
  PROVE  LET s == SetLeft(x, pc, left) IN RunRecord(s) /\ s.pc = pc /\ s.n = x.n
<1> DEFINE s == SetLeft(x, pc, left)
           u == [x EXCEPT !.pc = pc]
<1>1. s = [pc |-> pc, kind |-> x.kind, ids |-> x.ids, profs |-> x.profs,
           after |-> x.after, n |-> x.n, counter |-> x.counter,
           left |-> left, given |-> x.given]
  <2>1. u = [pc |-> pc, kind |-> x.kind, ids |-> x.ids, profs |-> x.profs,
             after |-> x.after, n |-> x.n, counter |-> x.counter, left |-> x.left,
             given |-> x.given]
    BY DEF RunRecord
  <2>2. s = [u EXCEPT !.left = left]
    BY DEF SetLeft
  <2> HIDE DEF s, u
  <2> QED
    BY <2>1, <2>2
<1> HIDE DEF s
<1>2. RunRecord(s) /\ s.pc = pc /\ s.n = x.n
  BY <1>1, RunUpdates DEF Plain, Pcs
<1> QED
  BY <1>2 DEF s

LEMMA RunProfs ==
  ASSUME NEW x, RunRecord(x), NEW pc \in Plain, NEW profs
  PROVE  LET s == SetProfs(x, pc, profs) IN RunRecord(s) /\ s.pc = pc /\ s.n = x.n
<1> DEFINE s == SetProfs(x, pc, profs)
           u == [x EXCEPT !.pc = pc]
<1>1. s = [pc |-> pc, kind |-> x.kind, ids |-> x.ids, profs |-> profs,
           after |-> x.after, n |-> x.n, counter |-> x.counter,
           left |-> x.left, given |-> x.given]
  <2>1. u = [pc |-> pc, kind |-> x.kind, ids |-> x.ids, profs |-> x.profs,
             after |-> x.after, n |-> x.n, counter |-> x.counter, left |-> x.left,
             given |-> x.given]
    BY DEF RunRecord
  <2>2. s = [u EXCEPT !.profs = profs]
    BY DEF SetProfs
  <2> HIDE DEF s, u
  <2> QED
    BY <2>1, <2>2
<1> HIDE DEF s
<1>2. RunRecord(s) /\ s.pc = pc /\ s.n = x.n
  BY <1>1, RunUpdates DEF Plain, Pcs
<1> QED
  BY <1>2 DEF s

\* A step that writes the record x of run i anew, Arm and the batch's wait left out.
LEMMA Moves ==
  ASSUME Batches, NEW i \in Runs, NEW r, RunRecord(r), r.n = run[i].n,
         r.pc \notin {"wait", "pass"}, run[i].pc # "wait",
         run' = [run EXCEPT ![i] = r], UNCHANGED <<tasks, raced>>,
         \/ locked' = locked /\ (r.pc \in HoldPcs => run[i].pc \in HoldPcs)
         \/ ~locked /\ locked'
         \/ ~locked' /\ run[i].pc \in HoldPcs /\ r.pc \notin HoldPcs,
         \/ ~locked' \/ r.pc \notin FreePcs \/ stop
         \/ locked' = locked /\ run[i].pc \in FreePcs
  PROVE  RunMoves(i, r)
  BY DEF RunMoves

\* The steps of the URL test's thread.
LEMMA UrlMoves ==
  ASSUME Batches, NEW i \in Runs,
         \/ Begin(i) \/ CollectUrl(i) \/ FinalBatch(i) \/ Build(i)
         \/ Pass(i) \/ Relock(i) \/ Finish(i)
  PROVE  \E r : RunMoves(i, r)
<1> DEFINE x == run[i]
<1>0. RunRecord(x)
  BY DEF Batches
<1> HIDE DEF x
<1>1. CASE Begin(i)
  <2> DEFINE pc == IF x.kind = "current" THEN "ask" ELSE "collect"
             left == IF x.kind = "current" THEN 1 ELSE 0
             r == SetLeft(x, pc, left)
  <2>1. pc \in {"ask", "collect"}
    OBVIOUS
  <2>2. run' = [run EXCEPT ![i] = r]
    BY <1>1 DEF x, Begin, SetLeft
  <2>3. x.pc = "start" /\ UNCHANGED <<tasks, raced, locked>>
    BY <1>1 DEF x, Begin, NoLock, Threads, At
  <2> HIDE DEF pc, left
  <2>4. RunRecord(r) /\ r.pc = pc /\ r.n = x.n
    BY <1>0, <2>1, PlainPcs, RunLeft
  <2> HIDE DEF r
  <2> QED
    BY <2>1, <2>2, <2>3, <2>4, Moves DEF HoldPcs, FreePcs, x
<1>2. CASE CollectUrl(i)
  <2> DEFINE c == Collected(x)
             go == Len(c.profs) = BatchSize /\ ~stop
             pc == IF go THEN "build" ELSE "final"
             after == IF go THEN "relock" ELSE c.after
             r == SetAfter(c, pc, after)
  <2>1. (pc = "build" /\ after = "relock") \/ pc = "final"
    OBVIOUS
  <2>2. run' = [run EXCEPT ![i] = r]
    BY <1>2 DEF x, CollectUrl, SetAfter
  <2>3. x.pc = "collect" /\ UNCHANGED <<tasks, raced, locked>>
    BY <1>2 DEF x, CollectUrl, NoLock, Threads, At
  <2>4. RunRecord(c) /\ c.n = x.n
    BY <1>0, CollectedRun
  <2> HIDE DEF pc, after, c
  <2>5. RunRecord(r) /\ r.pc = pc /\ r.n = x.n
    BY <2>1, <2>4, RunAfter
  <2> HIDE DEF r
  <2> QED
    BY <2>1, <2>2, <2>3, <2>5, Moves DEF HoldPcs, FreePcs, x
<1>3. CASE FinalBatch(i)
  <2>1. x.pc = "final" /\ UNCHANGED <<tasks, raced, locked>>
    BY <1>3 DEF x, FinalBatch, NoLock, Threads, At
  <2>2. PICK r : /\ run' = [run EXCEPT ![i] = r]
                 /\ \/ r = SetPc(x, "finish") /\ stop
                    \/ r = SetAfter(x, "build", "finish")
    <3>1. CASE stop
      BY <1>3, <3>1 DEF x, FinalBatch, Goto, SetPc
    <3>2. CASE ~stop
      BY <1>3, <3>2 DEF x, FinalBatch, SetAfter
    <3> QED
      BY <3>1, <3>2
  <2>3. /\ RunRecord(r) /\ r.n = x.n
        /\ r.pc = "build" \/ (r.pc = "finish" /\ stop)
    <3> DEFINE f == SetPc(x, "finish")
               b == SetAfter(x, "build", "finish")
    <3>1. RunRecord(f) /\ f.pc = "finish" /\ f.n = x.n
      BY <1>0, RunPc DEF Pcs
    <3>2. RunRecord(b) /\ b.pc = "build" /\ b.n = x.n
      BY <1>0, RunAfter
    <3> HIDE DEF f, b
    <3> QED
      BY <2>2, <3>1, <3>2 DEF f, b
  <2> QED
    BY <2>1, <2>2, <2>3, Moves DEF HoldPcs, FreePcs, x
<1>4. CASE Build(i) \/ Pass(i)
  <2>1. x.pc \in {"build", "pass"} /\ x.after \in {"relock", "finish"}
        /\ UNCHANGED <<tasks, raced>>
    BY <1>0, <1>4 DEF x, Build, Pass, At, Unlock, NoLock, Threads, RunRecord
  <2>2. PICK pc \in {"arm", x.after} :
          /\ run' = [run EXCEPT ![i].pc = pc]
          /\ (pc = x.after /\ ~locked') \/ (pc = "arm" /\ locked' = locked)
    BY <1>4 DEF x, Build, Pass, Goto, Unlock, NoLock
  <2> DEFINE r == SetPc(x, pc)
  <2>3. run' = [run EXCEPT ![i] = r]
    BY <2>2 DEF x, SetPc
  <2>4. RunRecord(r) /\ r.pc = pc /\ r.n = x.n
    BY <1>0, <2>1, <2>2, RunPc DEF Pcs
  <2> HIDE DEF r
  <2> QED
    BY <2>1, <2>2, <2>3, <2>4, Moves DEF HoldPcs, FreePcs, x
<1>5. CASE Relock(i)
  <2> DEFINE r == SetProfs(x, "collect", <<>>)
  <2>1. run' = [run EXCEPT ![i] = r]
    BY <1>5 DEF x, Relock, SetProfs
  <2>2. x.pc = "relock" /\ UNCHANGED <<tasks, raced>> /\ ~locked /\ locked'
    BY <1>5 DEF x, Relock, Lock, Threads, At
  <2>3. RunRecord(r) /\ r.pc = "collect" /\ r.n = x.n
    BY <1>0, PlainPcs, RunProfs
  <2> HIDE DEF r
  <2> QED
    BY <2>1, <2>2, <2>3, Moves DEF x, FreePcs
<1>6. CASE Finish(i)
  <2> DEFINE r == SetPc(x, "done")
  <2>1. run' = [run EXCEPT ![i] = r]
    BY <1>6 DEF x, Finish, Goto, SetPc
  <2>2. x.pc = "finish" /\ UNCHANGED <<tasks, raced, locked>>
    BY <1>6 DEF x, Finish, NoLock, Threads, At
  <2>3. RunRecord(r) /\ r.pc = "done" /\ r.n = x.n
    BY <1>0, RunPc DEF Pcs
  <2> HIDE DEF r
  <2> QED
    BY <2>1, <2>2, <2>3, Moves DEF HoldPcs, FreePcs, x
<1> QED
  BY <1>1, <1>2, <1>3, <1>4, <1>5, <1>6

\* The steps of the speed test's thread.
LEMMA SpeedMoves ==
  ASSUME Batches, NEW i \in Runs,
         \/ CollectSpeed(i) \/ BuildSpeed(i) \/ runSpeedTest(i) \/ SpeedTestReturns(i)
         \/ SpeedBatchDone(i) \/ NextBatch(i) \/ LockAgain(i) \/ SpeedEnd(i)
  PROVE  \E r : RunMoves(i, r)
<1> DEFINE x == run[i]
<1>0. RunRecord(x)
  BY DEF Batches
<1> HIDE DEF x
<1>1. CASE CollectSpeed(i)
  <2> DEFINE c == Collected(x)
  <2>1. PICK r : /\ run' = [run EXCEPT ![i] = r]
                 /\ r \in {SetProfs(c, "next", <<>>), SetPc(c, "speedBuild")}
    <3>1. CASE stop
      BY <1>1, <3>1 DEF x, CollectSpeed, SetProfs
    <3>2. CASE ~stop
      BY <1>1, <3>2 DEF x, CollectSpeed, SetPc
    <3> QED
      BY <3>1, <3>2
  <2>2. x.pc = "collect" /\ UNCHANGED <<tasks, raced, locked>>
    BY <1>1 DEF x, CollectSpeed, NoLock, Threads, At
  <2>3. RunRecord(c) /\ c.n = x.n
    BY <1>0, CollectedRun
  <2>4. RunRecord(r) /\ r.pc \in {"next", "speedBuild"} /\ r.n = x.n
    <3> HIDE DEF c
    <3> DEFINE f == SetProfs(c, "next", <<>>)
               b == SetPc(c, "speedBuild")
    <3>1. RunRecord(f) /\ f.pc = "next" /\ f.n = c.n
      BY <2>3, PlainPcs, RunProfs
    <3>2. RunRecord(b) /\ b.pc = "speedBuild" /\ b.n = c.n
      BY <2>3, RunPc DEF Pcs
    <3> HIDE DEF f, b
    <3> QED
      BY <2>1, <2>3, <3>1, <3>2 DEF f, b
  <2> QED
    BY <2>1, <2>2, <2>4, Moves DEF HoldPcs, FreePcs, x
<1>2. CASE BuildSpeed(i)
  <2>1. x.pc = "speedBuild" /\ UNCHANGED <<tasks, raced, locked>>
    BY <1>2 DEF x, BuildSpeed, NoLock, Threads, At
  <2>2. CASE BuildFails(x.profs)
    <3> DEFINE r == SetPc(x, "next")
    <3>1. run' = [run EXCEPT ![i] = r]
      BY <1>2, <2>2 DEF x, BuildSpeed, Goto, SetPc
    <3>2. RunRecord(r) /\ r.pc = "next" /\ r.n = x.n
      BY <1>0, RunPc DEF Pcs
    <3> HIDE DEF r
    <3> QED
      BY <2>1, <3>1, <3>2, Moves DEF HoldPcs, FreePcs, x
  <2>3. CASE ~BuildFails(x.profs)
    <3> DEFINE left == Len(Fulls(x.profs))
                         + (IF DOMAIN TagMap(x.profs) = {} THEN 0 ELSE 1)
               r == SetLeft(x, "ask", left)
    <3>1. run' = [run EXCEPT ![i] = r]
      BY <1>2, <2>3 DEF x, BuildSpeed, SetLeft
    <3> HIDE DEF left
    <3>2. RunRecord(r) /\ r.pc = "ask" /\ r.n = x.n
      BY <1>0, PlainPcs, RunLeft
    <3> HIDE DEF r
    <3> QED
      BY <2>1, <3>1, <3>2, Moves DEF HoldPcs, FreePcs, x
  <2> QED
    BY <2>2, <2>3
<1>3. CASE runSpeedTest(i) \/ SpeedTestReturns(i) \/ SpeedBatchDone(i)
  <2>1. x.pc \in {"ask", "asked"} /\ UNCHANGED <<tasks, raced, locked>>
    BY <1>3 DEF x, runSpeedTest, SpeedTestReturns, SpeedBatchDone, NoLock, Threads, At
  <2>2. PICK pc \in {"ask", "asked", "next", "end"} :
          \E left, profs :
            \E r \in {SetPc(x, pc), SetLeft(x, pc, left), SetProfs(x, pc, profs)} :
              run' = [run EXCEPT ![i] = r]
    <3>1. CASE runSpeedTest(i)
      <4>1. CASE stop
        <5> DEFINE left == x.left - 1
        <5>1. run' = [run EXCEPT ![i] = [x EXCEPT !.left = left]] /\ x.pc = "ask"
          BY <3>1, <4>1 DEF x, runSpeedTest, At
        <5>2. [x EXCEPT !.left = left] = SetLeft(x, "ask", left)
          <6> HIDE DEF left
          <6> QED
            BY <1>0, <5>1 DEF SetLeft, RunRecord
        <5> HIDE DEF left
        <5> QED
          BY <5>1, <5>2
      <4>2. CASE ~stop
        <5>1. run' = [run EXCEPT ![i] = SetPc(x, "asked")]
          BY <3>1, <4>2 DEF x, runSpeedTest, Goto, SetPc
        <5> QED
          BY <5>1
      <4> QED
        BY <4>1, <4>2
    <3>2. CASE SpeedTestReturns(i)
      <4> DEFINE left == x.left - 1
      <4>1. run' = [run EXCEPT ![i] = SetLeft(x, "ask", left)]
        BY <3>2 DEF x, SpeedTestReturns, SetLeft
      <4> HIDE DEF left
      <4> QED
        BY <4>1
    <3>3. CASE SpeedBatchDone(i)
      <4> DEFINE pc == IF x.kind = "current" THEN "end" ELSE "next"
      <4>1. run' = [run EXCEPT ![i] = SetProfs(x, pc, <<>>)]
        BY <3>3 DEF x, SpeedBatchDone, SetProfs
      <4>2. pc \in {"end", "next"}
        OBVIOUS
      <4> HIDE DEF pc
      <4> QED
        BY <4>1, <4>2
    <3> QED
      BY <1>3, <3>1, <3>2, <3>3
  <2>3. PICK left, profs : \E r \in {SetPc(x, pc), SetLeft(x, pc, left), SetProfs(x, pc, profs)} :
                             run' = [run EXCEPT ![i] = r]
    BY <2>2
  <2>4. PICK r \in {SetPc(x, pc), SetLeft(x, pc, left), SetProfs(x, pc, profs)} :
          run' = [run EXCEPT ![i] = r]
    BY <2>3
  <2>5. RunRecord(r) /\ r.pc = pc /\ r.n = x.n
    <3>1. pc \in Plain /\ pc \in Pcs \ {"idle"} /\ pc \notin {"build", "arm", "wait", "pass"}
      BY PlainPcs DEF Plain
    <3> QED
      BY <1>0, <2>4, <3>1, RunPc, RunLeft, RunProfs
  <2> QED
    BY <2>1, <2>4, <2>5, Moves DEF HoldPcs, FreePcs, x
<1>4. CASE NextBatch(i) \/ LockAgain(i) \/ SpeedEnd(i)
  <2>1. PICK pc \in {"again", "end", "collect", "done"} :
          /\ run' = [run EXCEPT ![i] = SetPc(x, pc)]
          /\ UNCHANGED <<tasks, raced>> /\ x.pc \in {"next", "again", "end"}
          /\ \/ pc \in {"again", "end"} /\ locked' = locked
             \/ pc = "collect" /\ ~locked /\ locked'
             \/ pc = "done" /\ ~locked'
    <3>1. CASE NextBatch(i)
      BY <3>1 DEF x, NextBatch, Goto, NoLock, Threads, At, SetPc
    <3>2. CASE LockAgain(i)
      BY <3>2 DEF x, LockAgain, Lock, Goto, Threads, At, SetPc
    <3>3. CASE SpeedEnd(i)
      BY <3>3 DEF x, SpeedEnd, Unlock, Goto, Threads, At, SetPc
    <3> QED
      BY <1>4, <3>1, <3>2, <3>3
  <2> DEFINE r == SetPc(x, pc)
  <2>2. RunRecord(r) /\ r.pc = pc /\ r.n = x.n
    BY <1>0, RunPc DEF Pcs
  <2> HIDE DEF r
  <2> QED
    BY <2>1, <2>2, Moves DEF HoldPcs, FreePcs, x, r
<1> QED
  BY <1>1, <1>2, <1>3, <1>4

\* The run has its mutex back: the batch is through.
LEMMA WaitMoves ==
  ASSUME Batches, NEW i \in Runs, WaitTests(i)
  PROVE  \E r : RunMoves(i, r)
<1> DEFINE x == run[i]
           r == SetPc(x, "pass")
<1>0. RunRecord(x)
  BY DEF Batches
<1>1. run' = [run EXCEPT ![i] = r]
  BY DEF WaitTests, Goto, SetPc
<1>2. x.pc = "wait" /\ UNCHANGED <<tasks, raced>> /\ ~locked /\ locked'
  BY DEF WaitTests, Lock, Threads, At
<1> HIDE DEF x
<1>3. RunRecord(r) /\ r.pc = "pass" /\ r.n = x.n /\ r.given = x.given /\ r.profs = x.profs
  <2>1. x.after \in {"relock", "finish"}
    BY <1>0, <1>2 DEF RunRecord
  <2> QED
    BY <1>0, <2>1, RunPc DEF Pcs
<1> HIDE DEF r
<1> QED
  BY <1>1, <1>2, <1>3 DEF RunMoves, FreePcs, x

\* Every step of a run's thread.
LEMMA RunSafe ==
  ASSUME Batches, NEW i \in Runs,
         RunStep(i) \/ \E kind \in Kinds, ids \in Selections : Ask(i, kind, ids)
  PROVE  Batches' /\ (Taken => Taken' \/ stop)
         /\ (Owned /\ Counted => Owned' /\ Counted')
<1>1. Arm(i) \/ \E r : RunMoves(i, r)
  BY AskMoves, UrlMoves, SpeedMoves, WaitMoves DEF RunStep
<1> QED
  BY <1>1, ArmSafe, RunMovesSafe

\* Every step of a task, the answer that never comes among them.
LEMMA TaskSafe ==
  ASSUME Batches, NEW t \in tasks, TaskStep(t) \/ TestFails(t)
  PROVE  /\ Batches' /\ (Taken => Taken' \/ stop)
         /\ Owned /\ Counted => "strayUnlock" \in raced' \/ (Owned' /\ Counted')
<1>1. TaskRecord(t)
  BY DEF Batches
<1>2. CASE CountTask(t) \/ LoadCounter(t)
  BY <1>2, CountSafe, LoadSafe
<1>3. CASE runURLTest(t) \/ TestsOver(t) \/ TestAnswers(t) \/ SaveResults(t) \/ TestFails(t)
  <2>1. Uncounted(t) /\ UNCHANGED <<run, locked>>
    BY <1>3 DEF runURLTest, TestsOver, TestAnswers, SaveResults, TestFails, Uncounted,
                Runner, NoLock
  <2>2. PICK pc \in {"test", "asked", "save", "count"} :
          \E res, todo : \E r \in Onward(t, pc, todo, res) : Now(t, r)
    <3>1. CASE runURLTest(t)
      <4>1. Now(t, [t EXCEPT !.pc = "asked"])
        BY <3>1 DEF runURLTest
      <4> QED
        BY <4>1 DEF Onward
    <3>2. CASE TestsOver(t)
      <4>1. Now(t, [t EXCEPT !.pc = "count"])
        BY <3>2 DEF TestsOver
      <4> QED
        BY <4>1 DEF Onward
    <3>3. CASE TestAnswers(t)
      <4>1. PICK res : Now(t, [t EXCEPT !.pc = "save", !.res = res])
        BY <3>3 DEF TestAnswers
      <4> QED
        BY <4>1 DEF Onward
    <3>4. CASE SaveResults(t) \/ TestFails(t)
      <4> DEFINE pc == IF t.kind = "full" THEN "test" ELSE "count"
                 todo == IF t.kind = "full" THEN Tail(t.todo) ELSE t.todo
      <4>1. Now(t, [t EXCEPT !.pc = pc, !.todo = todo, !.res = {}])
        BY <3>4 DEF SaveResults, TestFails, Advanced
      <4>2. pc \in {"test", "count"}
        OBVIOUS
      <4> HIDE DEF pc, todo
      <4> QED
        BY <4>1, <4>2 DEF Onward
    <3> QED
      BY <1>3, <3>1, <3>2, <3>3, <3>4
  <2>3. PICK res, todo : \E r \in Onward(t, pc, todo, res) : Now(t, r)
    BY <2>2
  <2>4. PICK r \in Onward(t, pc, todo, res) : Now(t, r)
    BY <2>3
  <2>5. /\ TaskRecord(r) /\ r.pc = pc
        /\ r.run = t.run /\ r.kind = t.kind /\ r.n = t.n /\ r.profs = t.profs
    BY <1>1, <2>4, TaskUpdate
  <2>6. Uncounted(r)
    BY <2>2, <2>5 DEF Uncounted
  <2> QED
    BY <2>1, <2>4, <2>5, <2>6, TaskGoesOn
<1> QED
  BY <1>2, <1>3 DEF TaskStep

-----------------------------------------------------------------------------
\* At the start every run is idle.
LEMMA MutexInit == Init => MutexInv
<1> SUFFICES ASSUME Init PROVE MutexInv
  OBVIOUS
<1>1. run = [i \in Runs |-> Idle] /\ tasks = {}
  BY DEF Init
<1>2. RunRecord(Idle) /\ Idle.pc = "idle"
  BY DEF RunRecord, Idle, Pcs
<1>3. \A i \in Runs : run[i] = Idle
  BY <1>1
<1>4. Batches
  BY <1>1, <1>2, <1>3 DEF Batches
<1>5. Owned /\ Counted
  BY <1>1, <1>2, <1>3 DEF Owned, Counted, Owns, HoldPcs, At
<1> QED
  BY <1>4, <1>5 DEF MutexInv

\* A stray unlock is not forgotten.
LEMMA StrayStays == ASSUME [Next]_vars, "strayUnlock" \in raced PROVE "strayUnlock" \in raced'
  BY ZenonT(30) DEF Next, vars, Ask, RunStep, Begin, CollectUrl, FinalBatch, Build, Arm, WaitTests,
         Pass, Relock, Finish, CollectSpeed, BuildSpeed, runSpeedTest, SpeedTestReturns,
         SpeedBatchDone, NextBatch, LockAgain, SpeedEnd, TaskStep, TestFails, runURLTest,
         TestsOver, TestAnswers, SaveResults, CountTask, LoadCounter, PollStep, PollWakes,
         QueryURLTest, PollApplies, CoreStep, TestBegins, TestUnheard, BatchURLTest,
         stopTests, StopTest, NoLock, Unlock

\* Every step.
LEMMA StepSafe ==
  ASSUME Batches, [Next]_vars
  PROVE  /\ Batches' /\ (Taken => Taken' \/ stop)
         /\ Owned /\ Counted => "strayUnlock" \in raced' \/ (Owned' /\ Counted')
<1>1. CASE \E i \in Runs, kind \in Kinds, ids \in Selections : Ask(i, kind, ids)
  BY <1>1, RunSafe
<1>2. CASE \E i \in Runs : RunStep(i)
  BY <1>2, RunSafe
<1>3. CASE \E t \in tasks : TaskStep(t) \/ TestFails(t)
  BY <1>3, TaskSafe
<1>4. CASE \/ \E q \in pollers : PollStep(q)
           \/ \E c \in core : CoreStep(c)
           \/ stopTests \/ StopTest \/ UNCHANGED vars
  <2>1. UNCHANGED <<run, tasks, locked>>
    BY <1>4 DEF PollStep, PollWakes, QueryURLTest, PollApplies, Workers, CoreStep,
                TestBegins, TestUnheard, BatchURLTest, Gui, stopTests, StopTest,
                NoLock, vars
  <2> QED
    BY <2>1, ElsewhereSafe
<1>5. \/ \E i \in Runs, kind \in Kinds, ids \in Selections : Ask(i, kind, ids)
      \/ \E i \in Runs : RunStep(i)
      \/ \E t \in tasks : TaskStep(t) \/ TestFails(t)
      \/ \E q \in pollers : PollStep(q)
      \/ \E c \in core : CoreStep(c)
      \/ stopTests \/ StopTest \/ UNCHANGED vars
  BY DEF Next
<1> QED
  BY <1>1, <1>2, <1>3, <1>4, <1>5, Zenon

\* Every step keeps the invariant.
LEMMA MutexStep == ASSUME MutexInv, [Next]_vars PROVE MutexInv'
  BY StepSafe, StrayStays DEF MutexInv

\* No two runs make calls at a time, for any number of runs, profiles, batches and
\* stops, unless some batch unlocked a mutex that was not its own
\* (mainwindow_rpc.cpp:238-253).
THEOREM RunsAreApart == Spec => []OneRunAtATime
<1>1. MutexInv => OneRunAtATime
  <2> SUFFICES ASSUME MutexInv, NEW i \in Runs, NEW j \in Runs, i # j,
                      Testing(i), Testing(j), "strayUnlock" \notin raced
               PROVE  FALSE
    BY DEF OneRunAtATime
  <2>1. ASSUME NEW k \in Runs, Testing(k) PROVE Owns(run[k])
    <3>1. CASE run[k].pc \in {"ask", "asked"}
      BY <3>1 DEF Owns, HoldPcs
    <3>2. CASE \E t \in tasks : t.run = k /\ t.pc \in {"test", "asked", "save"}
      BY <3>2 DEF MutexInv, Counted, Uncounted, Owns
    <3> QED
      BY <2>1, <3>1, <3>2 DEF Testing
  <2> QED
    BY <2>1 DEF MutexInv, Owned
<1> QED
  BY <1>1, MutexInit, MutexStep, PTL DEF Spec

\* While nobody stops, some run has yet to give the mutex back.
LockInv == Batches /\ stops \in Nat /\ (stops = 0 => ~stop /\ Taken)

\* The stop flag is raised by a stop, and by nothing else.
LEMMA StopStep ==
  ASSUME stops \in Nat, [Next]_vars
  PROVE  stops' \in Nat /\ (stops' = 0 => stops = 0 /\ (stop' => stop))
<1>1. CASE stopTests
  BY <1>1 DEF stopTests
<1>2. ASSUME NEW i \in Runs,
             RunStep(i) \/ \E kind \in Kinds, ids \in Selections : Ask(i, kind, ids)
      PROVE  UNCHANGED stops /\ (UNCHANGED stop \/ ~stop')
  BY <1>2 DEF Ask, RunStep, Begin, CollectUrl, FinalBatch, Build, Arm, WaitTests, Pass,
       Relock, Finish, CollectSpeed, BuildSpeed, runSpeedTest, SpeedTestReturns,
       SpeedBatchDone, NextBatch, LockAgain, SpeedEnd, Threads
<1>3. ASSUME NEW t \in tasks, TaskStep(t) \/ TestFails(t)
      PROVE  UNCHANGED <<stop, stops>>
  BY <1>3 DEF TaskStep, TestFails, runURLTest, TestsOver, TestAnswers, SaveResults,
       CountTask, LoadCounter, Runner
<1>4. ASSUME \/ \E q \in pollers : PollStep(q)
             \/ \E c \in core : CoreStep(c)
             \/ StopTest \/ UNCHANGED vars
      PROVE  UNCHANGED <<stop, stops>>
  BY <1>4 DEF PollStep, PollWakes, QueryURLTest, PollApplies, Workers, CoreStep,
       TestBegins, TestUnheard, BatchURLTest, Gui, StopTest, vars
<1>5. stopTests \/ (UNCHANGED stops /\ (UNCHANGED stop \/ ~stop'))
  BY <1>2, <1>3, <1>4 DEF Next
<1> QED
  BY <1>1, <1>5

\* Only a stop can leave the mutex behind: every other way out of a run gives it
\* back (mainwindow_rpc.cpp:219, 240, 252, 257).
THEOREM LeakNeedsStop == Spec => []LeakOnlyAfterStop
<1>1. Init => LockInv
  BY MutexInit DEF Init, LockInv, MutexInv, Taken
<1>2. LockInv /\ [Next]_vars => LockInv'
  BY StepSafe, StopStep DEF LockInv
<1>3. LockInv => LeakOnlyAfterStop
  BY DEF LockInv, LeakOnlyAfterStop, Taken, FreePcs, Ended
<1> QED
  BY <1>1, <1>2, <1>3, PTL DEF Spec
-----------------------------------------------------------------------------
(***************************************************************************)
(* Whose latency a result becomes.                                         *)
(***************************************************************************)

\* The outbounds a call of the task is about, as pairs of tag and profile.
Out(t) ==
  IF t.kind = "tags" THEN TagOutbounds(t.profs) ELSE FullOutbound(Head(t.todo))

\* The results are of these outbounds, and none is without one but those still to be measured.
Whole(res, rest, t) ==
  /\ rest \subseteq Out(t)
  /\ \A x \in Out(t) : x \in rest \/ \E r \in res : r[1] = x[1]
  /\ \A r \in res : \E x \in Out(t) : r[1] = x[1] /\ r[2] \in {x[2], "aborted"}

\* A task waits for the answer of this call.
Waits(t, call) == t.pc = "asked" /\ CallOf(t) = call

\* The map with which the poller of the task files results.
MapOf(t) == IF t.kind = "tags" THEN TagMap(t.profs) ELSE <<>>

\* The same function of the same batch.
SameTask(t, u) == t.run = u.run /\ t.kind = u.kind /\ t.n = u.n

\* What a test in the core and a poller are, whatever is in them.
CoreRecord(c) ==
  c = [call |-> c.call, pc |-> c.pc, cancelled |-> c.cancelled, res |-> c.res,
       todo |-> c.todo]
PollRecord(q) ==
  q = [call |-> q.call, pc |-> q.pc, done |-> q.done, hand |-> q.hand, map |-> q.map]

\* Each batch has one task of a kind, and the answer it has is whole.
TasksAre ==
  /\ \A t, u \in tasks : SameTask(t, u) => t = u
  /\ \A t \in tasks : t.pc = "save" => Whole(t.res, {}, t)

\* Each test in the core is the only one of its call, and a task waits for it.
CoreIs ==
  /\ \A c \in core :
       CoreRecord(c) /\ \E t \in tasks : Waits(t, c.call) /\ Whole(c.res, c.todo, t)
  /\ \A c, d \in core : c.call = d.call => c = d

\* A poller that has not been told to end has the map of a task that still waits, and so
\* whatever it files wrongly will be overwritten by the answer.
PollersAre ==
  \A q \in pollers :
    PollRecord(q) /\ (~q.done => \E t \in tasks : Waits(t, q.call) /\ q.map = MapOf(t))

\* A latency that is another's is one that an answer still to be saved overwrites.
LatenciesAre ==
  \A p \in Profiles :
    \/ latency[p] \in {p, "none", "aborted"}
    \/ \E t \in tasks : t.pc \in {"asked", "save"} /\ p \in Range(MapOf(t))

\* Together they keep the results of batches, full configurations and runs apart.
Results == TasksAre /\ CoreIs /\ PollersAre /\ LatenciesAre

\* An answer that never came, or a poller that wrote after it, ends all this.
Spoilt == raced \cap {"noAnswer", "latePoll"} # {}

\* The invariant: the results are apart, unless they are spoilt.
ResultInv == Batches /\ (Spoilt \/ Results)

\* A call names its task.
LEMMA CallNames ==
  ASSUME NEW t, NEW u, CallOf(t) = CallOf(u)
  PROVE  SameTask(t, u)
BY DEF CallOf, SameTask

\* A task that goes on is the only one of its kind still.
LEMMA TaskGoes ==
  ASSUME TasksAre, NEW t \in tasks, NEW s, tasks' = (tasks \ {t}) \cup {s},
         SameTask(s, t), s.pc = "save" => Whole(s.res, {}, s)
  PROVE  TasksAre'
<1>1. \A r, u \in tasks' : SameTask(r, u) => r = u
  BY DEF TasksAre, SameTask
<1>2. \A u \in tasks' : u.pc = "save" => Whole(u.res, {}, u)
  BY DEF TasksAre
<1> QED
  BY <1>1, <1>2 DEF TasksAre

\* A task that makes no call and has no answer in hand comes and goes unnoticed.
LEMMA OthersStay ==
  ASSUME CoreIs, PollersAre, LatenciesAre, NEW T,
         \A t \in tasks : t.pc \in {"asked", "save"} => t \in T,
         tasks' = T, UNCHANGED <<core, pollers, latency>>
  PROVE  CoreIs' /\ PollersAre' /\ LatenciesAre'
<1>1. CoreIs'
  BY DEF CoreIs, Waits
<1>2. PollersAre'
  BY DEF PollersAre, Waits
<1>3. LatenciesAre'
  BY DEF LatenciesAre
<1> QED
  BY <1>1, <1>2, <1>3

\* The run's own thread gives a batch's tasks to the pool; nothing else of it matters here.
LEMMA RunResults ==
  ASSUME Batches, Results, NEW i \in Runs,
         RunStep(i) \/ \E kind \in Kinds, ids \in Selections : Ask(i, kind, ids)
  PROVE  Results'
<1>1. CASE Arm(i)
  <2> DEFINE profs == run[i].profs
             n == run[i].n + 1
  <2>1. PICK f, g : /\ f = Task(i, "full", n, Fulls(profs), profs)
                    /\ g = Task(i, "tags", n, <<>>, profs)
    OBVIOUS
  <2>2. /\ tasks \subseteq tasks' /\ tasks' \subseteq tasks \cup {f, g}
        /\ UNCHANGED <<core, pollers, latency>>
    BY <1>1, <2>1 DEF Arm
  <2>3. /\ f.run = i /\ f.kind = "full" /\ f.n = n /\ f.pc = "test"
        /\ g.run = i /\ g.kind = "tags" /\ g.n = n /\ g.pc = "test"
    BY <2>1 DEF Task
  <2>4. \A t \in tasks : t.run = i => t.n # n
    BY DEF Batches, RunRecord, TaskRecord
  <2> HIDE DEF n, profs
  <2>5. \A t, u \in tasks' : SameTask(t, u) => t = u
    BY <2>2, <2>3, <2>4 DEF Results, TasksAre, SameTask
  <2>6. \A t \in tasks' : t.pc = "save" => Whole(t.res, {}, t)
    BY <2>2, <2>3 DEF Results, TasksAre
  <2>7. TasksAre'
    BY <2>5, <2>6 DEF TasksAre
  <2> QED
    BY <2>2, <2>7, OthersStay DEF Results
<1>2. CASE \/ Begin(i) \/ CollectUrl(i) \/ FinalBatch(i) \/ Build(i)
           \/ WaitTests(i) \/ Pass(i) \/ Relock(i) \/ Finish(i)
           \/ CollectSpeed(i) \/ BuildSpeed(i) \/ runSpeedTest(i) \/ SpeedTestReturns(i)
           \/ SpeedBatchDone(i) \/ NextBatch(i) \/ LockAgain(i) \/ SpeedEnd(i)
           \/ \E kind \in Kinds, ids \in Selections : Ask(i, kind, ids)
  <2>1. UNCHANGED <<tasks, core, pollers, latency>>
    BY <1>2 DEF Ask, Begin, CollectUrl, FinalBatch, Build, WaitTests, Pass, Relock, Finish,
         CollectSpeed, BuildSpeed, runSpeedTest, SpeedTestReturns, SpeedBatchDone, NextBatch,
         LockAgain, SpeedEnd, Threads
  <2>2. TasksAre'
    BY <2>1 DEF Results, TasksAre
  <2> QED
    BY <2>1, <2>2, OthersStay DEF Results
<1> QED
  BY <1>1, <1>2 DEF RunStep

\* What a task becomes is the same task, of the same batch.
LEMMA TaskIs ==
  ASSUME NEW t, NEW s, NEW pc, NEW todo, NEW res,
         s = [run |-> t.run, kind |-> t.kind, n |-> t.n, pc |-> pc,
              todo |-> todo, profs |-> t.profs, res |-> res]
  PROVE  /\ SameTask(s, t) /\ s.pc = pc /\ s.res = res
         /\ todo = t.todo =>
              CallOf(s) = CallOf(t) /\ Out(s) = Out(t) /\ MapOf(s) = MapOf(t)
<1>1. /\ s.run = t.run /\ s.kind = t.kind /\ s.n = t.n /\ s.pc = pc
      /\ s.profs = t.profs /\ s.todo = todo /\ s.res = res
  OBVIOUS
<1> QED
  BY <1>1, Zenon DEF SameTask, CallOf, Out, MapOf

\* It goes on, with an answer or without one.
Onto(t, pc) == [t EXCEPT !.pc = pc]
Answered(t, pc, res) == [t EXCEPT !.pc = pc, !.res = res]

\* The call, its outbounds and the poller's map stay what they were.
LEMMA TaskOnto ==
  ASSUME NEW t, TaskRecord(t), NEW pc
  PROVE  /\ SameTask(Onto(t, pc), t) /\ Onto(t, pc).pc = pc
         /\ CallOf(Onto(t, pc)) = CallOf(t) /\ Out(Onto(t, pc)) = Out(t)
         /\ MapOf(Onto(t, pc)) = MapOf(t)
<1>1. Onto(t, pc) = [run |-> t.run, kind |-> t.kind, n |-> t.n, pc |-> pc,
                     todo |-> t.todo, profs |-> t.profs, res |-> t.res]
  BY DEF TaskRecord, Onto
<1> QED
  BY <1>1, TaskIs

\* With an answer too.
LEMMA TaskAnswered ==
  ASSUME NEW t, TaskRecord(t), NEW pc, NEW res
  PROVE  /\ SameTask(Answered(t, pc, res), t) /\ Answered(t, pc, res).pc = pc
         /\ Answered(t, pc, res).res = res
         /\ CallOf(Answered(t, pc, res)) = CallOf(t) /\ Out(Answered(t, pc, res)) = Out(t)
         /\ MapOf(Answered(t, pc, res)) = MapOf(t)
<1>1. Answered(t, pc, res) = [Onto(t, pc) EXCEPT !.res = res]
  BY Zenon DEF Answered, Onto
<1>2. Onto(t, pc) = [run |-> t.run, kind |-> t.kind, n |-> t.n, pc |-> pc,
                     todo |-> t.todo, profs |-> t.profs, res |-> t.res]
  BY DEF TaskRecord, Onto
<1>3. Answered(t, pc, res) = [run |-> t.run, kind |-> t.kind, n |-> t.n, pc |-> pc,
                              todo |-> t.todo, profs |-> t.profs, res |-> res]
  BY <1>1, <1>2
<1> QED
  BY <1>3, TaskIs

\* A call is begun: the poller and the test of it have a task that waits.
LEMMA CallResults ==
  ASSUME Batches, Results, NEW t \in tasks, runURLTest(t)
  PROVE  Results'
<1>1. TaskRecord(t) /\ t.pc = "test"
  BY DEF Batches, runURLTest
<1>2. PICK s : s = Onto(t, "asked")
  OBVIOUS
<1>3. PICK q : q = [call |-> CallOf(t), pc |-> "sleep", done |-> FALSE, hand |-> <<>>,
                    map |-> IF t.kind = "tags" THEN TagMap(t.profs) ELSE <<>>]
  OBVIOUS
<1>4. PICK c : c = [call |-> CallOf(t), pc |-> "create", cancelled |-> FALSE, res |-> {},
                    todo |-> IF t.kind = "tags" THEN TagOutbounds(t.profs)
                             ELSE FullOutbound(Head(t.todo))]
  OBVIOUS
<1>5. /\ tasks' = (tasks \ {t}) \cup {s} /\ pollers' = pollers \cup {q}
      /\ core' = core \cup {c} /\ latency' = latency
  BY <1>2, <1>3, <1>4, Zenon DEF runURLTest, Now, Replace, Onto
<1>6. /\ SameTask(s, t) /\ s.pc = "asked" /\ CallOf(s) = CallOf(t)
      /\ Out(s) = Out(t) /\ MapOf(s) = MapOf(t)
  BY <1>1, <1>2, TaskOnto
<1>7. PollRecord(q) /\ Waits(s, q.call) /\ q.map = MapOf(s)
  BY <1>3, <1>6 DEF PollRecord, Waits, MapOf
<1>8. CoreRecord(c) /\ c.call = CallOf(t) /\ Waits(s, c.call) /\ Whole(c.res, c.todo, s)
  BY <1>4, <1>6 DEF CoreRecord, Waits, Whole, Out
<1>9. \A d \in core : d.call # CallOf(t)
  BY <1>1, CallNames DEF Results, CoreIs, TasksAre, Waits
<1>10. TasksAre'
  <2>1. TasksAre /\ s.pc # "save"
    BY <1>6 DEF Results
  <2> QED
    BY <1>5, <1>6, <2>1, TaskGoes
<1>11. CoreIs'
  <2>1. ASSUME NEW d \in core
        PROVE  CoreRecord(d) /\ \E u \in tasks' : Waits(u, d.call) /\ Whole(d.res, d.todo, u)
    <3>1. PICK u \in tasks : Waits(u, d.call) /\ Whole(d.res, d.todo, u)
      BY DEF Results, CoreIs
    <3>2. u \in tasks'
      BY <1>1, <1>5, <3>1 DEF Waits
    <3> QED
      BY <3>1, <3>2 DEF Results, CoreIs
  <2>2. \A d \in core' :
          CoreRecord(d) /\ \E u \in tasks' : Waits(u, d.call) /\ Whole(d.res, d.todo, u)
    BY <1>5, <1>8, <2>1
  <2>3. \A d, e \in core' : d.call = e.call => d = e
    BY <1>5, <1>8, <1>9 DEF Results, CoreIs
  <2> QED
    BY <2>2, <2>3 DEF CoreIs
<1>12. PollersAre'
  <2>1. ASSUME NEW p \in pollers, ~p.done
        PROVE  \E u \in tasks' : Waits(u, p.call) /\ p.map = MapOf(u)
    <3>1. PICK u \in tasks : Waits(u, p.call) /\ p.map = MapOf(u)
      BY <2>1 DEF Results, PollersAre
    <3>2. u \in tasks'
      BY <1>1, <1>5, <3>1 DEF Waits
    <3> QED
      BY <3>1, <3>2
  <2>2. \A p \in pollers' :
          PollRecord(p) /\ (~p.done => \E u \in tasks' : Waits(u, p.call) /\ p.map = MapOf(u))
    BY <1>5, <1>7, <2>1 DEF Results, PollersAre
  <2> QED
    BY <2>2 DEF PollersAre
<1>13. LatenciesAre'
  <2>1. \A u \in tasks : u.pc \in {"asked", "save"} => u \in tasks'
    BY <1>1, <1>5
  <2> QED
    BY <1>5, <2>1 DEF Results, LatenciesAre
<1> QED
  BY <1>10, <1>11, <1>12, <1>13 DEF Results

\* The answer arrives whole; its poller is told.
LEMMA AnswerResults ==
  ASSUME Batches, Results, NEW t \in tasks, TestAnswers(t)
  PROVE  Results'
<1>1. TaskRecord(t) /\ t.pc = "asked"
  BY DEF Batches, TestAnswers
<1>2. PICK c \in core :
        /\ c.call = CallOf(t) /\ c.todo = {}
        /\ core' = core \ {c}
        /\ Now(t, [t EXCEPT !.pc = "save", !.res = c.res])
  BY DEF TestAnswers
<1>3. PICK s : s = Answered(t, "save", c.res)
  OBVIOUS
<1>4. tasks' = (tasks \ {t}) \cup {s} /\ latency' = latency
  BY <1>2, <1>3, Zenon DEF TestAnswers, Now, Replace, Answered
<1>5. /\ SameTask(s, t) /\ s.pc = "save" /\ s.res = c.res
      /\ Out(s) = Out(t) /\ MapOf(s) = MapOf(t)
  BY <1>1, <1>3, TaskAnswered
<1>6. Whole(c.res, {}, t)
  <2>1. PICK u \in tasks : Waits(u, c.call) /\ Whole(c.res, c.todo, u)
    BY DEF Results, CoreIs
  <2>2. u = t
    BY <1>2, <2>1, CallNames DEF Waits, Results, TasksAre
  <2> QED
    BY <1>2, <2>1, <2>2
<1>7. Whole(s.res, {}, s)
  BY <1>5, <1>6 DEF Whole
<1>8. TasksAre'
  BY <1>4, <1>5, <1>7, TaskGoes DEF Results
<1>9. CoreIs'
  <2>1. ASSUME NEW d \in core, d # c
        PROVE  \E u \in tasks' : Waits(u, d.call) /\ Whole(d.res, d.todo, u)
    <3>1. PICK u \in tasks : Waits(u, d.call) /\ Whole(d.res, d.todo, u)
      BY DEF Results, CoreIs
    <3>2. d.call # c.call
      BY <2>1 DEF Results, CoreIs
    <3>3. u # t
      BY <1>2, <3>1, <3>2 DEF Waits
    <3> QED
      BY <1>4, <3>1, <3>3
  <2>2. \A d \in core' :
          CoreRecord(d) /\ \E u \in tasks' : Waits(u, d.call) /\ Whole(d.res, d.todo, u)
    BY <1>2, <2>1 DEF Results, CoreIs
  <2>3. \A d, e \in core' : d.call = e.call => d = e
    BY <1>2 DEF Results, CoreIs
  <2> QED
    BY <2>2, <2>3 DEF CoreIs
<1>10. PollersAre'
  <2>1. ASSUME NEW p \in pollers'
        PROVE  /\ PollRecord(p)
               /\ ~p.done => p \in pollers /\ p.call # CallOf(t)
    <3>1. PICK q \in pollers : p = IF q.call = CallOf(t) THEN [q EXCEPT !.done = TRUE] ELSE q
      BY DEF TestAnswers, TellPoller
    <3>2. PollRecord(q)
      BY DEF Results, PollersAre
    <3>3. CASE q.call = CallOf(t)
      <4>1. p = [q EXCEPT !.done = TRUE]
        BY <3>1, <3>3, Zenon
      <4>2. p = [call |-> q.call, pc |-> q.pc, done |-> TRUE, hand |-> q.hand, map |-> q.map]
        BY <3>2, <4>1 DEF PollRecord
      <4> HIDE <4>1
      <4> QED
        BY <4>2 DEF PollRecord
    <3>4. CASE q.call # CallOf(t)
      <4>1. p = q
        BY <3>1, <3>4, Zenon
      <4> QED
        BY <3>2, <3>4, <4>1
    <3> QED
      BY <3>3, <3>4
  <2>2. ASSUME NEW p \in pollers, ~p.done, p.call # CallOf(t)
        PROVE  \E u \in tasks' : Waits(u, p.call) /\ p.map = MapOf(u)
    <3>1. PICK u \in tasks : Waits(u, p.call) /\ p.map = MapOf(u)
      BY <2>2 DEF Results, PollersAre
    <3>2. u \in tasks'
      BY <1>4, <2>2, <3>1 DEF Waits
    <3> QED
      BY <3>1, <3>2
  <2> QED
    BY <2>1, <2>2 DEF PollersAre
<1>11. LatenciesAre'
  <2>1. ASSUME NEW p \in Profiles, NEW u \in tasks, u.pc \in {"asked", "save"},
               p \in Range(MapOf(u))
        PROVE  \E v \in tasks' : v.pc \in {"asked", "save"} /\ p \in Range(MapOf(v))
    <3>1. CASE u = t
      BY <1>4, <1>5, <2>1, <3>1
    <3>2. CASE u # t
      BY <1>4, <2>1, <3>2
    <3> QED
      BY <3>1, <3>2
  <2> QED
    BY <1>4, <2>1 DEF Results, LatenciesAre
<1> QED
  BY <1>8, <1>9, <1>10, <1>11 DEF Results

\* A task whose Test is through is the same task still.
LEMMA AdvancedTask ==
  ASSUME NEW t, TaskRecord(t)
  PROVE  SameTask(Advanced(t), t) /\ Advanced(t).pc \in {"test", "count"}
<1>1. PICK pc \in {"test", "count"} : pc = IF t.kind = "full" THEN "test" ELSE "count"
  OBVIOUS
<1>2. PICK todo : todo = IF t.kind = "full" THEN Tail(t.todo) ELSE t.todo
  OBVIOUS
<1>3. PICK v : v = [Onto(t, pc) EXCEPT !.todo = todo]
  OBVIOUS
<1>4. Onto(t, pc) = [run |-> t.run, kind |-> t.kind, n |-> t.n, pc |-> pc,
                     todo |-> t.todo, profs |-> t.profs, res |-> t.res]
  BY DEF TaskRecord, Onto
<1>5. v = [run |-> t.run, kind |-> t.kind, n |-> t.n, pc |-> pc,
           todo |-> todo, profs |-> t.profs, res |-> t.res]
  BY <1>3, <1>4
<1>6. Onto(t, pc).todo = t.todo
  BY <1>4
<1>7. Advanced(t) = [v EXCEPT !.res = {}]
  BY <1>1, <1>2, <1>3, <1>6 DEF Advanced, Onto
<1>8. Advanced(t) = [run |-> t.run, kind |-> t.kind, n |-> t.n, pc |-> pc,
                     todo |-> todo, profs |-> t.profs, res |-> {}]
  BY <1>5, <1>7
<1> QED
  BY <1>8, TaskIs

\* The results are saved: the profiles of the batch that another's latency was filed for have
\* their own again.
LEMMA SaveResultsIs ==
  ASSUME Batches, Results, NEW t \in tasks, SaveResults(t)
  PROVE  /\ \A p \in Profiles : p \in Range(MapOf(t)) => latency'[p] \in {p, "aborted"}
         /\ \A p \in Profiles : latency'[p] \in {latency[p], p, "aborted"}
<1>1. t.kind \in {"full", "tags"} /\ Whole(t.res, {}, t)
  BY DEF Batches, TaskRecord, SaveResults, Results, TasksAre
<1>2. PICK map : map = TagMap(t.profs)
  OBVIOUS
<1> DEFINE Mine(p) == {r \in t.res : IF t.kind = "full" THEN p = Head(t.todo)
                                     ELSE r[1] \in DOMAIN map /\ map[r[1]] = p}
<1>3. \A p \in Profiles :
        latency'[p] = IF Mine(p) = {} THEN latency[p] ELSE (CHOOSE r \in Mine(p) : TRUE)[2]
  BY <1>2 DEF SaveResults, Saved
<1>4. ASSUME NEW p \in Profiles, NEW r \in Mine(p)
      PROVE  r[2] \in {p, "aborted"}
  <2>1. CASE t.kind = "full"
    <3>1. PICK x \in FullOutbound(Head(t.todo)) : r[1] = x[1] /\ r[2] \in {x[2], "aborted"}
      BY <1>1, <2>1 DEF Whole, Out
    <3>2. x[2] = Head(t.todo) /\ p = Head(t.todo)
      BY <2>1, <3>1 DEF FullOutbound
    <3> QED
      BY <3>1, <3>2
  <2>2. CASE t.kind = "tags"
    <3>1. PICK x \in TagOutbounds(t.profs) : r[1] = x[1] /\ r[2] \in {x[2], "aborted"}
      BY <1>1, <2>2 DEF Whole, Out
    <3>2. x[2] = map[x[1]]
      BY <1>2, <3>1 DEF TagOutbounds
    <3>3. map[r[1]] = p
      BY <2>2
    <3> QED
      BY <3>1, <3>2, <3>3
  <2> QED
    BY <1>1, <2>1, <2>2
<1>5. ASSUME NEW p \in Profiles, p \in Range(MapOf(t))
      PROVE  Mine(p) # {}
  <2>1. t.kind = "tags"
    BY <1>1, <1>5 DEF MapOf, Range
  <2>2. PICK u \in DOMAIN map : map[u] = p
    BY <1>2, <1>5, <2>1 DEF MapOf, Range
  <2>3. <<u, map[u]>> \in Out(t)
    BY <1>2, <2>1, <2>2 DEF Out, TagOutbounds
  <2>4. PICK r \in t.res : r[1] = u
    BY <1>1, <2>3 DEF Whole
  <2> QED
    BY <2>1, <2>2, <2>4
<1> HIDE DEF Mine
<1>6. \A p \in Profiles : Mine(p) # {} => latency'[p] \in {p, "aborted"}
  BY <1>3, <1>4
<1> QED
  BY <1>3, <1>5, <1>6

\* A latency that is another's belongs to another task from then on.
LEMMA SaveKeepsResults ==
  ASSUME Batches, Results, NEW t \in tasks, SaveResults(t)
  PROVE  Results'
<1>1. t.pc = "save" /\ UNCHANGED <<pollers, core>> /\ TaskRecord(t)
  BY DEF SaveResults, Batches
<1>2. PICK s : s = Advanced(t)
  OBVIOUS
<1>3. tasks' = (tasks \ {t}) \cup {s}
  BY <1>2, Zenon DEF SaveResults, Now, Replace
<1>4. SameTask(s, t) /\ s.pc \in {"test", "count"}
  BY <1>1, <1>2, AdvancedTask
<1>5. TasksAre'
  <2>1. TasksAre /\ s.pc # "save"
    BY <1>4 DEF Results
  <2> QED
    BY <1>3, <1>4, <2>1, TaskGoes
<1>6. \A u \in tasks : u.pc = "asked" => u \in tasks'
  BY <1>1, <1>3
<1>7. CoreIs' /\ PollersAre'
  BY <1>1, <1>6 DEF Results, CoreIs, PollersAre, Waits
<1>8. LatenciesAre'
  <2>1. ASSUME NEW p \in Profiles, latency'[p] \notin {p, "none", "aborted"}
        PROVE  \E u \in tasks' : u.pc \in {"asked", "save"} /\ p \in Range(MapOf(u))
    <3>1. latency'[p] = latency[p] /\ p \notin Range(MapOf(t))
      BY <2>1, SaveResultsIs
    <3>2. PICK u \in tasks : u.pc \in {"asked", "save"} /\ p \in Range(MapOf(u))
      BY <2>1, <3>1 DEF Results, LatenciesAre
    <3>3. u # t
      BY <3>1, <3>2
    <3> QED
      BY <1>3, <3>2, <3>3
  <2> QED
    BY <2>1 DEF LatenciesAre
<1> QED
  BY <1>5, <1>7, <1>8 DEF Results

\* A task that counts itself, or is over before it began, has nobody waiting for it.
LEMMA CountKeepsResults ==
  ASSUME Batches, Results, NEW t \in tasks, TestsOver(t) \/ CountTask(t) \/ LoadCounter(t)
  PROVE  Results'
<1>1. /\ t.pc \notin {"asked", "save"} /\ TaskRecord(t)
      /\ UNCHANGED <<core, pollers, latency>>
  BY DEF TestsOver, CountTask, LoadCounter, Batches
<1>2. TasksAre' /\ \A u \in tasks : u # t => u \in tasks'
  <2>1. CASE TestsOver(t) \/ CountTask(t)
    <3>1. PICK s, pc : /\ s = Onto(t, pc) /\ pc \in {"count", "load"}
                       /\ tasks' = (tasks \ {t}) \cup {s}
      <4>1. CASE TestsOver(t)
        BY <4>1 DEF TestsOver, Now, Replace, Onto
      <4>2. CASE CountTask(t)
        BY <4>2 DEF CountTask, Now, Replace, Onto
      <4> QED
        BY <2>1, <4>1, <4>2
    <3>2. SameTask(s, t) /\ s.pc # "save"
      BY <1>1, <3>1, TaskOnto
    <3> QED
      BY <3>1, <3>2, TaskGoes DEF Results
  <2>2. CASE LoadCounter(t)
    <3>1. tasks' = tasks \ {t}
      BY <2>2 DEF LoadCounter
    <3> QED
      BY <3>1 DEF Results, TasksAre
  <2> QED
    BY <2>1, <2>2
<1>3. \A u \in tasks : u.pc \in {"asked", "save"} => u \in tasks'
  BY <1>1, <1>2
<1> QED
  BY <1>1, <1>2, <1>3, OthersStay DEF Results

\* Every step of a task keeps the results apart, or its answer never came.
LEMMA TaskResults ==
  ASSUME Batches, Results, NEW t \in tasks, TaskStep(t) \/ TestFails(t)
  PROVE  Results' \/ Spoilt'
<1>1. CASE TestFails(t)
  BY <1>1 DEF TestFails, Spoilt
<1>2. CASE TaskStep(t)
  BY <1>2, CallResults, AnswerResults, SaveKeepsResults, CountKeepsResults DEF TaskStep
<1> QED
  BY <1>1, <1>2

\* A poller keeps its call, its map and whether it has been told.
Turned(q, pc) == [q EXCEPT !.pc = pc]
Handed(q, pc, hand) == [q EXCEPT !.pc = pc, !.hand = hand]

\* So whatever was true of it as a poller still is.
LEMMA PollerTurned ==
  ASSUME NEW q, PollRecord(q)
  PROVE  \A pc, hand : \A p \in {Turned(q, pc), Handed(q, pc, hand)} :
           PollRecord(p) /\ p.done = q.done /\ p.call = q.call /\ p.map = q.map
<1> SUFFICES ASSUME NEW pc, NEW hand, NEW p, p \in {Turned(q, pc), Handed(q, pc, hand)}
             PROVE  PollRecord(p) /\ p.done = q.done /\ p.call = q.call /\ p.map = q.map
  OBVIOUS
<1>1. Turned(q, pc) = [call |-> q.call, pc |-> pc, done |-> q.done, hand |-> q.hand,
                       map |-> q.map]
  BY DEF PollRecord, Turned
<1>2. Handed(q, pc, hand) = [Turned(q, pc) EXCEPT !.hand = hand]
  BY Zenon DEF Turned, Handed
<1>3. Handed(q, pc, hand) = [call |-> q.call, pc |-> pc, done |-> q.done, hand |-> hand,
                             map |-> q.map]
  BY <1>1, <1>2
<1>4. PICK h : p = [call |-> q.call, pc |-> pc, done |-> q.done, hand |-> h, map |-> q.map]
  BY <1>1, <1>3
<1> QED
  BY <1>4 DEF PollRecord

\* A poller gives out what was measured for any batch, to the profiles of its own.
LEMMA PollResults ==
  ASSUME Results, NEW q \in pollers, PollStep(q)
  PROVE  Results' \/ Spoilt'
<1>1. UNCHANGED <<tasks, core>> /\ PollRecord(q)
  BY DEF PollStep, PollWakes, QueryURLTest, PollApplies, Workers, Results, PollersAre
<1>2. TasksAre' /\ CoreIs'
  BY <1>1 DEF Results, TasksAre, CoreIs
<1>3. PollersAre'
  <2>1. \A p \in pollers' \ pollers :
          PollRecord(p) /\ p.done = q.done /\ p.call = q.call /\ p.map = q.map
    <3>1. CASE PollWakes(q)
      <4>1. pollers' = (pollers \ {q}) \cup {Turned(q, "query")}
        BY <3>1, Zenon DEF PollWakes, Replace, Turned
      <4> QED
        BY <1>1, <4>1, PollerTurned
    <3>2. CASE QueryURLTest(q) \/ PollApplies(q)
      <4>1. \/ pollers' = pollers \ {q}
            \/ \E pc, hand : pollers' = (pollers \ {q}) \cup {Handed(q, pc, hand)}
        BY <3>2, Zenon DEF QueryURLTest, PollApplies, EndPoll, Replace, Handed
      <4> QED
        BY <1>1, <4>1, PollerTurned
    <3> QED
      BY <3>1, <3>2 DEF PollStep
  <2> QED
    BY <1>1, <2>1 DEF Results, PollersAre
<1>4. LatenciesAre' \/ Spoilt'
  <2>1. CASE UNCHANGED latency
    BY <1>1, <2>1 DEF Results, LatenciesAre
  <2>2. CASE PollApplies(q) /\ q.done
    BY <2>2 DEF PollApplies, Spoilt
  <2>3. CASE PollApplies(q) /\ ~q.done
    <3>1. PICK t \in tasks : Waits(t, q.call) /\ q.map = MapOf(t)
      BY <2>3 DEF Results, PollersAre
    <3>2. \A p \in Profiles : p \notin Range(MapOf(t)) => latency'[p] = latency[p]
      <4> DEFINE mine(p) == {k \in DOMAIN q.hand :
                               q.hand[k][1] \in DOMAIN q.map /\ q.map[q.hand[k][1]] = p}
      <4>1. \A p \in Profiles :
              latency'[p] = IF mine(p) = {} THEN latency[p] ELSE q.hand[Max(mine(p))][2]
        BY <2>3 DEF PollApplies, ApplyPolled
      <4>2. \A p : mine(p) # {} => p \in Range(q.map)
        BY DEF Range
      <4> HIDE DEF mine
      <4> QED
        BY <3>1, <4>1, <4>2
    <3>3. t.pc = "asked"
      BY <3>1 DEF Waits
    <3> QED
      BY <1>1, <3>1, <3>2, <3>3 DEF Results, LatenciesAre
  <2> QED
    BY <2>1, <2>2, <2>3 DEF PollStep, PollWakes, QueryURLTest
<1> QED
  BY <1>2, <1>3, <1>4 DEF Results

\* A test that becomes another of the same call, with its results whole, has its task still.
LEMMA CoreGoes ==
  ASSUME Results, NEW c \in core, NEW d, core' = (core \ {c}) \cup {d},
         CoreRecord(d), d.call = c.call,
         \A t \in tasks : Whole(c.res, c.todo, t) => Whole(d.res, d.todo, t),
         UNCHANGED <<tasks, pollers, latency>>
  PROVE  Results'
<1>1. TasksAre' /\ PollersAre' /\ LatenciesAre'
  BY DEF Results, TasksAre, PollersAre, LatenciesAre
<1>2. CoreIs'
  <2>1. \E t \in tasks : Waits(t, d.call) /\ Whole(d.res, d.todo, t)
    BY DEF Results, CoreIs
  <2>2. \A e \in core' :
          CoreRecord(e) /\ \E t \in tasks : Waits(t, e.call) /\ Whole(e.res, e.todo, t)
    BY <2>1 DEF Results, CoreIs
  <2>3. \A e, f \in core' : e.call = f.call => e = f
    BY DEF Results, CoreIs
  <2> QED
    BY <2>2, <2>3 DEF CoreIs
<1> QED
  BY <1>1, <1>2 DEF Results

\* Each outbound is measured once, and its result is its own or says that it was aborted.
LEMMA CoreResults ==
  ASSUME Results, NEW c \in core, CoreStep(c)
  PROVE  Results'
<1>1. CoreRecord(c) /\ UNCHANGED <<tasks, pollers, latency>>
  BY DEF Results, CoreIs, CoreStep, TestBegins, TestUnheard, BatchURLTest, Gui
<1>2. CASE TestBegins(c)
  <2>1. PICK d : d = [c EXCEPT !.pc = "measure"]
    OBVIOUS
  <2>2. core' = (core \ {c}) \cup {d}
    BY <1>2, <2>1, Zenon DEF TestBegins, Replace
  <2>3. d = [call |-> c.call, pc |-> "measure", cancelled |-> c.cancelled, res |-> c.res,
             todo |-> c.todo]
    BY <1>1, <2>1 DEF CoreRecord
  <2>4. CoreRecord(d) /\ d.call = c.call /\ d.res = c.res /\ d.todo = c.todo
    BY <2>3 DEF CoreRecord
  <2> QED
    BY <1>1, <2>2, <2>4, CoreGoes
<1>3. CASE TestUnheard(c)
  BY <1>3 DEF TestUnheard, Results, CoreIs, Waits
<1>4. ASSUME NEW x \in c.todo, BatchURLTest(c, x)
      PROVE  Results'
  <2>1. PICK value : value = IF c.cancelled THEN "aborted" ELSE x[2]
    OBVIOUS
  <2>2. PICK todo, res : todo = c.todo \ {x} /\ res = c.res \cup {<<x[1], value>>}
    OBVIOUS
  <2>3. PICK d : d = [c EXCEPT !.todo = todo, !.res = res]
    OBVIOUS
  <2>4. core' = (core \ {c}) \cup {d}
    BY <1>4, <2>1, <2>2, <2>3 DEF BatchURLTest, Replace
  <2>5. PICK u : u = [c EXCEPT !.todo = todo]
    OBVIOUS
  <2>6. d = [u EXCEPT !.res = res]
    BY <2>3, <2>5, Zenon
  <2>7. u = [call |-> c.call, pc |-> c.pc, cancelled |-> c.cancelled, res |-> c.res,
             todo |-> todo]
    BY <1>1, <2>5 DEF CoreRecord
  <2>8. d = [call |-> c.call, pc |-> c.pc, cancelled |-> c.cancelled, res |-> res,
             todo |-> todo]
    BY <2>6, <2>7
  <2>9. CoreRecord(d) /\ d.call = c.call /\ d.res = res /\ d.todo = todo
    BY <2>8 DEF CoreRecord
  <2>10. ASSUME NEW t \in tasks, Whole(c.res, c.todo, t)
         PROVE  Whole(res, todo, t)
    <3>1. PICK y : y = <<x[1], value>>
      OBVIOUS
    <3>2. y[1] = x[1] /\ y[2] \in {x[2], "aborted"}
      BY <2>1, <3>1
    <3>3. res = c.res \cup {y}
      BY <2>2, <3>1
    <3>4. x \in Out(t)
      BY <1>4, <2>10 DEF Whole
    <3> QED
      BY <2>2, <2>10, <3>2, <3>3, <3>4 DEF Whole
  <2> QED
    BY <1>1, <2>4, <2>9, <2>10, CoreGoes
<1> QED
  BY <1>2, <1>3, <1>4 DEF CoreStep

\* A stop cancels tests; what they have and what they are still to measure stays.
LEMMA StopResults ==
  ASSUME Results, StopTest
  PROVE  Results'
<1>1. UNCHANGED <<tasks, pollers, latency>>
  BY DEF StopTest, Gui
<1>2. TasksAre' /\ PollersAre' /\ LatenciesAre'
  BY <1>1 DEF Results, TasksAre, PollersAre, LatenciesAre
<1>3. ASSUME NEW d \in core'
      PROVE  \E c \in core :
               /\ d = IF c.pc = "measure" THEN [c EXCEPT !.cancelled = TRUE] ELSE c
               /\ CoreRecord(d) /\ d.call = c.call /\ d.res = c.res /\ d.todo = c.todo
  <2>1. PICK c \in core : d = IF c.pc = "measure" THEN [c EXCEPT !.cancelled = TRUE] ELSE c
    BY DEF StopTest
  <2>2. CoreRecord(c)
    BY DEF Results, CoreIs
  <2>3. CASE c.pc = "measure"
    <3>1. d = [c EXCEPT !.cancelled = TRUE]
      BY <2>1, <2>3, Zenon
    <3>2. d = [call |-> c.call, pc |-> c.pc, cancelled |-> TRUE, res |-> c.res,
               todo |-> c.todo]
      BY <2>2, <3>1 DEF CoreRecord
    <3>3. CoreRecord(d) /\ d.call = c.call /\ d.res = c.res /\ d.todo = c.todo
      BY <3>2 DEF CoreRecord
    <3> QED
      BY <2>1, <3>3, Zenon
  <2>4. CASE c.pc # "measure"
    <3>1. d = c
      BY <2>1, <2>4, Zenon
    <3> QED
      BY <2>1, <2>2, <3>1, Zenon
  <2> QED
    BY <2>3, <2>4
<1>4. ASSUME NEW d \in core', NEW e \in core', d.call = e.call
      PROVE  d = e
  <2>1. PICK b \in core :
          /\ d = IF b.pc = "measure" THEN [b EXCEPT !.cancelled = TRUE] ELSE b
          /\ d.call = b.call
    BY <1>3, Zenon
  <2>2. PICK c \in core :
          /\ e = IF c.pc = "measure" THEN [c EXCEPT !.cancelled = TRUE] ELSE c
          /\ e.call = c.call
    BY <1>3, Zenon
  <2>3. b = c
    BY <1>4, <2>1, <2>2 DEF Results, CoreIs
  <2> QED
    BY <2>1, <2>2, <2>3, Zenon
<1>5. ASSUME NEW d \in core'
      PROVE  CoreRecord(d) /\ \E t \in tasks : Waits(t, d.call) /\ Whole(d.res, d.todo, t)
  <2>1. PICK c \in core : CoreRecord(d) /\ d.call = c.call /\ d.res = c.res /\ d.todo = c.todo
    BY <1>3, Zenon
  <2>2. PICK t \in tasks : Waits(t, c.call) /\ Whole(c.res, c.todo, t)
    BY DEF Results, CoreIs
  <2> QED
    BY <2>1, <2>2
<1>6. CoreIs'
  BY <1>1, <1>4, <1>5 DEF CoreIs
<1> QED
  BY <1>2, <1>6 DEF Results

\* What has spoilt the latencies stays on record.
LEMMA SpoiltStays ==
  ASSUME [Next]_vars
  PROVE  raced \subseteq raced'
BY ZenonT(30) DEF Next, vars, Ask, RunStep, Begin, CollectUrl, FinalBatch, Build, Arm, WaitTests,
     Pass, Relock, Finish, CollectSpeed, BuildSpeed, runSpeedTest, SpeedTestReturns,
     SpeedBatchDone, NextBatch, LockAgain, SpeedEnd, TaskStep, TestFails, runURLTest,
     TestsOver, TestAnswers, SaveResults, CountTask, LoadCounter, PollStep, PollWakes,
     QueryURLTest, PollApplies, CoreStep, TestBegins, TestUnheard, BatchURLTest,
     stopTests, StopTest, NoLock, Unlock

\* Every step keeps the results apart, until something spoils them.
LEMMA ResultStep ==
  ASSUME ResultInv, [Next]_vars
  PROVE  ResultInv'
<1>1. Batches'
  BY StepSafe DEF ResultInv
<1>2. CASE Spoilt
  BY <1>1, <1>2, SpoiltStays DEF ResultInv, Spoilt
<1>3. CASE Batches /\ Results
  <2> SUFFICES Results' \/ Spoilt'
    BY <1>1 DEF ResultInv
  <2>1. CASE \E i \in Runs, kind \in Kinds, ids \in Selections : Ask(i, kind, ids)
    BY <1>3, <2>1, RunResults
  <2>2. CASE \E i \in Runs : RunStep(i)
    BY <1>3, <2>2, RunResults
  <2>3. CASE \E t \in tasks : TaskStep(t) \/ TestFails(t)
    BY <1>3, <2>3, TaskResults
  <2>4. CASE \E q \in pollers : PollStep(q)
    BY <1>3, <2>4, PollResults
  <2>5. CASE \E c \in core : CoreStep(c)
    BY <1>3, <2>5, CoreResults
  <2>6. CASE StopTest
    BY <1>3, <2>6, StopResults
  <2>7. CASE stopTests \/ UNCHANGED vars
    <3>1. UNCHANGED <<tasks, core, pollers, latency>>
      BY <2>7 DEF stopTests, vars
    <3> QED
      BY <1>3, <3>1 DEF Results, TasksAre, CoreIs, PollersAre, LatenciesAre
  <2> QED
    BY <2>1, <2>2, <2>3, <2>4, <2>5, <2>6, <2>7, Zenon DEF Next
<1> QED
  BY <1>2, <1>3 DEF ResultInv

\* Whatever tags the batches share and whoever polls the reporter, a latency that is filed is
\* the profile's own once its answer is saved, for any runs, batches, stops and polls, unless an
\* answer never came or a poller wrote after it (mainwindow_rpc.cpp:101-144, 154-181).
THEOREM LatencyIsRight == Spec => []LatencyIsOwn
<1>1. Init => ResultInv
  <2> SUFFICES ASSUME Init PROVE ResultInv
    OBVIOUS
  <2>1. Batches
    BY MutexInit DEF MutexInv
  <2>2. tasks = {} /\ core = {} /\ pollers = {} /\ \A p \in Profiles : latency[p] = "none"
    BY DEF Init
  <2> QED
    BY <2>1, <2>2 DEF ResultInv, Results, TasksAre, CoreIs, PollersAre, LatenciesAre
<1>2. ResultInv /\ [Next]_vars => ResultInv'
  BY ResultStep
<1>3. ResultInv => LatencyIsOwn
  <2> SUFFICES ASSUME ResultInv, ~Spoilt, NEW p \in Profiles,
                      latency[p] \notin {p, "none", "aborted"}
               PROVE  \E t \in tasks : /\ t.kind = "tags" /\ t.pc \in {"asked", "save"}
                                      /\ p \in Range(TagMap(t.profs))
    BY DEF LatencyIsOwn, Spoilt
  <2>1. PICK t \in tasks : t.pc \in {"asked", "save"} /\ p \in Range(MapOf(t))
    BY DEF ResultInv, Results, LatenciesAre
  <2> QED
    BY <2>1 DEF MapOf, Range
<1> QED
  BY <1>1, <1>2, <1>3, PTL DEF Spec

==============================================================================
