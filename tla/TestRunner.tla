----------------------------- MODULE TestRunner -----------------------------
(***************************************************************************)
(* URL tests and speed tests of many profiles: urltest_current_group,      *)
(* speedtest_current_group and stopTests of src/gharqad/ui/                *)
(* mainwindow_rpc.cpp with the threads they start, and the core's Test,    *)
(* StopTest and QueryURLTest with the URLReporter they share.              *)
(*                                                                         *)
(* A run works through its profiles in batches.  The mutex speedtestRunning*)
(* is what keeps two runs apart: the click takes it, the pool tasks of a   *)
(* batch give it back, the run takes it again for the next batch.  Within  *)
(* a batch every profile is known to the core by a tag that only says at   *)
(* which place of the batch it stands, and a thread of its own polls the   *)
(* core for the results that are there already.                            *)
(*                                                                         *)
(* A latency is abstracted to the profile that was measured: latency[p]    *)
(* should be p.  The results of speed tests are left out.                  *)
(***************************************************************************)
EXTENDS Integers, Sequences, FiniteSets, SequencesExt

CONSTANTS
  Profiles,    \* the profiles the database holds
  FullConfigs, \* custom profiles with a full configuration: tested one by one
  Skipped,     \* extra cores and invalid profiles, which BuildTestConfig skips
  Broken,      \* profiles BuildConfig fails for
  Runs,        \* the tests somebody asks for
  Selections,  \* the ids a test may be asked for, some no longer in Profiles
  Kinds,       \* of "url", "speed" (a group), "current" (speed, running profile)
  BatchSize,   \* 25 in the code
  MaxStops,    \* bound: clicks on "Stop testing"
  MaxFailures, \* bound: Test calls whose answer never comes
  MaxPolls     \* bound: polls of the core for results that are there already

ASSUME TestAssumption ==
  /\ FullConfigs \subseteq Profiles
  /\ Skipped \subseteq Profiles \ FullConfigs
  /\ Broken \subseteq Profiles \ Skipped
  /\ Kinds \subseteq {"url", "speed", "current"}
  /\ {BatchSize, MaxStops, MaxFailures, MaxPolls} \subseteq Nat
  /\ BatchSize > 0
  /\ \A ids \in Selections : ids # <<>>

VARIABLES
  locked,   \* the mutex speedtestRunning
  stop,     \* stopSpeedtest
  stopping, \* the UI thread is in the StopTests call
  run,      \* the thread of each run
  tasks,    \* the functions in parallelCoreCallPool
  pollers,  \* the threads runURLTest starts to poll
  core,     \* the tests the core is running
  reporter, \* URLReporter.results
  latency,  \* the profile whose measurement was saved as that of a profile
  fin,      \* how often finish was called
  raced,    \* history: the races that have happened
  stops, failures, polls

vars == <<locked, stop, stopping, run, tasks, pollers, core, reporter, latency,
          fin, raced, stops, failures, polls>>

-----------------------------------------------------------------------------
(* The configurations of a batch, BuildTestConfig.                         *)

\* The profiles a configuration is built for, in order: their place is the tag.
Built(profs) == SelectSeq(profs, LAMBDA p : p \notin Skipped)

BuildFails(profs) == \E p \in Range(profs) : p \in Broken

Fulls(profs) == SelectSeq(Built(profs), LAMBDA p : p \in FullConfigs)

\* tag2entID: the tags of the profiles that are tested together.
TagMap(profs) ==
  LET b == Built(profs)
  IN  [t \in {u \in DOMAIN b : b[u] \notin FullConfigs} |-> b[t]]

\* What one Test call is about: pairs of tag and profile.  The default
\* outbound of a full configuration is usually called "proxy", as is the first.
FullOutbound(p) == {<<1, p>>}
TagOutbounds(profs) == {<<t, TagMap(profs)[t]>> : t \in DOMAIN TagMap(profs)}

\* Mutant: both functions are counted, whether they were given or not.
MutTestCount(profs) == IF profs = <<>> THEN 0 ELSE 2

\* How many functions a batch gives to the pool.
TestCount(profs) ==
  (IF Fulls(profs) = <<>> THEN 0 ELSE 1)
    + (IF DOMAIN TagMap(profs) = {} THEN 0 ELSE 1)

-----------------------------------------------------------------------------
(* The mutex.                                                              *)

tryLock == ~locked /\ locked' = TRUE
Lock == ~locked /\ locked' = TRUE

\* QMutex::unlock of a free mutex is undefined; it stays free in practice.
Unlock == locked' = FALSE /\ UNCHANGED raced

NoLock == UNCHANGED <<locked, raced>>

-----------------------------------------------------------------------------
Idle == [pc |-> "idle", kind |-> "url", ids |-> <<>>, profs |-> <<>>,
         after |-> "collect", n |-> 0, counter |-> 0, left |-> 0,
         given |-> FALSE] \* given, a history: the batch has unlocked the mutex

Init ==
  /\ locked = FALSE /\ stop = FALSE /\ stopping = FALSE
  /\ run = [i \in Runs |-> Idle]
  /\ tasks = {} /\ pollers = {} /\ core = {}
  /\ reporter = <<>>
  /\ latency = [p \in Profiles |-> "none"]
  /\ fin = [i \in Runs |-> 0]
  /\ raced = {}
  /\ stops = 0 /\ failures = 0 /\ polls = 0

At(i, pc) == run[i].pc = pc
Goto(i, pc) == run' = [run EXCEPT ![i].pc = pc]

Threads == <<tasks, pollers, core, reporter, latency, stops, failures, polls, stopping>>

\* Somebody asks for a test: the click takes the mutex or is refused.
Ask(i, kind, ids) ==
  /\ At(i, "idle")
  /\ tryLock
  /\ run' = [run EXCEPT ![i] =
       [Idle EXCEPT !.pc = "start", !.kind = kind,
                    !.ids = IF kind = "current" THEN <<>> ELSE ids]]
  /\ UNCHANGED <<stop, fin, raced, Threads>>

\* The thread starts: an earlier stop is forgotten.
Begin(i) ==
  /\ At(i, "start")
  /\ stop' = FALSE
  /\ run' = [run EXCEPT ![i].pc =
               IF run[i].kind = "current" THEN "ask" ELSE "collect",
             ![i].left = IF run[i].kind = "current" THEN 1 ELSE 0]
  /\ UNCHANGED <<fin, Threads>> /\ NoLock

\* GetProfile finds nothing for an id that is gone: the loops skip it.
Found(ids) == SelectSeq(ids, LAMBDA p : p \in Profiles)

\* How many ids the collecting loop goes through before its counter is
\* BatchSize; a counter that already is BatchSize never meets it again.
Takes(r) ==
  LET room == BatchSize - Len(r.profs)
      meets == {k \in DOMAIN r.ids : Len(Found(SubSeq(r.ids, 1, k))) = room}
  IN  IF room > 0 /\ meets # {} THEN Min(meets) ELSE Len(r.ids)

Collected(r) == [r EXCEPT !.profs = @ \o Found(SubSeq(r.ids, 1, Takes(r))),
                          !.ids = SubSeq(@, Takes(r) + 1, Len(@))]

\* urltest_current_group collects a batch.  Only a full batch is tested here,
\* the rest, which may be empty, after the loop.
CollectUrl(i) ==
  /\ At(i, "collect") /\ run[i].kind = "url"
  /\ LET r == Collected(run[i])
         full == Len(r.profs) = BatchSize
     IN  run' = [run EXCEPT ![i] =
           [r EXCEPT !.pc = IF full /\ ~stop THEN "build" ELSE "final",
                     !.after = IF full /\ ~stop THEN "relock" ELSE @]]
  /\ UNCHANGED <<stop, fin, Threads>> /\ NoLock

\* After the loop.
FinalBatch(i) ==
  /\ At(i, "final")
  /\ IF stop THEN Goto(i, "finish")
     ELSE run' = [run EXCEPT ![i].pc = "build", ![i].after = "finish"]
  /\ UNCHANGED <<stop, fin, Threads>> /\ NoLock

\* Mutant: a batch that cannot be built keeps the mutex.
MutBuildKeepsLock(i) ==
  /\ At(i, "build")
  /\ IF BuildFails(run[i].profs)
     THEN Goto(i, run[i].after) /\ fin' = [fin EXCEPT ![i] = @ + 1]
     ELSE Goto(i, "arm") /\ UNCHANGED fin
  /\ UNCHANGED <<stop, Threads>> /\ NoLock

\* BuildTestConfig, which takes its time.
Build(i) ==
  /\ At(i, "build")
  /\ IF BuildFails(run[i].profs)
     THEN /\ Unlock
          /\ Goto(i, run[i].after)
          /\ fin' = [fin EXCEPT ![i] = @ + 1]
     ELSE Goto(i, "arm") /\ NoLock /\ UNCHANGED fin
  /\ UNCHANGED <<stop, Threads>>

Task(i, kind, n, todo, profs) ==
  [run |-> i, kind |-> kind, n |-> n, pc |-> "test", todo |-> todo,
   profs |-> profs, res |-> {}]

\* The rest of the lambda: the functions go to the pool.
Arm(i) ==
  /\ At(i, "arm")
  /\ stop' = FALSE
  /\ LET profs == run[i].profs
         n == run[i].n + 1
     IN  /\ run' = [run EXCEPT ![i].pc = "wait", ![i].n = n, ![i].counter = 0,
                               ![i].given = TestCount(profs) = 0]
         /\ tasks' = tasks
              \cup (IF Fulls(profs) = <<>> THEN {}
                    ELSE {Task(i, "full", n, Fulls(profs), profs)})
              \cup (IF DOMAIN TagMap(profs) = {} THEN {}
                    ELSE {Task(i, "tags", n, <<>>, profs)})
         /\ IF TestCount(profs) = 0 THEN Unlock ELSE NoLock
  /\ UNCHANGED <<fin, pollers, core, reporter, latency, stops, failures, polls, stopping>>

\* speedtestRunning.lock(): the batch is through.
WaitTests(i) ==
  /\ At(i, "wait")
  /\ Lock
  /\ Goto(i, "pass")
  /\ UNCHANGED <<stop, fin, raced, Threads>>

\* speedtestRunning.unlock() behind it.
Pass(i) ==
  /\ At(i, "pass")
  /\ Unlock
  /\ Goto(i, run[i].after)
  /\ UNCHANGED <<stop, fin, Threads>>

\* Mutant: the next batch goes on without the mutex.
MutRelockNot(i) ==
  /\ At(i, "relock")
  /\ run' = [run EXCEPT ![i].pc = "collect", ![i].profs = <<>>]
  /\ UNCHANGED <<stop, fin, Threads>> /\ NoLock

\* The mutex is taken again for the next batch.
Relock(i) ==
  /\ At(i, "relock")
  /\ Lock
  /\ run' = [run EXCEPT ![i].pc = "collect", ![i].profs = <<>>]
  /\ UNCHANGED <<stop, fin, raced, Threads>>

Finish(i) ==
  /\ At(i, "finish")
  /\ Goto(i, "done")
  /\ fin' = [fin EXCEPT ![i] = @ + 1]
  /\ UNCHANGED <<stop, Threads>> /\ NoLock

-----------------------------------------------------------------------------
(* The thread of speedtest_current_group, which makes its calls itself.    *)

CollectSpeed(i) ==
  /\ At(i, "collect") /\ run[i].kind = "speed"
  /\ run' = [run EXCEPT ![i] =
       IF stop THEN [Collected(run[i]) EXCEPT !.pc = "next", !.profs = <<>>]
       ELSE [Collected(run[i]) EXCEPT !.pc = "speedBuild"]]
  /\ UNCHANGED <<stop, fin, Threads>> /\ NoLock

\* A failure leaves the batch as it is and goes on behind its tests.
BuildSpeed(i) ==
  /\ At(i, "speedBuild")
  /\ LET profs == run[i].profs IN
     IF BuildFails(profs)
     THEN Goto(i, "next") /\ UNCHANGED stop
     ELSE /\ stop' = FALSE
          /\ run' = [run EXCEPT ![i].pc = "ask", ![i].left =
               Len(Fulls(profs)) + (IF DOMAIN TagMap(profs) = {} THEN 0 ELSE 1)]
  /\ UNCHANGED <<fin, Threads>> /\ NoLock

\* runSpeedTest: a call for every full configuration, one for the tags.
runSpeedTest(i) ==
  /\ At(i, "ask") /\ run[i].left > 0
  /\ IF stop THEN run' = [run EXCEPT ![i].left = @ - 1] ELSE Goto(i, "asked")
  /\ UNCHANGED <<stop, fin, Threads>> /\ NoLock

\* The call returns, with results or not.
SpeedTestReturns(i) ==
  /\ At(i, "asked")
  /\ run' = [run EXCEPT ![i].pc = "ask", ![i].left = @ - 1]
  /\ UNCHANGED <<stop, fin, Threads>> /\ NoLock

SpeedBatchDone(i) ==
  /\ At(i, "ask") /\ run[i].left = 0
  /\ run' = [run EXCEPT ![i].pc = IF run[i].kind = "current" THEN "end"
                                  ELSE "next",
                        ![i].profs = <<>>]
  /\ UNCHANGED <<stop, fin, Threads>> /\ NoLock

NextBatch(i) ==
  /\ At(i, "next")
  /\ Goto(i, IF ~stop /\ run[i].ids # <<>> THEN "again" ELSE "end")
  /\ UNCHANGED <<stop, fin, Threads>> /\ NoLock

\* speedtestRunning.lock() before the next batch, by the run that holds it.
LockAgain(i) ==
  /\ At(i, "again")
  /\ Lock
  /\ Goto(i, "collect")
  /\ UNCHANGED <<stop, fin, raced, Threads>>

SpeedEnd(i) ==
  /\ At(i, "end")
  /\ Unlock
  /\ Goto(i, "done")
  /\ UNCHANGED <<stop, fin, Threads>>

-----------------------------------------------------------------------------
(* The pool: runURLTest and what follows it.                               *)

Replace(set, old, new) == (set \ {old}) \cup {new}

Now(t, r) == tasks' = Replace(tasks, t, r)

Runner == <<run, stop, stopping, fin, stops, polls>>

\* The name of a Test call: no two calls share it.
CallOf(t) == <<t.run, t.kind, t.n, Len(t.todo)>>

\* runURLTest up to its call: a thread that polls, and a Test in the core.
runURLTest(t) ==
  /\ t.pc = "test" /\ ~stop
  /\ t.kind = "full" => t.todo # <<>>
  /\ Now(t, [t EXCEPT !.pc = "asked"])
  /\ pollers' = pollers \cup
       {[call |-> CallOf(t), pc |-> "sleep", done |-> FALSE, hand |-> <<>>,
         map |-> IF t.kind = "tags" THEN TagMap(t.profs) ELSE <<>>]}
  /\ core' = core \cup
       {[call |-> CallOf(t), pc |-> "create", cancelled |-> FALSE, res |-> {},
         todo |-> IF t.kind = "tags" THEN TagOutbounds(t.profs)
                  ELSE FullOutbound(Head(t.todo))]}
  /\ UNCHANGED <<reporter, latency, failures, Runner>> /\ NoLock

\* A stop, or no configuration left.
TestsOver(t) ==
  /\ t.pc = "test"
  /\ stop \/ (t.kind = "full" /\ t.todo = <<>>)
  /\ Now(t, [t EXCEPT !.pc = "count"])
  /\ UNCHANGED <<pollers, core, reporter, latency, failures, Runner>> /\ NoLock

\* One Test is through: the next full configuration, or the counter.
Advanced(t) ==
  [t EXCEPT !.pc = IF t.kind = "full" THEN "test" ELSE "count",
            !.todo = IF t.kind = "full" THEN Tail(@) ELSE @, !.res = {}]

\* done->unlock(): a poller that sleeps will find that and end; another one is in
\* the middle of a poll.
TellPoller(t) ==
  pollers' = {IF q.call = CallOf(t) THEN [q EXCEPT !.done = TRUE] ELSE q :
                q \in {r \in pollers : r.call = CallOf(t) => r.pc # "sleep"}}

\* The answer of Test arrives.
TestAnswers(t) ==
  /\ t.pc = "asked"
  /\ \E c \in core :
       /\ c.call = CallOf(t) /\ c.pc = "measure" /\ c.todo = {}
       /\ core' = core \ {c}
       /\ Now(t, [t EXCEPT !.pc = "save", !.res = c.res])
  /\ TellPoller(t)
  /\ UNCHANGED <<reporter, latency, failures, Runner>> /\ NoLock

\* No answer within 15 s, or no configuration: the core may go on regardless.
TestFails(t) ==
  /\ t.pc = "asked" /\ failures < MaxFailures
  /\ failures' = failures + 1
  /\ \E c \in core :
       /\ c.call = CallOf(t)
       /\ core' \in {core} \cup (IF c.pc = "create" THEN {core \ {c}} ELSE {})
  /\ Now(t, Advanced(t))
  /\ TellPoller(t)
  /\ raced' = raced \cup {"noAnswer"}
  /\ UNCHANGED <<reporter, latency, locked, Runner>>

\* Mutant: the answer does not overwrite what was polled.
MutSaved(t) ==
  LET map == TagMap(t.profs) IN
  [p \in Profiles |->
     LET mine == {r \in t.res : IF t.kind = "full" THEN p = Head(t.todo)
                                ELSE r[1] \in DOMAIN map /\ map[r[1]] = p}
     IN  IF mine = {} \/ latency[p] # "none" THEN latency[p]
         ELSE (CHOOSE r \in mine : TRUE)[2]]

\* The results of the answer are saved, by tag or for the one full profile.
Saved(t) ==
  LET map == TagMap(t.profs) IN
  [p \in Profiles |->
     LET mine == {r \in t.res : IF t.kind = "full" THEN p = Head(t.todo)
                                ELSE r[1] \in DOMAIN map /\ map[r[1]] = p}
     IN  IF mine = {} THEN latency[p] ELSE (CHOOSE r \in mine : TRUE)[2]]

SaveResults(t) ==
  /\ t.pc = "save"
  /\ latency' = Saved(t)
  /\ Now(t, Advanced(t))
  /\ UNCHANGED <<pollers, core, reporter, failures, Runner>> /\ NoLock

\* The counter lives on the stack of the lambda.
LambdaLive(t) == run[t.run].n = t.n /\ run[t.run].pc \in {"wait", "pass"}

CountTask(t) ==
  /\ t.pc = "count"
  /\ Now(t, [t EXCEPT !.pc = "load"])
  /\ run' = IF LambdaLive(t) THEN [run EXCEPT ![t.run].counter = @ + 1] ELSE run
  /\ UNCHANGED <<pollers, core, reporter, latency, failures,
                 stop, stopping, fin, stops, polls>> /\ NoLock

\* counter.load() == testCount, read by each task after its own increment; once
\* the lambda has returned what is read there is undefined.
LoadCounter(t) ==
  /\ t.pc = "load"
  /\ tasks' = tasks \ {t}
  /\ \E last \in IF LambdaLive(t) THEN {run[t.run].counter = TestCount(t.profs)}
                 ELSE BOOLEAN :
       IF last
       THEN /\ locked' = FALSE
            /\ raced' = raced \cup (IF LambdaLive(t) /\ ~run[t.run].given THEN {}
                                    ELSE {"strayUnlock"})
            /\ run' = IF LambdaLive(t) THEN [run EXCEPT ![t.run].given = TRUE]
                      ELSE run
       ELSE NoLock /\ UNCHANGED run
  /\ UNCHANGED <<pollers, core, reporter, latency, failures,
                 stop, stopping, fin, stops, polls>>

-----------------------------------------------------------------------------
(* The polling thread of a runURLTest.                                     *)

Workers == <<run, tasks, stop, stopping, fin, stops, failures>>

\* The poll is over: back to sleep, or the end if done was unlocked meanwhile.
EndPoll(q) ==
  pollers' = (pollers \ {q})
    \cup (IF q.done THEN {} ELSE {[q EXCEPT !.pc = "sleep", !.hand = <<>>]})

\* The poller wakes and finds done still locked.
PollWakes(q) ==
  /\ q.pc = "sleep" /\ polls < MaxPolls
  /\ polls' = polls + 1
  /\ pollers' = Replace(pollers, q, [q EXCEPT !.pc = "query"])
  /\ UNCHANGED <<core, reporter, latency, Workers>> /\ NoLock

\* QueryURLTest hands out all results and forgets them.
QueryURLTest(q) ==
  /\ q.pc = "query"
  /\ reporter' = <<>>
  /\ IF reporter = <<>> THEN EndPoll(q)
     ELSE pollers' = Replace(pollers, q,
                             [q EXCEPT !.pc = "apply", !.hand = reporter])
  /\ UNCHANGED <<core, latency, polls, Workers>> /\ NoLock

\* Each result goes to the profile this poller's batch has at its tag; a later one
\* overwrites an earlier one.
ApplyPolled(map, hand) ==
  [p \in Profiles |->
     LET mine == {k \in DOMAIN hand : hand[k][1] \in DOMAIN map /\ map[hand[k][1]] = p}
     IN  IF mine = {} THEN latency[p] ELSE hand[Max(mine)][2]]

PollApplies(q) ==
  /\ q.pc = "apply"
  /\ latency' = ApplyPolled(q.map, q.hand)
  /\ EndPoll(q)
  /\ raced' = raced \cup (IF q.done THEN {"latePoll"} ELSE {})
  /\ UNCHANGED <<core, reporter, locked, polls, Workers>>

-----------------------------------------------------------------------------
(* The core.                                                               *)

Gui == <<run, tasks, pollers, stop, fin, latency, stops, failures, polls>>

\* The test instance is created; the context of the test is read behind that.
TestBegins(c) ==
  /\ c.pc = "create"
  /\ core' = Replace(core, c, [c EXCEPT !.pc = "measure"])
  /\ UNCHANGED <<reporter, stopping, Gui>> /\ NoLock

\* BatchURLTest: one outbound is measured.  Of a cancelled test, an outbound
\* that was not begun is aborted without a report, one under way reports it.
BatchURLTest(c, x) ==
  /\ c.pc = "measure" /\ x \in c.todo
  /\ \E reports \in IF c.cancelled THEN BOOLEAN ELSE {TRUE} :
       LET value == IF c.cancelled THEN "aborted" ELSE x[2] IN
       /\ core' = Replace(core, c, [c EXCEPT !.todo = @ \ {x},
                                             !.res = @ \cup {<<x[1], value>>}])
       /\ reporter' = IF reports THEN Append(reporter, <<x[1], value>>)
                      ELSE reporter
  /\ UNCHANGED <<stopping, Gui>> /\ NoLock

\* A test nobody waits for ends.
TestUnheard(c) ==
  /\ c.pc = "measure" /\ c.todo = {}
  /\ ~ \E t \in tasks : t.pc = "asked" /\ CallOf(t) = c.call
  /\ core' = core \ {c}
  /\ UNCHANGED <<reporter, stopping, Gui>> /\ NoLock

-----------------------------------------------------------------------------
(* "Stop testing": the flag, then the call that cancels what has begun.    *)

stopTests ==
  /\ ~stopping /\ stops < MaxStops
  /\ stops' = stops + 1
  /\ stop' = TRUE /\ stopping' = TRUE
  /\ UNCHANGED <<run, tasks, pollers, core, reporter, latency, fin, failures,
                 polls>>
  /\ NoLock

StopTest ==
  /\ stopping
  /\ stopping' = FALSE
  /\ core' = {IF c.pc = "measure" THEN [c EXCEPT !.cancelled = TRUE] ELSE c :
                c \in core}
  /\ UNCHANGED <<reporter, Gui>> /\ NoLock

-----------------------------------------------------------------------------
RunStep(i) ==
  \/ Begin(i) \/ CollectUrl(i) \/ FinalBatch(i) \/ Build(i) \/ Arm(i)
  \/ WaitTests(i) \/ Pass(i) \/ Relock(i) \/ Finish(i)
  \/ CollectSpeed(i) \/ BuildSpeed(i) \/ runSpeedTest(i) \/ SpeedTestReturns(i)
  \/ SpeedBatchDone(i) \/ NextBatch(i) \/ LockAgain(i) \/ SpeedEnd(i)

TaskStep(t) ==
  \/ runURLTest(t) \/ TestsOver(t) \/ TestAnswers(t) \/ SaveResults(t)
  \/ CountTask(t) \/ LoadCounter(t)

PollStep(q) == PollWakes(q) \/ QueryURLTest(q) \/ PollApplies(q)

CoreStep(c) ==
  TestBegins(c) \/ TestUnheard(c) \/ \E x \in c.todo : BatchURLTest(c, x)

Next ==
  \/ \E i \in Runs, kind \in Kinds, ids \in Selections : Ask(i, kind, ids)
  \/ \E i \in Runs : RunStep(i)
  \/ \E t \in tasks : TaskStep(t) \/ TestFails(t)
  \/ \E q \in pollers : PollStep(q)
  \/ \E c \in core : CoreStep(c)
  \/ stopTests \/ StopTest

Spec == Init /\ [][Next]_vars

\* The threads run, the core answers.  Nobody has to ask, to stop or to time out.
FairSpec ==
  /\ Spec
  /\ \A i \in Runs : WF_vars(RunStep(i))
  /\ WF_vars(\E t \in tasks : TaskStep(t))
  /\ WF_vars(\E q \in pollers : PollApplies(q) \/ QueryURLTest(q))
  /\ WF_vars(\E c \in core : CoreStep(c))
  /\ WF_vars(StopTest)

-----------------------------------------------------------------------------
Pcs == {"idle", "start", "collect", "final", "build", "arm", "wait", "pass",
        "relock", "finish", "speedBuild", "ask", "asked", "next", "again", "end",
        "done"}

Measured == Profiles \cup {"none", "aborted"}

\* Every variable keeps its type, and a batch never outgrows its size unless a
\* failed build has kept the batch before it.
TypeOK ==
  /\ {locked, stop, stopping} \subseteq BOOLEAN
  /\ \A i \in Runs :
       /\ run[i].pc \in Pcs /\ run[i].kind \in {"url", "speed", "current"}
       /\ Range(run[i].profs) \subseteq Profiles
       /\ Len(run[i].profs) <= BatchSize \/ run[i].kind = "speed"
       /\ run[i].counter \in 0 .. 2 /\ run[i].left \in Nat
  /\ \A t \in tasks : t.pc \in {"test", "asked", "save", "count", "load"}
  /\ \A q \in pollers : q.pc \in {"sleep", "query", "apply"}
  /\ \A c \in core : c.pc \in {"create", "measure"}
  /\ latency \in [Profiles -> Measured]
  /\ fin \in [Runs -> 0 .. Cardinality(Profiles) + 2]
  /\ raced \subseteq {"strayUnlock", "noAnswer", "latePoll"}

Ended(i) == run[i].pc \in {"idle", "done"}

\* A run that is testing: its calls are being made.
Testing(i) ==
  \/ run[i].pc \in {"ask", "asked"}
  \/ \E t \in tasks : t.run = i /\ t.pc \in {"test", "asked", "save"}

\* The mutex keeps runs apart: no two of them test at a time, and so none resets
\* the other's stop flag under it, unless two tasks of a batch both took
\* themselves for the last and unlocked a mutex they no longer had
\* (mainwindow_rpc.cpp:238-253).
OneRunAtATime ==
  \A i, j \in Runs : Testing(i) /\ Testing(j) /\ i # j => "strayUnlock" \in raced

\* Only a stop can leave the mutex behind: the ways out of a batch that fails to
\* build, of an empty one and of one with no answers all give it back
\* (mainwindow_rpc.cpp:219, 257, 240, 252).
LeakOnlyAfterStop == (\A i \in Runs : Ended(i)) /\ locked => stops > 0

\* Results from the core are filed under tags that every batch uses anew, and
\* results nobody polled stay in the reporter for the next batch.  Once a
\* profile's answer is saved its latency is nevertheless its own: the answer of Test
\* overwrites what was polled, unless it never came, or a poller woken before it
\* wrote after it (mainwindow_rpc.cpp:101-144, 154-181).
LatencyIsOwn ==
  \A p \in Profiles :
    \/ latency[p] \in {p, "none", "aborted"}
    \/ \E t \in tasks :
         t.kind = "tags" /\ t.pc \in {"asked", "save"} /\ p \in Range(TagMap(t.profs))
    \/ raced \cap {"noAnswer", "latePoll"} # {}

\* Whoever asked for a URL test is called back; the Ping button of a service
\* stays disabled until then (mainwindow_rpc.cpp:296-298).
CallbackComes ==
  \A i \in Runs : (At(i, "start") /\ run[i].kind = "url") ~> (fin[i] > 0)

\* "The last speed test did not exit completely, please wait.": waiting helps, a
\* speed test ends (mainwindow_rpc.cpp:368).
SpeedTestEnds == \A i \in Runs : At(i, "start") ~> At(i, "done")
=============================================================================
