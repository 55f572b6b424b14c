----------------------------- MODULE AutoTester -----------------------------
(***************************************************************************)
(* ProxyAutoTester (src/gharqad/stats/autotester/ProxyAutoTester.cpp): a   *)
(* timer tests a few profiles of the group at a time and keeps a pool of   *)
(* those that work, another one checks the running profile and switches to *)
(* one of the pool when it has failed often enough.                        *)
(*                                                                         *)
(* The timers run on the UI thread; every test cycle and every check runs  *)
(* on a thread of its own, and all of them share the pool, the counter of  *)
(* failures and the flag of a cycle in progress without a lock.  A call of *)
(* QList or an assignment is taken as one step.  What a test measures is   *)
(* the environment's choice.  Profiles are numbered; 0 is no profile.      *)
(***************************************************************************)
EXTENDS Naturals, Sequences, FiniteSets

CONSTANTS
  N,            \* profiles of the group
  Chains,       \* those shouldTestProxy refuses
  PerCycle,     \* auto_test_proxy_count
  PoolSize,     \* auto_test_working_pool_size
  RetryCount,   \* auto_test_failure_retry_count
  Cycles,       \* bound: threads of test cycles, names
  Checks,       \* bound: threads of health checks, names
  MaxTicks,     \* bound: expirations of the timers
  MaxEvents     \* bound: what the user and the core do

Profiles == 1 .. N
NoId == 0

ASSUME TesterAssumption ==
  /\ N \in Nat /\ Chains \subseteq Profiles
  /\ {PerCycle, PoolSize, RetryCount, MaxTicks, MaxEvents} \subseteq Nat
  /\ RetryCount > 0

VARIABLES
  enabled,      \* auto_test_enable
  timers,       \* the two timers run
  isTestingInProgress,
  pool,         \* workingProxyPool
  offset,       \* currentTestOffset
  failures,     \* activeProxyFailureCount
  list,         \* the profiles of the group
  working,      \* those with is_working
  started,      \* started_id
  cycle,        \* the threads of the test cycles
  check,        \* the threads of the health checks
  posted,       \* profile_start calls posted to the UI thread
  ticks, events,
  own,          \* history: failed checks of a profile since it was healthy or started
  switched,     \* history: the count may have failures of a profile that ran before
  overlap,      \* history: two cycles have run at once
  turn          \* history: the offset's way since it was at its start, and who was tested

setup == <<enabled, timers>>
history == <<own, switched, overlap, turn>>
vars == <<setup, isTestingInProgress, pool, offset, failures, list, working, started,
          cycle, check, posted, ticks, events, history>>

NoCycle == [pc |-> "idle", todo |-> {}, id |-> NoId, op |-> "none"]
NoCheck == [pc |-> "idle", id |-> NoId, contested |-> FALSE]
NoTurn == [way |-> 0, tested |-> {}]

\* why it was posted, the profile it takes over from, and whether the running profile
\* has changed since
Posts == [id : Profiles, from : Profiles \cup {NoId}, stale : BOOLEAN, contested : BOOLEAN]

AutoTypeOK ==
  /\ enabled \in BOOLEAN /\ timers \in BOOLEAN /\ isTestingInProgress \in BOOLEAN
  /\ pool \in Seq(Profiles)
  /\ offset \in Nat /\ failures \in Nat
  /\ list \in Seq(Profiles)
  /\ working \in SUBSET Profiles
  /\ started \in Profiles \cup {NoId}
  /\ cycle \in [Cycles -> [pc : {"idle", "test", "result", "pool", "decide"},
                           todo : SUBSET Profiles, id : Profiles \cup {NoId},
                           op : {"none", "add", "move", "remove"}]]
  /\ check \in [Checks -> [pc : {"idle", "measure", "handle", "failover"},
                           id : Profiles \cup {NoId}, contested : BOOLEAN]]
  /\ posted \in Seq(Posts)
  /\ ticks \in Nat /\ events \in Nat
  /\ own \in [Profiles -> Nat] /\ switched \in BOOLEAN /\ overlap \in BOOLEAN
  /\ turn \in [way : Nat, tested : SUBSET Profiles]

Elems(s) == {s[i] : i \in DOMAIN s}
Known == Elems(list)

\* The elements of s that are in S, in their order: upTo[n] has those of the first n.
Kept(s, S) ==
  LET upTo[n \in 0 .. Len(s)] ==
        IF n = 0 THEN <<>>
        ELSE IF s[n] \in S THEN Append(upTo[n - 1], s[n]) ELSE upTo[n - 1]
  IN upTo[Len(s)]

Without(s, p) == Kept(s, Profiles \ {p})

\* The tester was started with the core; some profile runs, or none.
Init ==
  /\ enabled = TRUE /\ timers = TRUE /\ isTestingInProgress = FALSE
  /\ pool = <<>> /\ offset = 0 /\ failures = 0
  /\ list = [i \in Profiles |-> i]
  /\ working = {}
  /\ started \in Profiles \cup {NoId}
  /\ cycle = [c \in Cycles |-> NoCycle] /\ check = [k \in Checks |-> NoCheck]
  /\ posted = <<>>
  /\ ticks = 0 /\ events = 0
  /\ own = [p \in Profiles |-> 0] /\ switched = FALSE /\ overlap = FALSE
  /\ turn = NoTurn

-----------------------------------------------------------------------------
(* A test cycle.                                                           *)

\* The profile k places after offset o.
At(o, k) == list[((o + k) % Len(list)) + 1]

\* The places getProxiesToTest takes: the first PerCycle that can be tested.
Picks(o) ==
  {k \in 0 .. Len(list) - 1 :
     /\ At(o, k) \notin Chains
     /\ Cardinality({j \in 0 .. k - 1 : At(o, j) \notin Chains}) < PerCycle}

\* Mutant: the offset advances by one too many.
MutAdvance(o) == ((o % Len(list)) + Cardinality(Picks(o)) + 1) % Len(list)

\* The offset advances by what was taken, not by what was skipped.
Advance(o) == ((o % Len(list)) + Cardinality(Picks(o))) % Len(list)

\* History: a turn begins anew once the offset has gone all the way round, or is set.
NextTurn(o) ==
  LET tested == {At(o, k) : k \in Picks(o)} IN
  IF turn.way >= Len(list) \/ o # offset
  THEN [way |-> Cardinality(Picks(o)), tested |-> tested]
  ELSE [way |-> turn.way + Cardinality(Picks(o)), tested |-> turn.tested \cup tested]

Busy == {c \in Cycles : cycle[c].pc # "idle"}

\* RunTestCycle at offset o, once it has found no cycle in progress and the core
\* running.
BeginAt(o) ==
  IF list = <<>> \/ Picks(o) = {}
  THEN /\ isTestingInProgress' = FALSE
       /\ offset' = o
       /\ UNCHANGED <<cycle, overlap, turn>>
  ELSE /\ isTestingInProgress' = TRUE
       /\ offset' = Advance(o)
       /\ turn' = NextTurn(o)
       /\ \E c \in Cycles \ Busy :
            cycle' = [cycle EXCEPT ![c] =
              [NoCycle EXCEPT !.pc = "test", !.todo = {At(o, k) : k \in Picks(o)}]]
       /\ overlap' = (overlap \/ Busy # {})

\* testTimer.  A cycle in progress is not disturbed.
TestTimer ==
  /\ timers /\ ticks < MaxTicks /\ ticks' = ticks + 1
  /\ ~isTestingInProgress /\ enabled
  /\ BeginAt(offset)
  /\ UNCHANGED <<setup, pool, failures, list, working, started, check, posted, events,
                 own, switched>>

\* Mutant: an early return forgets the flag.
MutTestFails(c) ==
  /\ cycle[c].pc = "test"
  /\ cycle' = [cycle EXCEPT ![c] = NoCycle]
  /\ UNCHANGED <<setup, isTestingInProgress, pool, offset, failures, list, working, started,
                 check, posted, ticks, events, history>>

\* No profile is left, no configuration can be built, or the call fails.
TestFails(c) ==
  /\ cycle[c].pc = "test"
  /\ cycle' = [cycle EXCEPT ![c] = NoCycle]
  /\ isTestingInProgress' = FALSE
  /\ UNCHANGED <<setup, pool, offset, failures, list, working, started, check, posted,
                 ticks, events, history>>

TestAnswers(c) ==
  /\ cycle[c].pc = "test"
  /\ cycle' = [cycle EXCEPT ![c].pc = "result"]
  /\ UNCHANGED <<setup, isTestingInProgress, pool, offset, failures, list, working, started,
                 check, posted, ticks, events, history>>

\* The result of p is saved, and updateWorkingPool looks whether the pool has it.
\* A profile that is gone is skipped.
Result(c, p, ok) ==
  /\ cycle[c].pc = "result" /\ p \in cycle[c].todo
  /\ IF p \notin Known
     THEN cycle' = [cycle EXCEPT ![c].todo = @ \ {p}] /\ UNCHANGED working
     ELSE /\ working' = IF ok THEN working \cup {p} ELSE working \ {p}
          /\ cycle' = [cycle EXCEPT ![c].todo = @ \ {p}, ![c].pc = "pool", ![c].id = p,
               ![c].op = IF ~ok THEN "remove" ELSE IF p \in Elems(pool) THEN "move" ELSE "add"]
  /\ UNCHANGED <<setup, isTestingInProgress, pool, offset, failures, list, started, check,
                 posted, ticks, events, history>>

\* Mutant: a profile that is in the pool already is added again.
MutPoolAfter(op, p) == IF op = "remove" THEN Without(pool, p) ELSE <<p>> \o pool

PoolAfter(op, p) ==
  CASE op = "remove" -> Without(pool, p)
    [] op = "move" -> <<p>> \o Without(pool, p)
    [] OTHER -> <<p>> \o pool

UpdatePool(c) ==
  LET p == cycle[c].id IN
  /\ cycle[c].pc = "pool"
  /\ pool' = PoolAfter(cycle[c].op, p)
  /\ cycle' = [cycle EXCEPT ![c].pc = "result", ![c].id = NoId, ![c].op = "none"]
  /\ check' = [k \in Checks |->
       IF cycle[c].op # "remove" /\ check[k].pc = "failover" /\ check[k].id = p
       THEN [check[k] EXCEPT !.contested = TRUE] ELSE check[k]]
  /\ UNCHANGED <<setup, isTestingInProgress, offset, failures, list, working, started,
                 posted, ticks, events, history>>

\* pruneWorkingPool: the last ones go, then those that are gone or do not work.
Cut(s) == SubSeq(s, 1, IF Len(s) < PoolSize THEN Len(s) ELSE PoolSize)
Pruned == Kept(Cut(pool), Known \cap working)

EndCycle(c) ==
  /\ cycle[c].pc = "result" /\ cycle[c].todo = {}
  /\ pool' = Pruned
  /\ isTestingInProgress' = FALSE
  /\ cycle' = [cycle EXCEPT ![c].pc = "decide"]
  /\ UNCHANGED <<setup, offset, failures, list, working, started, check, posted, ticks,
                 events, history>>

Post(id, from, contested) ==
  posted' = Append(posted, [id |-> id, from |-> from, stale |-> FALSE,
                            contested |-> contested])

\* Mutant: a profile that runs is replaced too.
MutNoneRuns == TRUE

NoneRuns == started = NoId

\* No profile is running: the first of the pool is started.
AutoStart(c) ==
  /\ cycle[c].pc = "decide"
  /\ cycle' = [cycle EXCEPT ![c] = NoCycle]
  /\ IF NoneRuns /\ pool # <<>>
     THEN /\ pool' = Pruned
          /\ IF Pruned = <<>> THEN UNCHANGED posted ELSE Post(Head(Pruned), NoId, FALSE)
     ELSE UNCHANGED <<pool, posted>>
  /\ UNCHANGED <<setup, isTestingInProgress, offset, failures, list, working, started,
                 check, ticks, events, history>>

CycleStep(c) ==
  \/ TestFails(c) \/ TestAnswers(c) \/ UpdatePool(c) \/ EndCycle(c) \/ AutoStart(c)
  \/ \E p \in Profiles, ok \in BOOLEAN : Result(c, p, ok)

-----------------------------------------------------------------------------
(* A health check.                                                         *)

\* History: a check other than k is about a profile that no longer runs.
StaleBut(k) == \E j \in Checks \ {k} : check[j].pc # "idle" /\ check[j].id # started

\* healthCheckTimer: the running profile, as it is now.
HealthTimer ==
  /\ timers /\ ticks < MaxTicks /\ ticks' = ticks + 1
  /\ started # NoId /\ started \in Known
  /\ \E k \in Checks :
       /\ check[k].pc = "idle"
       /\ check' = [check EXCEPT ![k] = [NoCheck EXCEPT !.pc = "measure", !.id = started]]
  /\ UNCHANGED <<setup, isTestingInProgress, pool, offset, failures, list, working, started,
                 cycle, posted, events, history>>

\* Mutant: the count survives a success.
MutHealthy(k) ==
  /\ check[k].pc = "measure"
  /\ working' = working \cup {check[k].id}
  /\ own' = [own EXCEPT ![check[k].id] = 0]
  /\ check' = [check EXCEPT ![k] = NoCheck]
  /\ UNCHANGED <<setup, isTestingInProgress, pool, offset, failures, list, started, cycle,
                 posted, ticks, events, switched, overlap, turn>>

\* The core measures what runs by now; the result goes to the profile that ran then.
Healthy(k) ==
  /\ check[k].pc = "measure"
  /\ failures' = 0
  /\ working' = working \cup {check[k].id}
  /\ own' = [own EXCEPT ![check[k].id] = 0]
  /\ switched' = StaleBut(k)
  /\ check' = [check EXCEPT ![k] = NoCheck]
  /\ UNCHANGED <<setup, isTestingInProgress, pool, offset, list, started, cycle, posted,
                 ticks, events, overlap, turn>>

Unhealthy(k) ==
  /\ check[k].pc = "measure"
  /\ failures' = failures + 1
  /\ own' = [own EXCEPT ![check[k].id] = @ + 1]
  /\ check' = [check EXCEPT ![k] =
       IF failures' >= RetryCount THEN [@ EXCEPT !.pc = "handle"] ELSE NoCheck]
  /\ UNCHANGED <<setup, isTestingInProgress, pool, offset, list, working, started, cycle,
                 posted, ticks, events, switched, overlap, turn>>

\* Mutant: the profile keeps its mark and its place.
MutHandle(k) ==
  /\ check[k].pc = "handle"
  /\ check' = [check EXCEPT ![k].pc = "failover"]
  /\ UNCHANGED <<setup, isTestingInProgress, pool, offset, failures, list, working, started,
                 cycle, posted, ticks, events, history>>

\* HandleProxyFailure: the profile does not work and leaves the pool.
Handle(k) ==
  LET p == check[k].id IN
  /\ check[k].pc = "handle"
  /\ working' = working \ {p}
  /\ pool' = Without(pool, p)
  /\ check' = [check EXCEPT ![k].pc = "failover"]
  /\ UNCHANGED <<setup, isTestingInProgress, offset, failures, list, started, cycle, posted,
                 ticks, events, history>>

StillRuns(k) == started = check[k].id

\* The switch, if the profile still runs and there is another one that works.
Failover(k) ==
  /\ check[k].pc = "failover"
  /\ check' = [check EXCEPT ![k] = NoCheck]
  /\ IF StillRuns(k)
     THEN /\ pool' = Pruned
          /\ IF Pruned = <<>> THEN UNCHANGED <<posted, failures, switched>>
             ELSE /\ Post(Head(Pruned), check[k].id, check[k].contested)
                  /\ failures' = 0 /\ switched' = StaleBut(k)
     ELSE UNCHANGED <<pool, posted, failures, switched>>
  /\ UNCHANGED <<setup, isTestingInProgress, offset, list, working, started, cycle, ticks,
                 events, own, overlap, turn>>

CheckStep(k) == Healthy(k) \/ Unhealthy(k) \/ Handle(k) \/ Failover(k)

-----------------------------------------------------------------------------
(* What the user, the core and the UI thread do.                           *)

Event == events < MaxEvents /\ events' = events + 1

\* The running profile changes to p.
Switch(p) ==
  /\ started' = p
  /\ own' = IF p = NoId THEN own ELSE [own EXCEPT ![p] = 0]
  /\ switched' = (switched \/ failures > 0 \/ \E k \in Checks : check[k].pc # "idle")

Stale(s) == [i \in DOMAIN s |-> [s[i] EXCEPT !.stale = TRUE]]

\* A profile is started, stopped or lost with the core (ProfileLifecycle).
UserSwitch(p) ==
  /\ Event /\ p # started /\ p \in Known \cup {NoId}
  /\ Switch(p)
  /\ posted' = Stale(posted)
  /\ UNCHANGED <<setup, isTestingInProgress, pool, offset, failures, list, working, cycle,
                 check, ticks, overlap, turn>>

\* The posted profile_start: it succeeds, or it fails once the old profile is stopped,
\* or it is refused: the profile is gone, or another one is starting or stopping.
RunPosted(p) ==
  /\ posted # <<>> /\ p = Head(posted).id
  /\ posted' = Stale(Tail(posted))
  /\ \/ p \in Known /\ (Switch(p) \/ Switch(NoId))
     \/ UNCHANGED <<started, own, switched>>
  /\ UNCHANGED <<setup, isTestingInProgress, pool, offset, failures, list, working, cycle,
                 check, ticks, events, overlap, turn>>

\* A profile of the group is deleted, not the running one.
Delete(p) ==
  /\ Event /\ p \in Known \ {started}
  /\ list' = Without(list, p)
  /\ turn' = NoTurn
  /\ UNCHANGED <<setup, isTestingInProgress, pool, offset, failures, working, started,
                 cycle, check, posted, ticks, own, switched, overlap>>

\* RunTestCycle finds the core down: the cycle has to wait for the next expiration.
NoCore ==
  /\ isTestingInProgress' = FALSE
  /\ offset' = 0
  /\ turn' = NoTurn
  /\ UNCHANGED <<cycle, overlap>>

\* The settings were changed: Reset and Start, or Stop.
SettingsChanged(on) ==
  /\ Event
  /\ enabled' = on /\ timers' = on
  /\ IF on
     THEN /\ pool' = <<>>
          /\ failures' = 0
          /\ switched' = \E k \in Checks : check[k].pc # "idle" /\ check[k].id # started
          /\ BeginAt(0) \/ NoCore
     ELSE /\ isTestingInProgress' = FALSE
          /\ UNCHANGED <<pool, failures, switched, offset, cycle, overlap, turn>>
  /\ UNCHANGED <<list, working, started, check, posted, ticks, own>>

\* The core came up: setup_rpc calls Start.
CoreCameUp ==
  /\ Event /\ enabled
  /\ timers' = TRUE
  /\ BeginAt(offset)
  /\ UNCHANGED <<enabled, pool, failures, list, working, started, check, posted, ticks,
                 own, switched>>

Next ==
  \/ TestTimer \/ HealthTimer \/ CoreCameUp
  \/ \E c \in Cycles : CycleStep(c)
  \/ \E k \in Checks : CheckStep(k)
  \/ \E p \in Profiles \cup {NoId} : UserSwitch(p)
  \/ \E p \in Profiles : RunPosted(p) \/ Delete(p)
  \/ \E on \in BOOLEAN : SettingsChanged(on)

Spec == Init /\ [][Next]_vars

\* Threads run, and a call of the core answers or times out (RPC.cpp:48-64).
FairSpec == Spec /\ \A c \in Cycles : WF_vars(CycleStep(c))

-----------------------------------------------------------------------------
(***************************************************************************)
(* Once no cycle is under way the pool keeps to its size, and a profile is *)
(* in it once, unless two cycles have run at once: Start forgets the one   *)
(* in progress (ProxyAutoTester.cpp:62-67, 558-572, 574-596).              *)
(***************************************************************************)
PoolSound ==
  Busy = {} => /\ Len(pool) <= PoolSize
               /\ overlap \/ Cardinality(Elems(pool)) = Len(pool)

(***************************************************************************)
(* A failover never switches to the profile that has just failed, unless a *)
(* test cycle put it back between its removal and the choice               *)
(* (ProxyAutoTester.cpp:189-204, 231-240).                                 *)
(***************************************************************************)
FailoverElsewhere ==
  \A i \in DOMAIN posted : posted[i].id # posted[i].from \/ posted[i].contested

(***************************************************************************)
(* A profile is given up only after RetryCount failed checks of its own    *)
(* since it was started or healthy, unless the count has failures of a     *)
(* profile that ran before it: nothing resets activeProxyFailureCount on a *)
(* switch (ProxyAutoTester.cpp:152-184, 199-219).                          *)
(***************************************************************************)
FailoverDeserved ==
  [][\A k \in Checks :
       check[k].pc = "measure" /\ check'[k].pc = "handle" =>
         own'[check[k].id] >= RetryCount \/ switched]_vars

(***************************************************************************)
(* The tester takes over from a running profile only when that one has     *)
(* failed; any other was started after the decision and before the posted  *)
(* profile_start ran (ProxyAutoTester.cpp:199-213, 509-540).               *)
(***************************************************************************)
TakesOverFailed ==
  [][posted # <<>> /\ posted' = Stale(Tail(posted)) /\ started' # started =>
       LET e == Head(posted) IN started \in {NoId, e.from} \/ e.stale]_vars

(***************************************************************************)
(* Every profile that can be tested gets its turn by the time the offset   *)
(* has gone round, although it advances by the profiles taken and not by   *)
(* those looked at (ProxyAutoTester.cpp:316-333).                          *)
(***************************************************************************)
RotationCovers ==
  list # <<>> /\ turn.way >= Len(list) => Known \ Chains \subseteq turn.tested

(***************************************************************************)
(* A cycle in progress ends, on every one of its early returns: the next   *)
(* ones are skipped only so long (ProxyAutoTester.cpp:85-88, 354-508).     *)
(***************************************************************************)
ProgressReturns == isTestingInProgress ~> ~isTestingInProgress
=============================================================================
