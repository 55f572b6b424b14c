----------------------- MODULE ProfileLifecycleProofs -----------------------
(***************************************************************************)
(* TLAPS proofs about ProfileLifecycle, for any profiles, calls and        *)
(* bounds: the six safety invariants of its model.                         *)
(*                                                                         *)
(* Two invariants carry them.  LockInv ties the two try-locks to the       *)
(* threads and to the tasks posted to the UI thread, and running to        *)
(* started_id: LocksAreHeld, IdMatches and StopSeesProfile follow from it. *)
(* CoreInv, on top of it, ties the calls under way in the core and its     *)
(* instance to the threads that made them: NothingOrphaned, NothingHidden  *)
(* and ShownRuns follow from it.  Both are proved step by step: a lemma    *)
(* says what a step does (Move...), another that it keeps the invariant    *)
(* (Lock..., Core...).                                                     *)
(***************************************************************************)
EXTENDS ProfileLifecycle, FiniteSetTheorems, TLAPS

\* A task t waits in a queue s of the UI thread; it waits there at most once.
In(t, s) == \E i \in 1 .. Len(s) : s[i] = t
Once(t, s) == \A i, j \in 1 .. Len(s) : s[i] = t /\ s[j] = t => i = j

\* The values that the proof of the locks needs.
Typed ==
  /\ ui \in Seq(Ids \cup Tasks)
  /\ uiWait \in {"no", "start", "recover", "kill"}
  /\ starter \in Starters
  /\ stopper \in Stoppers
  /\ running \in Ids
  /\ started_id \in Ids
  /\ suspendedProfileId \in Ids
  /\ coreQueue \in Seq(Lambdas)

(***************************************************************************)
(* mu_starting is held by a start thread.  mu_stopping is held by a stop   *)
(* thread, and after it by the one unlock it has posted: so no stop thread *)
(* comes up while an unlock waits.  A start thread that waits has one stop *)
(* posted, or the UI thread blocked in it.                                 *)
(***************************************************************************)
Locks ==
  /\ mu_starting <=> starter.pc # "none"
  /\ mu_stopping <=> stopper.pc # "none" \/ In("unlock", ui)
  /\ In("unlock", ui) => stopper.pc = "none"
  /\ Once("unlock", ui)
  /\ starter.pc = "waitUi" <=> In("stopFirst", ui) \/ uiWait = "start"
  /\ In("stopFirst", ui) => uiWait # "start"
  /\ Once("stopFirst", ui)

\* A start thread goes through the packet filter's failure with its mode off.
Filters ==
  /\ spmode_packet_filter => PacketFilter
  /\ starter.pc \in {"filter", "filterRpc", "filterOff"} => PacketFilter
  /\ starter.pc \in {"filterRpc", "filterOff"} => ~spmode_packet_filter

\* The id that a recovery restarts is that of the running profile, and a start
\* thread starts a profile.
SameId ==
  /\ running # NoId => started_id = running
  /\ starter.pc # "none" => starter.id # NoId

\* The inductive invariant of the locks.
LockInv == Typed /\ Locks /\ Filters /\ SameId /\ StopHasProfile

(***************************************************************************)
(* A start thread gets ready only with no profile running or a stop thread *)
(* at work: the UI thread is blocked until the stop before the start is    *)
(* over.  A stop thread that does not call the core has a caller blocked   *)
(* that restarts the core: the UI thread of a resume, or the core thread   *)
(* of a crash.                                                             *)
(***************************************************************************)
Blocked ==
  /\ starter.pc = "waitUi" /\ mu_stopping => running = NoId \/ stopper.pc # "none"
  /\ starter.pc = "ready" \/ uiWait = "start" => running = NoId \/ stopper.pc # "none"
  /\ stopper.pc # "none" /\ stopper.crash =>
       \/ stopper.waiter = "ui" /\ uiWait = "recover"
       \/ stopper.waiter = "core" /\ thread = "cleanup"
  /\ "core" \in checked => thread = "cleanup"

\* The core's data, and the timeouts counted.
Served ==
  /\ pc \in [Calls -> {"idle"} \cup Active \cup Finished]
  /\ box \in [StartCalls -> BoxStates]
  /\ BoxInstance \in StartCalls \cup {Nil}
  /\ timeouts \in Nat

\* The process and the core in it: the core serves only while its process runs
\* as the GUI sees it, and a core that is not there holds nothing.
Process ==
  /\ alive => proc = "Running"
  /\ proc = "Running" => core_running
  /\ ~portOK => doomed
  /\ thread = "restart" => doomed
  /\ thread = "cleanup" => proc = "NotRunning"
  /\ ~alive => BoxInstance = Nil
  /\ ~alive => \A b \in StartCalls : box[b] # "live"
  /\ ~alive => \A c \in Calls : pc[c] \notin Active

\* No RPC has timed out, and no Start has overtaken a Stop or a recovery.
Clean == timeouts = 0 /\ raced \subseteq {"coreDied"}

\* The start thread waits for its Start, or for c, the Stop after a failed
\* packet filter; the stop thread waits for its Stop c.
StartCalled == starter.pc = "rpc"
FilterCalled(c) == starter.pc = "filterRpc" /\ starter.call = c
StopCalled(c) == stopper.pc = "rpc" /\ stopper.call = c

(***************************************************************************)
(* Every call the core serves is one a thread waits for, and while a Start *)
(* is served there is no stop thread and no running profile.               *)
(***************************************************************************)
InFlight ==
  /\ starter.pc = "rpc" => /\ starter.call \in StartCalls
                           /\ pc[starter.call] \in StartPcs \cup Finished
                           /\ stopper.pc = "none" /\ running = NoId
  /\ starter.pc = "filterRpc" =>
       starter.call \in StopCalls /\ pc[starter.call] \in StopPcs \cup Finished
  /\ stopper.pc = "rpc" =>
       stopper.call \in StopCalls /\ pc[stopper.call] \in StopPcs \cup Finished
  /\ \A c \in StartCalls : pc[c] \in Active => StartCalled /\ starter.call = c
  /\ \A c \in StopCalls : pc[c] \in Active => FilterCalled(c) \/ StopCalled(c)

(***************************************************************************)
(* A live box is the core's instance.  An instance that the GUI does not   *)
(* show is one a Start has just made or a recovery will bring down with    *)
(* the core; a Start that is still at work finds none, and a Stop past its *)
(* close leaves none.                                                      *)
(***************************************************************************)
Instance ==
  /\ \A b \in StartCalls : box[b] = "live" => BoxInstance = b
  /\ BoxInstance # Nil /\ running = NoId => StartCalled \/ RecoveryPending
  /\ StartCalled /\ pc[starter.call] \notin {"startDone", "ok"} => BoxInstance = Nil
  /\ \A c \in StopCalls :
       /\ FilterCalled(c) \/ StopCalled(c) =>
            pc[c] \in {"stop", "stopClose", "stopWait"} \/ BoxInstance = Nil
       /\ pc[c] = "stopWait" => BoxInstance = Nil \/ box[BoxInstance] # "live"
  /\ starter.pc = "filterOff" => BoxInstance = Nil
  /\ stopper.pc = "finish" /\ ~stopper.crash => BoxInstance = Nil

\* While the core never died: a profile that is shown has its instance until a
\* Stop is at work on it.
Shown ==
  /\ StartCalled /\ pc[starter.call] \in {"startDone", "ok"} => BoxInstance # Nil
  /\ running # NoId =>
       BoxInstance # Nil \/ stopper.pc \in {"rpc", "finish"}
         \/ starter.pc \in {"filterRpc", "filterOff"}

\* The invariant of the core, inductive together with LockInv.
CoreInv ==
  /\ Served
  /\ Blocked
  /\ Process
  /\ Clean => InFlight
  /\ Clean /\ ~doomed => Instance
  /\ timeouts = 0 /\ raced = {} => Shown

USE SupAssumption, LifecycleAssumption DEF Ids, Tasks

-----------------------------------------------------------------------------
\* A task posted.
LEMMA Posts ==
  ASSUME NEW s \in Seq(Ids \cup Tasks), NEW x \in Ids \cup Tasks, NEW t
  PROVE  /\ Append(s, x) \in Seq(Ids \cup Tasks)
         /\ In(t, Append(s, x)) <=> In(t, s) \/ x = t
         /\ Once(t, s) /\ (x # t \/ ~In(t, s)) => Once(t, Append(s, x))
<1>1. /\ Append(s, x) \in Seq(Ids \cup Tasks)
      /\ Len(Append(s, x)) = Len(s) + 1
      /\ \A i \in 1 .. Len(s) : Append(s, x)[i] = s[i]
      /\ Append(s, x)[Len(s) + 1] = x
      /\ Len(s) \in Nat
  OBVIOUS
<1> DEFINE a == Append(s, x)
<1> HIDE DEF a
<1>4. /\ Len(a) = Len(s) + 1 /\ Len(s) \in Nat
      /\ \A i \in 1 .. Len(s) : a[i] = s[i]
      /\ a[Len(s) + 1] = x
  BY <1>1 DEF a
<1>2. In(t, a) <=> In(t, s) \/ x = t
  <2>1. ASSUME In(t, a) PROVE In(t, s) \/ x = t
    BY <1>1, <2>1 DEF In, a
  <2>2. ASSUME In(t, s) PROVE In(t, a)
    BY <1>1, <2>2 DEF In, a
  <2>3. ASSUME x = t PROVE In(t, a)
    <3>1. Len(s) + 1 \in 1 .. Len(a) /\ a[Len(s) + 1] = t
      BY <1>1, <2>3 DEF a
    <3> QED
      BY <3>1 DEF In
  <2> QED
    BY <2>1, <2>2, <2>3
<1>3. ASSUME Once(t, s), x # t \/ ~In(t, s) PROVE Once(t, a)
  <2>1. ASSUME NEW i \in 1 .. Len(a), a[i] = t
        PROVE  (i \in 1 .. Len(s) /\ s[i] = t) \/ (i = Len(s) + 1 /\ x = t)
    <3>1. i \in 1 .. Len(s) \/ i = Len(s) + 1
      BY <1>4
    <3>2. CASE i \in 1 .. Len(s)
      BY <1>4, <2>1, <3>2
    <3>3. CASE i = Len(s) + 1
      BY <1>4, <2>1, <3>3
    <3> QED
      BY <3>1, <3>2, <3>3
  <2> QED
    BY <1>3, <2>1 DEF In, Once
<1> QED
  BY <1>1, <1>2, <1>3 DEF a

\* A task taken.
LEMMA Takes ==
  ASSUME NEW s \in Seq(Ids \cup Tasks), s # <<>>, NEW t
  PROVE  /\ Tail(s) \in Seq(Ids \cup Tasks)
         /\ Head(s) \in Ids \cup Tasks
         /\ In(t, s) <=> Head(s) = t \/ In(t, Tail(s))
         /\ Once(t, s) => Once(t, Tail(s)) /\ (Head(s) = t => ~In(t, Tail(s)))
<1>1. /\ Tail(s) \in Seq(Ids \cup Tasks)
      /\ Head(s) = s[1] /\ s[1] \in Ids \cup Tasks
      /\ Len(Tail(s)) = Len(s) - 1
      /\ \A i \in 1 .. Len(s) - 1 : Tail(s)[i] = s[i + 1]
      /\ Len(s) \in Nat /\ Len(s) >= 1
  OBVIOUS
<1> DEFINE a == Tail(s)
<1> HIDE DEF a
<1>2. \A i \in 1 .. Len(a) : a[i] = s[i + 1] /\ i + 1 \in 1 .. Len(s)
  BY <1>1 DEF a
<1>3. \A i \in 1 .. Len(s) : i # 1 => i - 1 \in 1 .. Len(a) /\ a[i - 1] = s[i]
  BY <1>1 DEF a
<1>4. In(t, s) <=> Head(s) = t \/ In(t, a)
  <2>1. ASSUME In(t, s) PROVE Head(s) = t \/ In(t, a)
    <3>1. PICK i \in 1 .. Len(s) : s[i] = t
      BY <2>1 DEF In
    <3>2. CASE i = 1
      BY <1>1, <3>1, <3>2
    <3>3. CASE i # 1
      BY <1>3, <3>1, <3>3 DEF In
    <3> QED
      BY <3>2, <3>3
  <2>2. ASSUME In(t, a) PROVE In(t, s)
    BY <1>2, <2>2 DEF In
  <2>3. ASSUME Head(s) = t PROVE In(t, s)
    BY <1>1, <2>3 DEF In
  <2> QED
    BY <2>1, <2>2, <2>3
<1>5. ASSUME Once(t, s) PROVE Once(t, a)
  <2>1. ASSUME NEW i \in 1 .. Len(a), NEW j \in 1 .. Len(a), a[i] = t, a[j] = t PROVE i = j
    <3>1. s[i + 1] = t /\ s[j + 1] = t /\ i + 1 \in 1 .. Len(s) /\ j + 1 \in 1 .. Len(s)
      BY <1>2, <2>1
    <3>2. i + 1 = j + 1
      BY <1>5, <3>1 DEF Once
    <3>3. i \in Nat /\ j \in Nat
      OBVIOUS
    <3> QED
      BY <3>2, <3>3
  <2> QED
    BY <2>1 DEF Once
<1>6. ASSUME Once(t, s), Head(s) = t PROVE ~In(t, a)
  <2>1. ASSUME NEW i \in 1 .. Len(a), a[i] = t PROVE FALSE
    <3>1. s[i + 1] = t /\ s[1] = t /\ i + 1 \in 1 .. Len(s) /\ 1 \in 1 .. Len(s)
      BY <1>1, <1>2, <1>6, <2>1
    <3>2. i + 1 = 1
      BY <1>6, <3>1 DEF Once
    <3> QED
      BY <3>2
  <2> QED
    BY <2>1 DEF In
<1> QED
  BY <1>1, <1>4, <1>5, <1>6 DEF a

\* profile_stop, and what a stop thread does with its record.
LEMMA Stops ==
  ASSUME stopper \in Stoppers,
         NEW crash \in BOOLEAN, NEW manual \in BOOLEAN,
         NEW waiter \in {"none", "ui", "core", "exit"},
         ProfileStop(crash, manual, waiter)
  PROVE  /\ stopper' \in Stoppers
         /\ \/ /\ running = NoId \/ mu_stopping
               /\ stopper' = stopper
               /\ mu_stopping' <=> mu_stopping
            \/ /\ running # NoId /\ ~mu_stopping /\ mu_stopping'
               /\ stopper'.pc = "begin" /\ stopper'.waiter = waiter
               /\ stopper'.crash <=> crash
<1> DEFINE r == [pc |-> "begin", crash |-> crash, manual |-> manual, waiter |-> waiter,
                 call |-> Nil]
<1>1. /\ r \in Stoppers /\ r.pc = "begin" /\ r.waiter = waiter
      /\ r.crash <=> crash
  BY DEF Stoppers
<1> HIDE DEF r
<1>2. /\ mu_stopping' <=> mu_stopping \/ (running # NoId /\ ~mu_stopping)
      /\ stopper' = IF running # NoId /\ ~mu_stopping THEN r ELSE stopper
  BY DEF ProfileStop, r
<1>3. CASE running # NoId /\ ~mu_stopping
  BY <1>1, <1>2, <1>3
<1>4. CASE ~(running # NoId /\ ~mu_stopping)
  BY <1>2, <1>4
<1> QED
  BY <1>3, <1>4

\* A start thread goes on, with or without a new call.
LEMMA StarterPc ==
  ASSUME starter \in Starters,
         NEW l \in {"none", "waitUi", "ready", "rpc", "filter", "filterRpc", "filterOff", "end"},
         starter' = [starter EXCEPT !.pc = l]
  PROVE  /\ starter' \in Starters /\ starter'.pc = l
         /\ starter'.call = starter.call /\ starter'.id = starter.id
  BY DEF Starters

\* A start thread makes a call: it goes on with the call it made.
LEMMA StarterCalls ==
  ASSUME starter \in Starters, NEW l \in {"rpc", "filterRpc"}, NEW c \in Calls,
         starter' = [starter EXCEPT !.pc = l, !.call = c]
  PROVE  /\ starter' \in Starters /\ starter'.pc = l
         /\ starter'.call = c /\ starter'.id = starter.id
  BY DEF Starters

\* A stop thread goes on, with or without a new call.
LEMMA StopperPc ==
  ASSUME stopper \in Stoppers, NEW l \in {"none", "begin", "rpc", "finish"},
         stopper' = [stopper EXCEPT !.pc = l]
  PROVE  /\ stopper' \in Stoppers /\ stopper'.pc = l
         /\ stopper'.call = stopper.call /\ stopper'.waiter = stopper.waiter
         /\ stopper'.crash = stopper.crash
  BY DEF Stoppers

\* A stop thread sends its Stop: it goes on with the call it made.
LEMMA StopperCalls ==
  ASSUME stopper \in Stoppers, NEW c \in Calls,
         stopper' = [stopper EXCEPT !.pc = "rpc", !.call = c]
  PROVE  /\ stopper' \in Stoppers /\ stopper'.pc = "rpc"
         /\ stopper'.call = c /\ stopper'.waiter = stopper.waiter
         /\ stopper'.crash = stopper.crash
  BY DEF Stoppers

\* The records of threads that are not there.
LEMMA NoThreads ==
  /\ NoStarter \in Starters /\ NoStarter.pc = "none"
  /\ NoStopper \in Stoppers /\ NoStopper.pc = "none"
  BY DEF NoStarter, NoStopper, Starters, Stoppers

\* A lambda posted to the core thread, and one taken.
LEMMA CorePosts ==
  ASSUME coreQueue \in Seq(Lambdas), NEW l \in Lambdas
  PROVE  /\ Append(coreQueue, l) \in Seq(Lambdas)
         /\ coreQueue # <<>> =>
              /\ Head(coreQueue) \in Lambdas
              /\ Tail(coreQueue) \in Seq(Lambdas)
  OBVIOUS

\* profile_start, called with q left in the UI thread's queue.
LEMMA Starts ==
  ASSUME NEW id \in Profiles, NEW q \in Seq(Ids \cup Tasks), ProfileStart(id, q),
         coreQueue \in Seq(Lambdas), starter \in Starters
  PROVE  /\ coreQueue' \in Seq(Lambdas)
         /\ ui' \in Seq(Ids \cup Tasks)
         /\ starter' \in Starters
         /\ \/ ui' = q /\ starter' = starter /\ (mu_starting' <=> mu_starting)
            \/ /\ ~mu_starting /\ ~mu_stopping /\ mu_starting'
               /\ starter'.pc = "waitUi" /\ starter'.id = id
               /\ ui' = Append(q, "stopFirst")
<1> DEFINE l == [op |-> "request", id |-> id]
           r == [pc |-> "waitUi", id |-> id, call |-> Nil]
<1>1. /\ l \in Lambdas
      /\ r \in Starters /\ r.pc = "waitUi" /\ r.id = id
  BY DEF Lambdas, Starters
<1>2. Append(coreQueue, l) \in Seq(Lambdas) /\ Append(q, "stopFirst") \in Seq(Ids \cup Tasks)
  BY <1>1, CorePosts, Posts
<1> HIDE DEF r, l
<1>3. \/ /\ ui' = q /\ starter' = starter /\ (mu_starting' <=> mu_starting)
         /\ coreQueue' = coreQueue \/ coreQueue' = Append(coreQueue, l)
      \/ /\ ~mu_starting /\ ~mu_stopping /\ mu_starting'
         /\ starter' = r
         /\ ui' = Append(q, "stopFirst")
         /\ coreQueue' = coreQueue
  BY Zenon DEF ProfileStart, r, l
<1>4. CASE /\ ui' = q /\ starter' = starter /\ (mu_starting' <=> mu_starting)
           /\ coreQueue' = coreQueue \/ coreQueue' = Append(coreQueue, l)
  BY <1>2, <1>4, Zenon
<1>5. CASE /\ ~mu_starting /\ ~mu_stopping /\ mu_starting'
           /\ starter' = r
           /\ ui' = Append(q, "stopFirst")
           /\ coreQueue' = coreQueue
  BY <1>1, <1>2, <1>5, Zenon
<1> QED
  BY <1>3, <1>4, <1>5

\* A start by the user takes mu_starting with its thread and the posted stop,
\* or nothing (mainwindow_rpc.cpp:845-895).
LEMMA LockUserStart ==
  ASSUME LockInv, NEW id \in Profiles, UserStart(id)
  PROVE  LockInv'
<1> USE DEF LockInv
<1>0. /\ ProfileStart(id, ui) /\ uiWait = "no"
      /\ UNCHANGED <<uiWait, stopper, running, started_id, suspendedProfileId,
                     mu_stopping, spmode_packet_filter, raced>>
  BY Zenon DEF UserStart, Event, UiFree, suspendVars
<1>s. /\ coreQueue' \in Seq(Lambdas)
      /\ ui' \in Seq(Ids \cup Tasks)
      /\ starter' \in Starters
      /\ \/ ui' = ui /\ starter' = starter /\ (mu_starting' <=> mu_starting)
         \/ /\ ~mu_starting /\ ~mu_stopping /\ mu_starting'
            /\ starter'.pc = "waitUi" /\ starter'.id = id
            /\ ui' = Append(ui, "stopFirst")
  BY <1>0, Starts DEF Typed
<1>1. Typed'
  BY <1>0, <1>s DEF Typed
<1>2. Locks'
  <2>1. CASE ui' = ui /\ starter' = starter /\ (mu_starting' <=> mu_starting)
    BY <1>0, <2>1 DEF Typed, Locks
  <2>2. CASE /\ ~mu_starting /\ ~mu_stopping /\ mu_starting'
             /\ starter'.pc = "waitUi" /\ ui' = Append(ui, "stopFirst")
    <3>1. ui' = Append(ui, "stopFirst") /\ uiWait' = "no" /\ stopper' = stopper
      BY <1>0, <2>2
    <3>2. /\ starter.pc = "none" /\ stopper.pc = "none"
          /\ ~In("unlock", ui) /\ ~In("stopFirst", ui)
          /\ Once("stopFirst", ui) /\ Once("unlock", ui)
      BY <1>0, <2>2 DEF Typed, Locks
    <3>3. /\ In("stopFirst", ui') /\ ~In("unlock", ui')
          /\ Once("stopFirst", ui') /\ Once("unlock", ui')
      BY <3>1, <3>2, Posts DEF Typed
    <3> QED
      BY <1>0, <2>2, <3>1, <3>2, <3>3 DEF Locks
  <2> QED
    BY <1>s, <2>1, <2>2, Zenon
<1>3. Filters'
  BY <1>0, <1>s DEF Filters
<1>4. SameId'
  BY <1>0, <1>s DEF SameId
<1>5. StopHasProfile'
  BY <1>0 DEF StopHasProfile
<1> QED
  BY <1>1, <1>2, <1>3, <1>4, <1>5

\* A stop by the user takes mu_stopping with its thread, or nothing
\* (mainwindow_rpc.cpp:1049-1097).
LEMMA LockUserStop ==
  ASSUME LockInv, UserStop
  PROVE  LockInv'
<1> USE DEF LockInv
<1>1. Typed'
  BY Stops DEF Typed, UserStop, supVars, suspendVars
<1>2. Locks'
  BY DEF Typed, Locks, UserStop, supVars, suspendVars, ProfileStop
<1>3. Filters'
  BY DEF Typed, Filters, UserStop, supVars, suspendVars, ProfileStop
<1>4. SameId'
  BY DEF Typed, SameId, UserStop, supVars, suspendVars
<1>5. StopHasProfile'
  BY DEF Typed, Filters, SameId, StopHasProfile, UserStop, supVars, suspendVars, ProfileStop
<1> QED
  BY <1>1, <1>2, <1>3, <1>4, <1>5

\* A suspend only remembers the profile.
LEMMA LockhandleSystemSuspend ==
  ASSUME LockInv, handleSystemSuspend
  PROVE  LockInv'
<1> USE DEF LockInv
<1>1. Typed'
  BY DEF Typed, handleSystemSuspend, supVars, threadVars
<1>2. Locks'
  BY DEF Typed, Locks, handleSystemSuspend, supVars, threadVars
<1>3. Filters'
  BY DEF Typed, Filters, handleSystemSuspend, supVars, threadVars
<1>4. SameId'
  BY DEF Typed, SameId, handleSystemSuspend, supVars, threadVars
<1>5. StopHasProfile'
  BY DEF Typed, Filters, SameId, StopHasProfile, handleSystemSuspend, supVars, threadVars
<1> QED
  BY <1>1, <1>2, <1>3, <1>4, <1>5

\* A resume only arms the timer.
LEMMA LockhandleSystemResume ==
  ASSUME LockInv, handleSystemResume
  PROVE  LockInv'
<1> USE DEF LockInv
<1>1. Typed'
  BY DEF Typed, handleSystemResume, supVars, threadVars
<1>2. Locks'
  BY DEF Typed, Locks, handleSystemResume, supVars, threadVars
<1>3. Filters'
  BY DEF Typed, Filters, handleSystemResume, supVars, threadVars
<1>4. SameId'
  BY DEF Typed, SameId, handleSystemResume, supVars, threadVars
<1>5. StopHasProfile'
  BY DEF Typed, Filters, SameId, StopHasProfile, handleSystemResume, supVars, threadVars
<1> QED
  BY <1>1, <1>2, <1>3, <1>4, <1>5

\* The resume timer stops the profile and blocks the UI thread.
LEMMA LockResumeTimer ==
  ASSUME LockInv, ResumeTimer
  PROVE  LockInv'
<1> USE DEF LockInv
<1>0. /\ uiWait = "no" /\ uiWait' \in {"no", "recover"}
      /\ suspendedProfileId' \in Ids
      /\ UNCHANGED <<ui, starter, running, started_id, coreQueue,
                     mu_starting, spmode_packet_filter, raced>>
  BY DEF ResumeTimer, UiFree, supVars, Typed
<1>s. /\ stopper' \in Stoppers
      /\ \/ stopper' = stopper /\ (mu_stopping' <=> mu_stopping)
         \/ /\ running # NoId /\ ~mu_stopping /\ mu_stopping'
            /\ stopper'.pc = "begin"
  <2>1. UNCHANGED <<mu_stopping, stopper>> \/ ProfileStop(TRUE, FALSE, "ui")
    BY Zenon DEF ResumeTimer
  <2>2. stopper \in Stoppers
    BY DEF Typed
  <2>3. CASE UNCHANGED <<mu_stopping, stopper>>
    BY <2>2, <2>3
  <2>4. CASE ProfileStop(TRUE, FALSE, "ui")
    BY <2>2, <2>4, Stops
  <2> QED
    BY <2>1, <2>3, <2>4
<1>1. Typed'
  BY <1>0, <1>s DEF Typed
<1>2. Locks'
  BY <1>0, <1>s DEF Typed, Locks
<1>3. Filters'
  BY <1>0, <1>s DEF Filters
<1>4. SameId'
  BY <1>0, <1>s DEF SameId
<1>5. StopHasProfile'
  BY <1>0, <1>s DEF StopHasProfile
<1> QED
  BY <1>1, <1>2, <1>3, <1>4, <1>5

\* The status timer posts a stop; the packet filter mode goes off.
LEMMA LockFilterDied ==
  ASSUME LockInv, FilterDied
  PROVE  LockInv'
<1> USE DEF LockInv
<1>1. Typed'
  BY Posts DEF Typed, FilterDied, threadVars, ownVars, suspendVars
<1>2. Locks'
  <2>1. /\ ui' = Append(ui, "crashed")
        /\ UNCHANGED <<starter, stopper, mu_starting, mu_stopping, uiWait>>
    BY Zenon DEF FilterDied, threadVars
  <2>2. /\ In("unlock", ui') <=> In("unlock", ui)
        /\ In("stopFirst", ui') <=> In("stopFirst", ui)
        /\ Once("unlock", ui') /\ Once("stopFirst", ui')
    BY <2>1, Posts DEF Typed, Locks
  <2> QED
    BY <2>1, <2>2 DEF Locks
<1>3. Filters'
  BY DEF Typed, Filters, FilterDied, threadVars, ownVars, suspendVars
<1>4. SameId'
  BY DEF Typed, SameId, FilterDied, threadVars, ownVars, suspendVars
<1>5. StopHasProfile'
  BY DEF Typed, Filters, SameId, StopHasProfile, FilterDied, threadVars,
         ownVars, suspendVars
<1> QED
  BY <1>1, <1>2, <1>3, <1>4, <1>5

\* A reset posts a kill to the core thread and blocks the UI thread.
LEMMA LockStopVPNProcess ==
  ASSUME LockInv, StopVPNProcess
  PROVE  LockInv'
<1> USE DEF LockInv
<1>0. /\ uiWait = "no" /\ uiWait' = "kill"
      /\ coreQueue' = Append(coreQueue, [op |-> "kill", id |-> NoId])
      /\ UNCHANGED <<ui, starter, stopper, running, started_id, suspendedProfileId,
                     mu_starting, mu_stopping, spmode_packet_filter, raced>>
  BY Zenon DEF StopVPNProcess, Event, UiFree, supVars, threadVars, suspendVars
<1>q. coreQueue' \in Seq(Lambdas)
  <2>1. [op |-> "kill", id |-> NoId] \in Lambdas
    BY DEF Lambdas
  <2> QED
    BY <1>0, <2>1, CorePosts DEF Typed
<1>1. Typed'
  BY <1>0, <1>q DEF Typed
<1>2. Locks'
  BY <1>0, <1>q DEF Locks
<1>3. Filters'
  BY <1>0, <1>q DEF Filters
<1>4. SameId'
  BY <1>0, <1>q DEF SameId
<1>5. StopHasProfile'
  BY <1>0, <1>q DEF StopHasProfile
<1> QED
  BY <1>1, <1>2, <1>3, <1>4, <1>5

\* An exit takes no lock.
LEMMA LockPrepareExit ==
  ASSUME LockInv, PrepareExit
  PROVE  LockInv'
<1> USE DEF LockInv
<1>1. Typed'
  BY DEF Typed, PrepareExit, ownVars, suspendVars
<1>2. Locks'
  BY DEF Typed, Locks, PrepareExit, ownVars, suspendVars
<1>3. Filters'
  BY DEF Typed, Filters, PrepareExit, ownVars, suspendVars
<1>4. SameId'
  BY DEF Typed, SameId, PrepareExit, ownVars, suspendVars
<1>5. StopHasProfile'
  BY DEF Typed, Filters, SameId, StopHasProfile, PrepareExit, ownVars, suspendVars
<1> QED
  BY <1>1, <1>2, <1>3, <1>4, <1>5

\* A posted lambda: the stop before a start, the unlock, or the stop of a
\* crashed helper (mainwindow_rpc.cpp:880-895, 1096).
LEMMA LockUiTask ==
  ASSUME LockInv, UiTask
  PROVE  LockInv'
<1> USE DEF LockInv
<1>0. /\ ui # <<>> /\ ui' = Tail(ui) /\ uiWait = "no"
      /\ UNCHANGED <<starter, running, started_id, suspendedProfileId, coreQueue,
                     mu_starting, spmode_packet_filter, raced>>
      /\ \/ Head(ui) = "stopFirst" /\ ProfileStop(FALSE, TRUE, "ui") /\ uiWait' = "start"
         \/ Head(ui) = "unlock" /\ ~mu_stopping' /\ stopper' = stopper /\ uiWait' = uiWait
         \/ Head(ui) = "crashed" /\ ProfileStop(FALSE, FALSE, "none") /\ uiWait' = uiWait
  BY Zenon DEF UiTask, UiFree, suspendVars
<1>s. /\ stopper' \in Stoppers
      /\ \/ Head(ui) = "unlock" /\ ~mu_stopping' /\ stopper' = stopper
         \/ Head(ui) # "unlock" /\ stopper' = stopper /\ (mu_stopping' <=> mu_stopping)
         \/ /\ Head(ui) # "unlock" /\ running # NoId /\ ~mu_stopping /\ mu_stopping'
            /\ stopper'.pc = "begin"
  <2>1. stopper \in Stoppers
    BY DEF Typed
  <2>2. CASE Head(ui) = "stopFirst" /\ ProfileStop(FALSE, TRUE, "ui")
    BY <2>1, <2>2, Stops
  <2>3. CASE Head(ui) = "unlock" /\ ~mu_stopping' /\ stopper' = stopper
    BY <2>1, <2>3
  <2>4. CASE Head(ui) = "crashed" /\ ProfileStop(FALSE, FALSE, "none")
    BY <2>1, <2>4, Stops
  <2> QED
    BY <1>0, <2>2, <2>3, <2>4, Zenon
<1>q. ui' \in Seq(Ids \cup Tasks)
  BY <1>0, Takes DEF Typed
<1>w. (Head(ui) = "stopFirst" /\ uiWait' = "start") \/ (Head(ui) # "stopFirst" /\ uiWait' = "no")
  BY <1>0
<1>t. /\ In("unlock", ui) <=> Head(ui) = "unlock" \/ In("unlock", ui')
      /\ In("stopFirst", ui) <=> Head(ui) = "stopFirst" \/ In("stopFirst", ui')
      /\ Once("unlock", ui') /\ Once("stopFirst", ui')
      /\ Head(ui) = "unlock" => ~In("unlock", ui')
      /\ Head(ui) = "stopFirst" => ~In("stopFirst", ui')
  BY <1>0, Takes DEF Typed, Locks
<1>1. Typed'
  BY <1>0, <1>s, <1>q, <1>w DEF Typed
<1>2. Locks'
  <2>1. CASE Head(ui) = "unlock" /\ ~mu_stopping' /\ stopper' = stopper
    BY <1>0, <1>w, <1>t, <2>1 DEF Locks
  <2>2. CASE Head(ui) # "unlock" /\ stopper' = stopper /\ (mu_stopping' <=> mu_stopping)
    BY <1>0, <1>w, <1>t, <2>2 DEF Locks
  <2>3. CASE /\ Head(ui) # "unlock" /\ running # NoId /\ ~mu_stopping /\ mu_stopping'
             /\ stopper'.pc = "begin"
    BY <1>0, <1>w, <1>t, <2>3 DEF Locks
  <2> QED
    BY <1>s, <2>1, <2>2, <2>3, Zenon
<1>3. Filters'
  BY <1>0 DEF Filters
<1>4. SameId'
  BY <1>0 DEF SameId
<1>5. StopHasProfile'
  BY <1>0, <1>s DEF StopHasProfile
<1> QED
  BY <1>1, <1>2, <1>3, <1>4, <1>5

\* A message that the core started starts the profile it names.
LEMMA LockCoreStarted ==
  ASSUME LockInv, CoreStarted
  PROVE  LockInv'
<1> USE DEF LockInv
<1>0. /\ \/ /\ ui' = Tail(ui) /\ Head(ui) = NoId
            /\ UNCHANGED <<mu_starting, starter, coreQueue>>
         \/ Head(ui) \in Profiles /\ ProfileStart(Head(ui), Tail(ui))
      /\ ui # <<>> /\ uiWait = "no"
      /\ UNCHANGED <<uiWait, stopper, running, started_id, suspendedProfileId,
                     mu_stopping, spmode_packet_filter, raced>>
  BY Zenon DEF CoreStarted, UiFree, suspendVars
<1>t. Tail(ui) \in Seq(Ids \cup Tasks)
  BY <1>0, Takes DEF Typed
<1>s. /\ coreQueue' \in Seq(Lambdas)
      /\ ui' \in Seq(Ids \cup Tasks)
      /\ starter' \in Starters
      /\ \/ ui' = Tail(ui) /\ starter' = starter /\ (mu_starting' <=> mu_starting)
         \/ /\ ~mu_starting /\ ~mu_stopping /\ mu_starting'
            /\ starter'.pc = "waitUi" /\ starter'.id # NoId
            /\ ui' = Append(Tail(ui), "stopFirst")
  <2>1. CASE /\ ui' = Tail(ui) /\ Head(ui) = NoId
             /\ UNCHANGED <<mu_starting, starter, coreQueue>>
    BY <1>t, <2>1 DEF Typed
  <2>2. CASE Head(ui) \in Profiles /\ ProfileStart(Head(ui), Tail(ui))
    BY <1>t, <2>2, Starts DEF Typed
  <2> QED
    BY <1>0, <2>1, <2>2, Zenon
<1>h. Head(ui) \notin Tasks
  BY <1>0
<1>1. Typed'
  BY <1>0, <1>s DEF Typed
<1>2. Locks'
  <2>1. CASE ui' = Tail(ui) /\ starter' = starter /\ (mu_starting' <=> mu_starting)
    BY <1>0, <2>1, <1>t, <1>h, Takes DEF Typed, Locks
  <2>2. CASE /\ ~mu_starting /\ ~mu_stopping /\ mu_starting'
             /\ starter'.pc = "waitUi" /\ ui' = Append(Tail(ui), "stopFirst")
    <3>1. ui' = Append(Tail(ui), "stopFirst") /\ uiWait' = "no" /\ stopper' = stopper
      BY <1>0, <2>2
    <3>2. /\ starter.pc = "none" /\ stopper.pc = "none"
          /\ ~In("unlock", Tail(ui)) /\ ~In("stopFirst", Tail(ui))
          /\ Once("stopFirst", Tail(ui)) /\ Once("unlock", Tail(ui))
      BY <1>0, <2>2, <1>t, <1>h, Takes DEF Typed, Locks
    <3>3. /\ In("stopFirst", ui') /\ ~In("unlock", ui')
          /\ Once("stopFirst", ui') /\ Once("unlock", ui')
      BY <3>1, <3>2, Posts, <1>t, <1>h, Takes DEF Typed
    <3> QED
      BY <1>0, <2>2, <3>1, <3>2, <3>3 DEF Locks
  <2> QED
    BY <1>s, <2>1, <2>2, Zenon
<1>3. Filters'
  BY <1>0, <1>s DEF Filters
<1>4. SameId'
  BY <1>0, <1>s DEF SameId
<1>5. StopHasProfile'
  BY <1>0 DEF StopHasProfile
<1> QED
  BY <1>1, <1>2, <1>3, <1>4, <1>5

\* The blocked UI thread goes on: the start thread it kept waiting is ready.
LEMMA LockUiContinues ==
  ASSUME LockInv, UiContinues
  PROVE  LockInv'
<1> USE DEF LockInv
<1>0. /\ uiWait \in {"start", "recover"} /\ uiWait' = "no"
      /\ starter' = IF uiWait = "start" THEN [starter EXCEPT !.pc = "ready"] ELSE starter
      /\ UNCHANGED <<ui, stopper, running, started_id,
                     mu_starting, mu_stopping, spmode_packet_filter, raced>>
  BY Zenon DEF UiContinues, supVars
<1>s. /\ starter' \in Starters /\ starter'.id = starter.id
      /\ uiWait = "start" => starter'.pc = "ready"
      /\ uiWait # "start" => starter'.pc = starter.pc
  <2>1. CASE uiWait = "start"
    <3>1. starter' = [starter EXCEPT !.pc = "ready"]
      BY <1>0, <2>1
    <3> QED
      BY <2>1, <3>1, StarterPc DEF Typed
  <2>2. CASE uiWait # "start"
    BY <1>0, <2>2 DEF Typed
  <2> QED
    BY <2>1, <2>2
<1>q. coreQueue' \in Seq(Lambdas) /\ suspendedProfileId' \in Ids
  <2>1. [op |-> "recover", id |-> suspendedProfileId] \in Lambdas
    BY DEF Typed, Lambdas
  <2>2. /\ \/ coreQueue' = coreQueue
           \/ coreQueue' = Append(coreQueue, [op |-> "recover", id |-> suspendedProfileId])
        /\ suspendedProfileId' \in {NoId, suspendedProfileId}
    BY DEF UiContinues
  <2> QED
    BY <2>1, <2>2, CorePosts DEF Typed
<1>1. Typed'
  BY <1>0, <1>s, <1>q DEF Typed
<1>2. Locks'
  BY <1>0, <1>s DEF Locks
<1>3. Filters'
  BY <1>0, <1>s DEF Locks, Filters
<1>4. SameId'
  BY <1>0, <1>s DEF Locks, SameId
<1>5. StopHasProfile'
  BY <1>0 DEF StopHasProfile
<1> QED
  BY <1>1, <1>2, <1>3, <1>4, <1>5

\* A start whose configuration fails ends.
LEMMA LockStartNotSent ==
  ASSUME LockInv, StartNotSent
  PROVE  LockInv'
<1> USE DEF LockInv
<1>0. /\ starter.pc = "ready"
      /\ starter' \in Starters /\ starter'.pc = "end" /\ starter'.id = starter.id
      /\ UNCHANGED <<ui, uiWait, stopper, running, started_id, suspendedProfileId, coreQueue,
                     mu_starting, mu_stopping, spmode_packet_filter, raced>>
  <2>1. starter.pc = "ready" /\ starter' = [starter EXCEPT !.pc = "end"]
    BY Zenon DEF StartNotSent, StarterAt, StarterGoes
  <2>2. starter' \in Starters /\ starter'.pc = "end" /\ starter'.id = starter.id
    BY <2>1, StarterPc DEF Typed
  <2> QED
    BY <2>1, <2>2, Zenon DEF StartNotSent, supVars, suspendVars
<1>1. Typed'
  BY <1>0 DEF Typed
<1>2. Locks'
  BY <1>0 DEF Typed, Locks
<1>3. Filters'
  BY <1>0 DEF Filters
<1>4. SameId'
  BY <1>0 DEF SameId
<1>5. StopHasProfile'
  BY <1>0 DEF StopHasProfile
<1> QED
  BY <1>1, <1>2, <1>3, <1>4, <1>5

\* The Start is sent: no lock changes.
LEMMA LockStartSent ==
  ASSUME LockInv, NEW c \in StartCalls, StartSent(c)
  PROVE  LockInv'
<1> USE DEF LockInv
<1>0. /\ starter' \in Starters /\ starter'.pc = "rpc" /\ starter'.id = starter.id
      /\ starter.pc = "ready"
      /\ UNCHANGED <<ui, uiWait, stopper, running, started_id, suspendedProfileId, coreQueue,
                     mu_starting, mu_stopping, spmode_packet_filter>>
      /\ raced \subseteq raced'
  <2>1. starter' = [starter EXCEPT !.pc = "rpc", !.call = c] /\ starter.pc = "ready"
    BY DEF StartSent, StarterAt
  <2>2. starter \in Starters /\ c \in Calls
    BY DEF Typed, Calls
  <2>3. starter' \in Starters /\ starter'.pc = "rpc" /\ starter'.id = starter.id
    BY <2>1, <2>2, StarterCalls
  <2> QED
    BY <2>1, <2>3, Zenon DEF StartSent, supVars, suspendVars
<1>1. Typed'
  BY <1>0 DEF Typed
<1>2. Locks'
  BY <1>0 DEF Typed, Locks
<1>3. Filters'
  BY <1>0 DEF Filters
<1>4. SameId'
  BY <1>0 DEF SameId
<1>5. StopHasProfile'
  BY <1>0 DEF StopHasProfile
<1> QED
  BY <1>1, <1>2, <1>3, <1>4, <1>5

\* A Start that succeeded shows its profile and its id at once
\* (mainwindow_rpc.cpp:708-713).
LEMMA LockStartOk ==
  ASSUME LockInv, StartOk
  PROVE  LockInv'
<1> USE DEF LockInv
<1>0. /\ starter.pc = "rpc"
      /\ starter' = [starter EXCEPT !.pc = IF spmode_packet_filter THEN "filter" ELSE "end"]
      /\ started_id' = starter.id /\ running' = starter.id
      /\ UNCHANGED <<ui, uiWait, stopper, suspendedProfileId, coreQueue,
                     mu_starting, mu_stopping, spmode_packet_filter, raced>>
  BY Zenon DEF StartOk, StarterAt, StarterGoes, suspendVars
<1>s. /\ starter' \in Starters /\ starter'.id = starter.id
      /\ (starter'.pc = "filter" /\ spmode_packet_filter) \/ starter'.pc = "end"
      /\ starter.id \in Ids /\ starter.id # NoId
  <2>1. starter \in Starters /\ starter.id # NoId /\ starter.id \in Ids
    BY <1>0 DEF Typed, SameId, Starters
  <2>2. \/ spmode_packet_filter /\ starter' = [starter EXCEPT !.pc = "filter"]
        \/ starter' = [starter EXCEPT !.pc = "end"]
    BY <1>0
  <2>3. CASE spmode_packet_filter /\ starter' = [starter EXCEPT !.pc = "filter"]
    BY <2>1, <2>3, StarterPc
  <2>4. CASE starter' = [starter EXCEPT !.pc = "end"]
    BY <2>1, <2>4, StarterPc
  <2> QED
    BY <2>2, <2>3, <2>4, Zenon
<1>1. Typed'
  BY <1>0, <1>s DEF Typed
<1>2. Locks'
  BY <1>0, <1>s DEF Locks
<1>3. Filters'
  BY <1>0, <1>s DEF Filters
<1>4. SameId'
  BY <1>0, <1>s DEF SameId
<1>5. StopHasProfile'
  BY <1>0, <1>s DEF StopHasProfile
<1> QED
  BY <1>1, <1>2, <1>3, <1>4, <1>5

\* A Start that failed or timed out shows nothing.
LEMMA LockStartFailed ==
  ASSUME LockInv, StartFailed
  PROVE  LockInv'
<1> USE DEF LockInv
<1>0. /\ starter.pc = "rpc"
      /\ starter' \in Starters /\ starter'.pc = "end" /\ starter'.id = starter.id
      /\ UNCHANGED <<ui, uiWait, stopper, running, started_id, suspendedProfileId, coreQueue,
                     mu_starting, mu_stopping, spmode_packet_filter, raced>>
  <2>1. starter.pc = "rpc" /\ starter' = [starter EXCEPT !.pc = "end"]
    BY Zenon DEF StartFailed, StarterAt, StarterGoes
  <2>2. starter' \in Starters /\ starter'.pc = "end" /\ starter'.id = starter.id
    BY <2>1, StarterPc DEF Typed
  <2> QED
    BY <2>1, <2>2, Zenon DEF StartFailed, supVars, suspendVars
<1>1. Typed'
  BY <1>0 DEF Typed
<1>2. Locks'
  BY <1>0 DEF Typed, Locks
<1>3. Filters'
  BY <1>0 DEF Filters
<1>4. SameId'
  BY <1>0 DEF SameId
<1>5. StopHasProfile'
  BY <1>0 DEF StopHasProfile
<1> QED
  BY <1>1, <1>2, <1>3, <1>4, <1>5

\* The packet filter comes up: the start ends.
LEMMA LockFilterStarts ==
  ASSUME LockInv, FilterStarts
  PROVE  LockInv'
<1> USE DEF LockInv
<1>0. /\ starter.pc = "filter"
      /\ starter' \in Starters /\ starter'.pc = "end" /\ starter'.id = starter.id
      /\ UNCHANGED <<ui, uiWait, stopper, running, started_id, suspendedProfileId, coreQueue,
                     mu_starting, mu_stopping, spmode_packet_filter, raced>>
  <2>1. starter.pc = "filter" /\ starter' = [starter EXCEPT !.pc = "end"]
    BY Zenon DEF FilterStarts, StarterAt, StarterGoes
  <2>2. starter' \in Starters /\ starter'.pc = "end" /\ starter'.id = starter.id
    BY <2>1, StarterPc DEF Typed
  <2> QED
    BY <2>1, <2>2, Zenon DEF FilterStarts, supVars, suspendVars
<1>1. Typed'
  BY <1>0 DEF Typed
<1>2. Locks'
  BY <1>0 DEF Typed, Locks
<1>3. Filters'
  BY <1>0 DEF Filters
<1>4. SameId'
  BY <1>0 DEF SameId
<1>5. StopHasProfile'
  BY <1>0 DEF StopHasProfile
<1> QED
  BY <1>1, <1>2, <1>3, <1>4, <1>5

\* The packet filter fails: its mode goes off, in that mode only.
LEMMA LockFilterFails ==
  ASSUME LockInv, FilterFails
  PROVE  LockInv'
<1> USE DEF LockInv
<1>0. /\ starter' \in Starters /\ starter'.pc \in {"filterRpc", "filterOff"}
      /\ starter'.id = starter.id /\ starter.pc = "filter" /\ ~spmode_packet_filter'
      /\ UNCHANGED <<ui, uiWait, stopper, running, started_id, suspendedProfileId, coreQueue,
                     mu_starting, mu_stopping, raced>>
  <2>1. /\ starter.pc = "filter"
        /\ \/ starter' = [starter EXCEPT !.pc = "filterOff"]
           \/ \E c \in StopCalls : starter' = [starter EXCEPT !.pc = "filterRpc", !.call = c]
    BY DEF FilterFails, StarterAt, StarterGoes
  <2>2. starter \in Starters /\ StopCalls \subseteq Calls
    BY DEF Typed, Calls
  <2>3. starter' \in Starters /\ starter'.pc \in {"filterRpc", "filterOff"}
          /\ starter'.id = starter.id
    <3>1. CASE starter' = [starter EXCEPT !.pc = "filterOff"]
      BY <2>2, <3>1, StarterPc
    <3>2. CASE \E c \in StopCalls : starter' = [starter EXCEPT !.pc = "filterRpc", !.call = c]
      BY <2>2, <3>2, StarterCalls
    <3> QED
      BY <2>1, <3>1, <3>2
  <2> QED
    BY <2>1, <2>3, Zenon DEF FilterFails, supVars, suspendVars
<1>1. Typed'
  BY <1>0 DEF Typed
<1>2. Locks'
  BY <1>0 DEF Typed, Locks
<1>3. Filters'
  BY <1>0 DEF Filters
<1>4. SameId'
  BY <1>0 DEF SameId
<1>5. StopHasProfile'
  BY <1>0 DEF Filters, StopHasProfile
<1> QED
  BY <1>1, <1>2, <1>3, <1>4, <1>5

\* The Stop after a failed packet filter is answered or times out.
LEMMA LockFilterStopAnswered ==
  ASSUME LockInv, FilterStopAnswered
  PROVE  LockInv'
<1> USE DEF LockInv
<1>0. /\ starter.pc = "filterRpc"
      /\ starter' \in Starters /\ starter'.pc = "filterOff" /\ starter'.id = starter.id
      /\ UNCHANGED <<ui, uiWait, stopper, running, started_id, suspendedProfileId, coreQueue,
                     mu_starting, mu_stopping, spmode_packet_filter, raced>>
  <2>1. starter.pc = "filterRpc" /\ starter' = [starter EXCEPT !.pc = "filterOff"]
    BY Zenon DEF FilterStopAnswered, StarterAt, StarterGoes
  <2>2. starter' \in Starters /\ starter'.pc = "filterOff" /\ starter'.id = starter.id
    BY <2>1, StarterPc DEF Typed
  <2> QED
    BY <2>1, <2>2, Zenon DEF FilterStopAnswered, supVars, suspendVars
<1>1. Typed'
  BY <1>0 DEF Typed
<1>2. Locks'
  BY <1>0 DEF Typed, Locks
<1>3. Filters'
  BY <1>0 DEF Filters
<1>4. SameId'
  BY <1>0 DEF SameId
<1>5. StopHasProfile'
  BY <1>0 DEF StopHasProfile
<1> QED
  BY <1>1, <1>2, <1>3, <1>4, <1>5

\* running and started_id are cleared with no lock taken, and the mode is
\* off by then (mainwindow_rpc.cpp:819-823).
LEMMA LockFilterOff ==
  ASSUME LockInv, FilterOff
  PROVE  LockInv'
<1> USE DEF LockInv
<1>0. /\ starter.pc = "filterOff"
      /\ starter' \in Starters /\ starter'.pc = "end" /\ starter'.id = starter.id
      /\ started_id' = NoId /\ running' = NoId
      /\ UNCHANGED <<ui, uiWait, stopper, suspendedProfileId, coreQueue,
                     mu_starting, mu_stopping, spmode_packet_filter, raced>>
  <2>1. starter.pc = "filterOff" /\ starter' = [starter EXCEPT !.pc = "end"]
    BY Zenon DEF FilterOff, StarterAt, StarterGoes
  <2>2. starter' \in Starters /\ starter'.pc = "end" /\ starter'.id = starter.id
    BY <2>1, StarterPc DEF Typed
  <2> QED
    BY <2>1, <2>2, Zenon DEF FilterOff, suspendVars
<1>1. Typed'
  BY <1>0 DEF Typed
<1>2. Locks'
  BY <1>0 DEF Typed, Locks
<1>3. Filters'
  BY <1>0 DEF Filters
<1>4. SameId'
  BY <1>0 DEF SameId
<1>5. StopHasProfile'
  BY <1>0 DEF Filters, StopHasProfile
<1> QED
  BY <1>1, <1>2, <1>3, <1>4, <1>5

\* The start thread ends and releases mu_starting.
LEMMA LockStarterEnds ==
  ASSUME LockInv, StarterEnds
  PROVE  LockInv'
<1> USE DEF LockInv
<1>1. Typed'
  BY NoThreads DEF Typed, StarterEnds, StarterAt, supVars, suspendVars
<1>2. Locks'
  BY NoThreads DEF Typed, Locks, StarterEnds, StarterAt, supVars, suspendVars
<1>3. Filters'
  BY NoThreads DEF Typed, Filters, StarterEnds, StarterAt, supVars, suspendVars
<1>4. SameId'
  BY NoThreads DEF Typed, SameId, StarterEnds, supVars, suspendVars
<1>5. StopHasProfile'
  BY NoThreads
     DEF Typed, Filters, SameId, StopHasProfile, StarterEnds, StarterAt,
         supVars, suspendVars
<1> QED
  BY <1>1, <1>2, <1>3, <1>4, <1>5

\* The stop thread sends its Stop, or leaves it out.
LEMMA LockStopSent ==
  ASSUME LockInv, StopSent
  PROVE  LockInv'
<1> USE DEF LockInv
<1>0. /\ stopper' \in Stoppers /\ stopper'.pc \in {"rpc", "finish"}
      /\ stopper.pc = "begin"
      /\ UNCHANGED <<ui, uiWait, starter, running, started_id, suspendedProfileId, coreQueue,
                     mu_starting, mu_stopping, spmode_packet_filter, raced>>
  <2>1. /\ stopper.pc = "begin"
        /\ \/ stopper' = [stopper EXCEPT !.pc = "finish"]
           \/ \E c \in StopCalls : stopper' = [stopper EXCEPT !.pc = "rpc", !.call = c]
    BY DEF StopSent
  <2>2. stopper \in Stoppers /\ StopCalls \subseteq Calls
    BY DEF Typed, Calls
  <2>3. stopper' \in Stoppers /\ stopper'.pc \in {"rpc", "finish"}
    <3>1. CASE stopper' = [stopper EXCEPT !.pc = "finish"]
      BY <2>2, <3>1, StopperPc
    <3>2. CASE \E c \in StopCalls : stopper' = [stopper EXCEPT !.pc = "rpc", !.call = c]
      BY <2>2, <3>2, StopperCalls
    <3> QED
      BY <2>1, <3>1, <3>2
  <2> QED
    BY <2>1, <2>3, Zenon DEF StopSent, supVars, suspendVars
<1>1. Typed'
  BY <1>0 DEF Typed
<1>2. Locks'
  BY <1>0 DEF Typed, Locks
<1>3. Filters'
  BY <1>0 DEF Filters
<1>4. SameId'
  BY <1>0 DEF SameId
<1>5. StopHasProfile'
  BY <1>0 DEF StopHasProfile
<1> QED
  BY <1>1, <1>2, <1>3, <1>4, <1>5

\* The Stop is answered or times out.
LEMMA LockStopAnswered ==
  ASSUME LockInv, StopAnswered
  PROVE  LockInv'
<1> USE DEF LockInv
<1>0. /\ stopper' \in Stoppers /\ stopper'.pc = "finish"
      /\ stopper.pc = "rpc"
      /\ UNCHANGED <<ui, uiWait, starter, running, started_id, suspendedProfileId, coreQueue,
                     mu_starting, mu_stopping, spmode_packet_filter, raced>>
  <2>1. stopper.pc = "rpc" /\ stopper' = [stopper EXCEPT !.pc = "finish"]
    BY Zenon DEF StopAnswered
  <2>2. stopper' \in Stoppers /\ stopper'.pc = "finish"
    BY <2>1, StopperPc DEF Typed
  <2> QED
    BY <2>1, <2>2, Zenon DEF StopAnswered, supVars, suspendVars
<1>1. Typed'
  BY <1>0 DEF Typed
<1>2. Locks'
  BY <1>0 DEF Typed, Locks
<1>3. Filters'
  BY <1>0 DEF Filters
<1>4. SameId'
  BY <1>0 DEF SameId
<1>5. StopHasProfile'
  BY <1>0 DEF StopHasProfile
<1> QED
  BY <1>1, <1>2, <1>3, <1>4, <1>5

\* The stop thread ends: running is cleared, and mu_stopping is left to the
\* unlock it posts (mainwindow_rpc.cpp:1081-1097).
LEMMA LockStopFinishes ==
  ASSUME LockInv, StopFinishes
  PROVE  LockInv'
<1> USE DEF LockInv
<1>1. Typed'
  BY NoThreads, Posts DEF Typed, StopFinishes, ownVars, suspendVars
<1>2. Locks'
  <2>1. /\ stopper.pc = "finish" /\ stopper' = NoStopper /\ ui' = Append(ui, "unlock")
        /\ UNCHANGED <<starter, mu_starting, mu_stopping, uiWait>>
    BY Zenon DEF StopFinishes
  <2>2. ~In("unlock", ui)
    BY <2>1 DEF Locks
  <2>3. /\ In("unlock", ui')
        /\ In("stopFirst", ui') <=> In("stopFirst", ui)
        /\ Once("unlock", ui') /\ Once("stopFirst", ui')
    BY <2>1, <2>2, Posts DEF Typed, Locks
  <2> QED
    BY <2>1, <2>3, NoThreads DEF Locks
<1>3. Filters'
  BY NoThreads DEF Typed, Filters, StopFinishes, ownVars, suspendVars
<1>4. SameId'
  BY NoThreads DEF Typed, SameId, StopFinishes, ownVars, suspendVars
<1>5. StopHasProfile'
  BY NoThreads
     DEF Typed, Filters, SameId, StopHasProfile, StopFinishes, ownVars,
         suspendVars
<1> QED
  BY <1>1, <1>2, <1>3, <1>4, <1>5

\* A crash or an exit takes mu_stopping after it looked: the profile may be
\* gone, which raced remembers (mainwindow_rpc.cpp:1024, 1049).
LEMMA LockStopLocks ==
  ASSUME LockInv, NEW who \in {"core","exit"}, StopLocks(who)
  PROVE  LockInv'
<1> USE DEF LockInv
<1>0. /\ mu_stopping'
      /\ \/ mu_stopping /\ stopper' = stopper
         \/ /\ ~mu_stopping /\ stopper'.pc = "begin"
            /\ running = NoId => "staleCheck" \in raced'
      /\ stopper' \in Stoppers
      /\ raced \subseteq raced'
      /\ UNCHANGED <<ui, uiWait, starter, running, started_id, suspendedProfileId, coreQueue,
                     mu_starting, spmode_packet_filter>>
  <2>1. /\ mu_stopping' = TRUE
        /\ raced' = raced \cup {r \in {"staleCheck"} : ~mu_stopping /\ running = NoId}
        /\ UNCHANGED <<ui, uiWait, starter, running, started_id, suspendedProfileId, coreQueue,
                       mu_starting, spmode_packet_filter>>
    BY Zenon DEF StopLocks, supVars, suspendVars
  <2> DEFINE b == who = "core"
             r == [pc |-> "begin", crash |-> b, manual |-> FALSE, waiter |-> who,
                   call |-> Nil]
  <2>2. r \in Stoppers /\ r.pc = "begin"
    <3>1. b \in BOOLEAN
      OBVIOUS
    <3> HIDE DEF b
    <3> QED
      BY <3>1 DEF Stoppers
  <2>3. stopper' = IF mu_stopping THEN stopper ELSE r
    BY Zenon DEF StopLocks
  <2> HIDE DEF r
  <2>4. stopper \in Stoppers
    BY DEF Typed
  <2>5. CASE mu_stopping
    BY <2>1, <2>3, <2>4, <2>5
  <2>6. CASE ~mu_stopping
    BY <2>1, <2>2, <2>3, <2>6
  <2> QED
    BY <2>5, <2>6
<1>1. Typed'
  BY <1>0 DEF Typed
<1>2. Locks'
  BY <1>0 DEF Locks
<1>3. Filters'
  BY <1>0 DEF Filters
<1>4. SameId'
  BY <1>0 DEF SameId
<1>5. StopHasProfile'
  BY <1>0 DEF StopHasProfile
<1> QED
  BY <1>1, <1>2, <1>3, <1>4, <1>5

\* Steps that leave the threads and their locks alone, but may post to the UI
\* thread or to the core thread, keep the invariant.
LEMMA LockElsewhere ==
  ASSUME LockInv,
         ui' = ui \/ \E x \in Ids \cup {"crashed"} : ui' = Append(ui, x),
         coreQueue' \in Seq(Lambdas),
         raced \subseteq raced',
         UNCHANGED <<uiWait, starter, stopper, running, started_id, suspendedProfileId,
                     mu_starting, mu_stopping, spmode_packet_filter>>
  PROVE  LockInv'
<1> USE DEF LockInv
<1>1. /\ ui' \in Seq(Ids \cup Tasks)
      /\ In("unlock", ui') <=> In("unlock", ui)
      /\ In("stopFirst", ui') <=> In("stopFirst", ui)
      /\ Once("unlock", ui') /\ Once("stopFirst", ui')
  <2>1. CASE ui' = ui
    BY <2>1 DEF Typed, Locks
  <2>2. CASE \E x \in Ids \cup {"crashed"} : ui' = Append(ui, x)
    <3>1. PICK x \in Ids \cup {"crashed"} : ui' = Append(ui, x)
      BY <2>2
    <3>2. x # "unlock" /\ x # "stopFirst" /\ x \in Ids \cup Tasks
      OBVIOUS
    <3> QED
      BY <3>1, <3>2, Posts DEF Typed, Locks
  <2> QED
    BY <2>1, <2>2
<1>2. Typed'
  BY <1>1 DEF Typed
<1>3. Locks'
  BY <1>1 DEF Locks
<1>4. Filters'
  BY DEF Filters
<1>5. SameId'
  BY DEF SameId
<1>6. StopHasProfile'
  BY DEF StopHasProfile
<1> QED
  BY <1>2, <1>3, <1>4, <1>5, <1>6

\* The core thread and the core keep the invariant.
LEMMA LockCore ==
  ASSUME LockInv, start_profile \in Ids,
         \/ Supervise \/ CoreComesUp \/ ExitNoticed \/ CleanedUp \/ KillGivesUp \/ RunLambda
         \/ CoreDies \/ Background \/ KillReturned
         \/ \E c \in Calls : ServeCall(c)
  PROVE  LockInv'
<1>t. coreQueue \in Seq(Lambdas)
  BY DEF LockInv, Typed
<1>k. ASSUME UNCHANGED <<ui, coreQueue, uiWait, starter, stopper, running, started_id,
                         suspendedProfileId, mu_starting, mu_stopping,
                         spmode_packet_filter>>,
             raced \subseteq raced'
      PROVE  LockInv'
  BY <1>t, <1>k, LockElsewhere
<1>1. CASE Supervise
  <2>1. UNCHANGED <<ui, started_id>>
    BY <1>1
       DEF Supervise, BecomesRunning, FailsToStart, TenSeconds, RestartFires,
           RestartWaited
  <2> QED
    BY <1>1, <2>1, <1>k DEF Supervise, guiVars, threadVars, suspendVars
<1>2. CASE CoreComesUp
  <2>1. /\ ui' = Append(ui, start_profile) /\ started_id' = started_id
        /\ UNCHANGED guiVars
    BY <1>2, Zenon DEF CoreComesUp, CoreListens
  <2> QED
    BY <1>t, <2>1, LockElsewhere DEF guiVars, threadVars, suspendVars
<1>3. CASE ExitNoticed
  BY <1>3, <1>k DEF ExitNoticed, CoreExits, suspendVars
<1>4. CASE CleanedUp
  <2>1. UNCHANGED <<ui, started_id>>
    BY <1>4 DEF CleanedUp, CleanupDone
  <2> QED
    BY <1>4, <2>1, <1>k DEF CleanedUp, guiVars, threadVars, suspendVars
<1>5. CASE KillGivesUp
  <2>1. UNCHANGED <<ui, started_id>>
    BY <1>5 DEF KillGivesUp, KillTimesOut
  <2> QED
    BY <1>5, <2>1, <1>k DEF KillGivesUp, guiVars, threadVars, suspendVars
<1>6. CASE RunLambda
  <2>1. coreQueue # <<>> /\ coreQueue' = Tail(coreQueue)
    BY <1>6 DEF RunLambda
  <2>2. coreQueue' \in Seq(Lambdas)
    BY <1>t, <2>1
  <2>3. started_id' = started_id
    BY <1>6 DEF RunLambda, Request, Recover, Kill
  <2> QED
    BY <1>6, <2>2, <2>3, LockElsewhere DEF RunLambda, threadVars, suspendVars
<1>7. CASE CoreDies
  BY <1>7, <1>k DEF CoreDies, supVars, threadVars, suspendVars
<1>8. CASE Background
  <2>1. ui' = ui \/ ui' = Append(ui, "crashed")
    BY <1>8, Zenon DEF Background
  <2>2. started_id' = started_id /\ UNCHANGED guiVars
    BY <1>8, Zenon DEF Background
  <2> QED
    BY <1>t, <2>1, <2>2, LockElsewhere DEF guiVars, threadVars, suspendVars
<1>9. CASE KillReturned
  <2>1. /\ uiWait = "kill" /\ uiWait' = "no"
        /\ UNCHANGED <<ui, coreQueue, starter, stopper, running, started_id,
                       suspendedProfileId, mu_starting, mu_stopping,
                       spmode_packet_filter, raced>>
    BY <1>9, Zenon DEF KillReturned, supVars, threadVars, suspendVars
  <2> QED
    BY <2>1 DEF LockInv, Typed, Locks, Filters, SameId, StopHasProfile
<1>10. CASE \E c \in Calls : ServeCall(c)
  BY <1>10, <1>k DEF ServeCall, supVars, threadVars, suspendVars
<1> QED
  BY <1>1, <1>2, <1>3, <1>4, <1>5, <1>6, <1>7, <1>8, <1>9, <1>10

\* The profile that waits for the core is a profile or none.
LEMMA WaitingId ==
  ASSUME LockInv, start_profile \in Ids, Next
  PROVE  start_profile' \in Ids
<1>t. started_id \in Ids /\ coreQueue \in Seq(Lambdas)
  BY DEF LockInv, Typed
<1>1. CASE Supervise
  BY <1>1
     DEF Supervise, BecomesRunning, FailsToStart, TenSeconds, RestartFires,
         RestartWaited
<1>2. CASE CoreComesUp
  BY <1>2 DEF CoreComesUp, CoreListens
<1>3. CASE ExitNoticed \/ KillGivesUp
  BY <1>3 DEF ExitNoticed, CoreExits, KillGivesUp, KillTimesOut
<1>4. CASE CleanedUp
  BY <1>t, <1>4 DEF CleanedUp, CleanupDone
<1>5. CASE RunLambda
  <2>1. coreQueue # <<>> /\ Head(coreQueue) \in Lambdas
    BY <1>t, <1>5 DEF RunLambda
  <2>2. Head(coreQueue).id \in Ids
    BY <2>1 DEF Lambdas
  <2>3. start_profile' = start_profile \/ start_profile' = Head(coreQueue).id
    BY <1>5, Zenon DEF RunLambda, Request, Recover, Kill
  <2> QED
    BY <2>2, <2>3
<1>6. CASE UiStep \/ StarterStep \/ StopperStep
  <2>1. start_profile' = start_profile
    BY <1>6, Zenon
       DEF UiStep, StarterStep, StopperStep, UiTask, CoreStarted, ResumeTimer, UiContinues,
           KillReturned, StartNotSent, StartSent, StartOk, StartFailed, FilterStarts,
           FilterFails, FilterStopAnswered, FilterOff, StarterEnds, StopSent, StopAnswered,
           StopFinishes, supVars, ownVars
  <2> QED
    BY <2>1
<1>7. CASE \/ \E id \in Profiles : UserStart(id)
           \/ UserStop \/ handleSystemSuspend \/ handleSystemResume \/ FilterDied
           \/ StopVPNProcess \/ PrepareExit
           \/ StopLocks("core") \/ StopLocks("exit") \/ CoreDies \/ Background
           \/ \E c \in Calls : ServeCall(c)
  <2>1. start_profile' = start_profile
    BY <1>7, Zenon
       DEF UserStart, UserStop, handleSystemSuspend, handleSystemResume, FilterDied,
           StopVPNProcess, PrepareExit, StopLocks, CoreDies, Background, ServeCall, supVars,
           ownVars
  <2> QED
    BY <2>1
<1> QED
  BY <1>1, <1>2, <1>3, <1>4, <1>5, <1>6, <1>7, Zenon DEF Next, CoreThreadStep

\* The initial state.
LEMMA LockInit == GuiInit => LockInv /\ start_profile \in Ids
<1> SUFFICES ASSUME GuiInit PROVE LockInv /\ start_profile \in Ids
  OBVIOUS
<1>1. /\ ui = <<>> /\ uiWait = "no" /\ starter = NoStarter /\ stopper = NoStopper
      /\ running = NoId /\ started_id = NoId /\ suspendedProfileId = NoId
      /\ coreQueue = <<>> /\ ~mu_starting /\ ~mu_stopping
      /\ spmode_packet_filter = PacketFilter
      /\ start_profile \in Ids
  BY Zenon DEF GuiInit, SupInit
<1>2. ~In("unlock", ui) /\ ~In("stopFirst", ui) /\ Once("unlock", ui) /\ Once("stopFirst", ui)
  BY <1>1 DEF In, Once
<1>3. Typed
  BY <1>1, NoThreads DEF Typed
<1>4. Locks
  BY <1>1, <1>2, NoThreads DEF Locks
<1>5. Filters
  BY <1>1, NoThreads DEF Filters
<1>6. SameId /\ StopHasProfile
  BY <1>1, NoThreads DEF SameId, StopHasProfile
<1> QED
  BY <1>1, <1>3, <1>4, <1>5, <1>6 DEF LockInv

\* Every step keeps the invariant.
LEMMA LockStep ==
  ASSUME LockInv, start_profile \in Ids, [Next]_vars
  PROVE  LockInv' /\ start_profile' \in Ids
<1>1. CASE UNCHANGED vars
  <2>1. /\ UNCHANGED <<ui, coreQueue, uiWait, starter, stopper, running, started_id,
                       suspendedProfileId, mu_starting, mu_stopping,
                       spmode_packet_filter, raced, start_profile>>
    BY <1>1, Zenon DEF vars, supVars, guiVars, threadVars, suspendVars
  <2>2. coreQueue \in Seq(Lambdas)
    BY DEF LockInv, Typed
  <2> QED
    BY <2>1, <2>2, LockElsewhere
<1>2. CASE Next
  <2>1. start_profile' \in Ids
    BY <1>2, WaitingId
  <2> SUFFICES LockInv'
    BY <2>1
  <2>2. CASE \/ \E id \in Profiles : UserStart(id)
             \/ UserStop \/ handleSystemSuspend \/ handleSystemResume \/ FilterDied
             \/ StopVPNProcess \/ PrepareExit
    BY <2>2, LockUserStart, LockUserStop, LockhandleSystemSuspend, LockhandleSystemResume,
       LockFilterDied, LockStopVPNProcess, LockPrepareExit, Zenon
  <2>3. CASE UiStep
    <3>1. CASE KillReturned
      BY <3>1, LockCore
    <3> QED
      BY <2>3, <3>1, LockUiTask, LockCoreStarted, LockResumeTimer, LockUiContinues, Zenon
         DEF UiStep
  <2>4. CASE StarterStep
    BY <2>4, LockStartNotSent, LockStartSent, LockStartOk, LockStartFailed,
       LockFilterStarts,
       LockFilterFails, LockFilterStopAnswered, LockFilterOff, LockStarterEnds, Zenon
       DEF StarterStep
  <2>5. CASE StopperStep
    BY <2>5, LockStopSent, LockStopAnswered, LockStopFinishes, Zenon DEF StopperStep
  <2>6. CASE StopLocks("core") \/ StopLocks("exit")
    BY <2>6, LockStopLocks
  <2>7. CASE \/ Supervise \/ CoreComesUp \/ ExitNoticed \/ CleanedUp \/ KillGivesUp
             \/ RunLambda \/ CoreDies \/ Background \/ \E c \in Calls : ServeCall(c)
    BY <2>7, LockCore, Zenon
  <2> QED
    BY <1>2, <2>1, <2>2, <2>3, <2>4, <2>5, <2>6, <2>7, Zenon DEF Next, CoreThreadStep
<1> QED
  BY <1>1, <1>2

\* What the invariant says of the locks.
LEMMA LocksMeanHeld == Typed /\ Locks => MutexesHeld
<1> SUFFICES ASSUME Typed, Locks PROVE MutexesHeld
  OBVIOUS
<1>1. ui \in Seq(Ids \cup Tasks) /\ DOMAIN ui = 1 .. Len(ui)
  BY DEF Typed
<1>2. Unlocks # {} <=> In("unlock", ui)
  BY <1>1 DEF Unlocks, In
<1>3. CASE In("unlock", ui)
  <2>1. PICK i \in 1 .. Len(ui) : ui[i] = "unlock"
    BY <1>3 DEF In
  <2>2. Unlocks = {i}
    BY <1>1, <2>1 DEF Unlocks, Locks, Once
  <2>3. Cardinality(Unlocks) = 1
    BY <2>2, FS_Singleton
  <2>4. stopper.pc = "none"
    BY <1>3 DEF Locks
  <2>5. Cardinality(Unlocks) <= (IF stopper.pc = "none" THEN 1 ELSE 0)
    BY <2>3, <2>4
  <2> QED
    BY <1>2, <2>5, Zenon DEF MutexesHeld, Locks
<1>4. CASE ~In("unlock", ui)
  <2>1. Unlocks = {}
    BY <1>2, <1>4
  <2>2. Cardinality(Unlocks) = 0
    BY <2>1, FS_EmptySet
  <2>3. Cardinality(Unlocks) <= (IF stopper.pc = "none" THEN 1 ELSE 0)
    BY <2>2
  <2> QED
    BY <1>2, <2>3, Zenon DEF MutexesHeld, Locks
<1> QED
  BY <1>3, <1>4

\* The invariant holds in every reachable state.
LEMMA LockInvariant == Spec => [](LockInv /\ start_profile \in Ids)
<1> DEFINE I == LockInv /\ start_profile \in Ids
<1>1. GuiInit => I
  BY LockInit
<1>2. I /\ [Next]_vars => I'
  BY LockStep
<1> QED
  BY <1>1, <1>2, PTL DEF Spec

(***************************************************************************)
(* The try-locks are held exactly by their threads, mu_stopping until the  *)
(* posted unlock runs, and never unlocked twice or lost                    *)
(* (mainwindow_rpc.cpp:845-895, 1049-1097).                                *)
(***************************************************************************)
THEOREM LocksAreHeld == Spec => []MutexesHeld
<1>1. LockInv => MutexesHeld
  BY LocksMeanHeld DEF LockInv
<1> QED
  BY <1>1, LockInvariant, PTL

(***************************************************************************)
(* started_id is the profile that runs whenever no start is under way      *)
(* (mainwindow_rpc.cpp:712-713, 1086-1088; Process.cpp:148).               *)
(***************************************************************************)
THEOREM IdMatches == Spec => []StartedIdMatches
<1>1. LockInv => StartedIdMatches
  BY DEF LockInv, SameId, StartedIdMatches
<1> QED
  BY <1>1, LockInvariant, PTL

(***************************************************************************)
(* The stop thread dereferences a null running (mainwindow_rpc.cpp:1079)   *)
(* only after a failed packet filter or a stale check.                     *)
(***************************************************************************)
THEOREM StopSeesProfile == Spec => []StopHasProfile
<1>1. LockInv => StopHasProfile
  BY DEF LockInv
<1> QED
  BY <1>1, LockInvariant, PTL
-----------------------------------------------------------------------------
\* The core and its process, which the threads of the GUI leave alone.
CoreVars == <<serverVars, procVars, thread>>

\* A lambda that restarts the core after a resume waits for the core thread.
Pending == \E i \in DOMAIN coreQueue : coreQueue[i].op = "recover"

\* A recovery waits once it is posted, and until a lambda that is not one is
\* all that was taken.
LEMMA PendingPosts ==
  ASSUME coreQueue \in Seq(Lambdas), NEW l \in Lambdas
  PROVE  /\ coreQueue' = Append(coreQueue, l) => (Pending' <=> Pending \/ l.op = "recover")
         /\ coreQueue # <<>> /\ coreQueue' = Tail(coreQueue) /\ Head(coreQueue).op # "recover"
              => (Pending => Pending')
<1>1. DOMAIN coreQueue = 1 .. Len(coreQueue) /\ Len(coreQueue) \in Nat
  OBVIOUS
<1>2. ASSUME coreQueue' = Append(coreQueue, l)
      PROVE  Pending' <=> Pending \/ l.op = "recover"
  <2>1. /\ DOMAIN coreQueue' = 1 .. Len(coreQueue) + 1
        /\ \A i \in 1 .. Len(coreQueue) : coreQueue'[i] = coreQueue[i]
        /\ coreQueue'[Len(coreQueue) + 1] = l
    BY <1>1, <1>2
  <2>2. ASSUME Pending PROVE Pending'
    BY <1>1, <2>1, <2>2 DEF Pending
  <2>3. ASSUME l.op = "recover" PROVE Pending'
    <3>1. Len(coreQueue) + 1 \in DOMAIN coreQueue'
      BY <1>1, <2>1
    <3> QED
      BY <2>1, <2>3, <3>1 DEF Pending
  <2>4. ASSUME Pending' PROVE Pending \/ l.op = "recover"
    <3>1. PICK i \in DOMAIN coreQueue' : coreQueue'[i].op = "recover"
      BY <2>4 DEF Pending
    <3>2. CASE i \in 1 .. Len(coreQueue)
      BY <1>1, <2>1, <3>1, <3>2 DEF Pending
    <3>3. CASE i = Len(coreQueue) + 1
      BY <2>1, <3>1, <3>3
    <3>4. i \in 1 .. Len(coreQueue) \/ i = Len(coreQueue) + 1
      BY <1>1, <2>1, <3>1
    <3> QED
      BY <3>2, <3>3, <3>4
  <2> QED
    BY <2>2, <2>3, <2>4
<1>3. ASSUME coreQueue # <<>>, coreQueue' = Tail(coreQueue), Head(coreQueue).op # "recover",
             Pending
      PROVE  Pending'
  <2>1. PICK i \in 1 .. Len(coreQueue) : coreQueue[i].op = "recover"
    BY <1>1, <1>3 DEF Pending
  <2>2. i # 1 /\ i \in Nat
    BY <1>3, <2>1
  <2>3. i - 1 \in DOMAIN coreQueue' /\ coreQueue'[i - 1] = coreQueue[i]
    BY <1>1, <1>3, <2>1, <2>2
  <2> QED
    BY <2>1, <2>3 DEF Pending
<1> QED
  BY <1>2, <1>3

(***************************************************************************)
(* What each step does to the threads, the core and its process.           *)
(***************************************************************************)
\* A start by the user spawns a start thread only while no stop is under way.
LEMMA MoveUserStart ==
  ASSUME LockInv, NEW id \in Profiles, UserStart(id)
  PROVE  /\ UNCHANGED <<CoreVars, stopper, running, uiWait, checked, raced, timeouts>>
         /\ mu_stopping' <=> mu_stopping
         /\ Pending => Pending'
         /\ \/ starter' = starter
            \/ starter.pc = "none" /\ starter'.pc = "waitUi" /\ ~mu_stopping
<1>1. /\ ProfileStart(id, ui)
      /\ UNCHANGED <<CoreVars, stopper, running, uiWait, checked, raced, timeouts, mu_stopping>>
  BY Zenon DEF UserStart, ownVars, CoreVars
<1>2. \/ starter' = starter
      \/ starter.pc = "none" /\ starter'.pc = "waitUi" /\ ~mu_stopping
  BY <1>1, Starts DEF LockInv, Typed, Locks
<1>3. Pending => Pending'
  <2>1. [op |-> "request", id |-> id] \in Lambdas
    BY DEF Lambdas
  <2>2. coreQueue' = coreQueue \/ coreQueue' = Append(coreQueue, [op |-> "request", id |-> id])
    BY <1>1, Zenon DEF ProfileStart
  <2> QED
    BY <2>1, <2>2, PendingPosts DEF LockInv, Typed, Pending
<1> QED
  BY <1>1, <1>2, <1>3

\* A start by a message of the supervisor does the same.
LEMMA MoveCoreStarted ==
  ASSUME LockInv, CoreStarted
  PROVE  /\ UNCHANGED <<CoreVars, stopper, running, uiWait, checked, raced, timeouts>>
         /\ mu_stopping' <=> mu_stopping
         /\ Pending => Pending'
         /\ \/ starter' = starter
            \/ starter.pc = "none" /\ starter'.pc = "waitUi" /\ ~mu_stopping
<1>1. /\ ui # <<>>
      /\ \/ UNCHANGED <<mu_starting, starter, coreQueue>>
         \/ Head(ui) \in Profiles /\ ProfileStart(Head(ui), Tail(ui))
      /\ UNCHANGED <<CoreVars, stopper, running, uiWait, checked, raced, timeouts, mu_stopping>>
  BY Zenon DEF CoreStarted, ownVars, CoreVars
<1>2. CASE UNCHANGED <<mu_starting, starter, coreQueue>>
  BY <1>1, <1>2 DEF Pending
<1>3. CASE Head(ui) \in Profiles /\ ProfileStart(Head(ui), Tail(ui))
  <2>1. Tail(ui) \in Seq(Ids \cup Tasks)
    BY <1>1, Takes DEF LockInv, Typed
  <2>2. \/ starter' = starter
        \/ starter.pc = "none" /\ starter'.pc = "waitUi" /\ ~mu_stopping
    BY <1>3, <2>1, Starts DEF LockInv, Typed, Locks
  <2>3. [op |-> "request", id |-> Head(ui)] \in Lambdas
    BY <1>3 DEF Lambdas
  <2>4. \/ coreQueue' = coreQueue
        \/ coreQueue' = Append(coreQueue, [op |-> "request", id |-> Head(ui)])
    BY <1>3, Zenon DEF ProfileStart
  <2>5. Pending => Pending'
    BY <2>3, <2>4, PendingPosts DEF LockInv, Typed, Pending
  <2> QED
    BY <1>1, <2>2, <2>5
<1> QED
  BY <1>1, <1>2, <1>3

\* A stop by the user spawns a stop thread that will call the core.
LEMMA MoveUserStop ==
  ASSUME LockInv, UserStop
  PROVE  /\ UNCHANGED <<CoreVars, starter, running, uiWait, checked, raced, timeouts, coreQueue>>
         /\ \/ stopper' = stopper /\ (mu_stopping' <=> mu_stopping)
            \/ /\ running # NoId /\ ~mu_stopping /\ mu_stopping'
               /\ stopper'.pc = "begin" /\ ~stopper'.crash
<1>1. /\ ProfileStop(FALSE, TRUE, "none")
      /\ UNCHANGED <<CoreVars, starter, running, uiWait, checked, raced, timeouts, coreQueue>>
  BY Zenon DEF UserStop, supVars, CoreVars
<1>2. stopper \in Stoppers
  BY DEF LockInv, Typed
<1>3. \/ stopper' = stopper /\ (mu_stopping' <=> mu_stopping)
      \/ /\ running # NoId /\ ~mu_stopping /\ mu_stopping'
         /\ stopper'.pc = "begin" /\ (stopper'.crash <=> FALSE)
  BY <1>1, <1>2, Stops
<1> QED
  BY <1>1, <1>3, Zenon

\* A posted lambda: the UI thread blocks for a start only with the start
\* thread waiting, and a stop thread comes with a running profile.
LEMMA MoveUiTask ==
  ASSUME LockInv, UiTask
  PROVE  /\ UNCHANGED <<CoreVars, starter, running, checked, raced, timeouts, coreQueue>>
         /\ uiWait = "no"
         /\ \/ uiWait' = "no" /\ stopper' = stopper /\ ~mu_stopping'
            \/ /\ uiWait' \in {"no", "start"}
               /\ uiWait' = "start" => starter.pc = "waitUi"
               /\ \/ /\ running = NoId \/ mu_stopping
                     /\ stopper' = stopper /\ (mu_stopping' <=> mu_stopping)
                  \/ /\ running # NoId /\ ~mu_stopping /\ mu_stopping'
                     /\ stopper'.pc = "begin" /\ ~stopper'.crash
<1>1. /\ UNCHANGED <<CoreVars, starter, running, checked, raced, timeouts, coreQueue>>
      /\ uiWait = "no" /\ ui # <<>>
      /\ \/ Head(ui) = "stopFirst" /\ ProfileStop(FALSE, TRUE, "ui") /\ uiWait' = "start"
         \/ ~mu_stopping' /\ stopper' = stopper /\ uiWait' = uiWait
         \/ ProfileStop(FALSE, FALSE, "none") /\ uiWait' = uiWait
  BY Zenon DEF UiTask, UiFree, ownVars, CoreVars
<1>2. stopper \in Stoppers
  BY DEF LockInv, Typed
<1>3. CASE Head(ui) = "stopFirst" /\ ProfileStop(FALSE, TRUE, "ui") /\ uiWait' = "start"
  <2>1. \/ /\ running = NoId \/ mu_stopping
           /\ stopper' = stopper /\ (mu_stopping' <=> mu_stopping)
        \/ /\ running # NoId /\ ~mu_stopping /\ mu_stopping'
           /\ stopper'.pc = "begin" /\ (stopper'.crash <=> FALSE)
    BY <1>2, <1>3, Stops
  <2>2. starter.pc = "waitUi"
    BY <1>1, <1>3, Takes DEF LockInv, Typed, Locks
  <2>3. uiWait' = "start" /\ uiWait' \in {"no", "start"}
    BY <1>3
  <2> QED
    BY <1>1, <2>1, <2>2, <2>3, Zenon
<1>4. CASE ~mu_stopping' /\ stopper' = stopper /\ uiWait' = uiWait
  BY <1>1, <1>4, Zenon
<1>5. CASE ProfileStop(FALSE, FALSE, "none") /\ uiWait' = uiWait
  <2>1. \/ /\ running = NoId \/ mu_stopping
           /\ stopper' = stopper /\ (mu_stopping' <=> mu_stopping)
        \/ /\ running # NoId /\ ~mu_stopping /\ mu_stopping'
           /\ stopper'.pc = "begin" /\ (stopper'.crash <=> FALSE)
    BY <1>2, <1>5, Stops
  <2>3. uiWait' = "no" /\ uiWait' \in {"no", "start"} /\ uiWait' # "start"
    BY <1>1, <1>5
  <2> QED
    BY <1>1, <2>1, <2>3, Zenon
<1> QED
  BY <1>1, <1>3, <1>4, <1>5, Zenon

\* The resume timer spawns a stop thread that does not call the core, and
\* the UI thread waits for it.
LEMMA MoveResumeTimer ==
  ASSUME LockInv, ResumeTimer
  PROVE  /\ UNCHANGED <<CoreVars, starter, running, checked, raced, timeouts, coreQueue>>
         /\ uiWait = "no"
         /\ \/ uiWait' \in {"no", "recover"} /\ stopper' = stopper
               /\ (mu_stopping' <=> mu_stopping)
            \/ /\ running # NoId /\ ~mu_stopping /\ mu_stopping' /\ uiWait' = "recover"
               /\ stopper'.pc = "begin" /\ stopper'.crash /\ stopper'.waiter = "ui"
<1>1. /\ UNCHANGED <<CoreVars, starter, running, checked, raced, timeouts, coreQueue>>
      /\ uiWait = "no"
      /\ \/ UNCHANGED <<mu_stopping, stopper, uiWait>>
         \/ ProfileStop(TRUE, FALSE, "ui") /\ uiWait' = "recover"
  BY Zenon DEF ResumeTimer, UiFree, supVars, CoreVars
<1>2. stopper \in Stoppers
  BY DEF LockInv, Typed
<1>3. CASE UNCHANGED <<mu_stopping, stopper, uiWait>>
  <2>1. uiWait' \in {"no", "recover"} /\ stopper' = stopper
    BY <1>1, <1>3
  <2> QED
    BY <1>1, <1>3, <2>1, Zenon
<1>4. CASE ProfileStop(TRUE, FALSE, "ui") /\ uiWait' = "recover"
  <2>1. \/ stopper' = stopper /\ (mu_stopping' <=> mu_stopping)
        \/ /\ running # NoId /\ ~mu_stopping /\ mu_stopping'
           /\ stopper'.pc = "begin" /\ stopper'.waiter = "ui" /\ (stopper'.crash <=> TRUE)
    BY <1>2, <1>4, Stops
  <2>2. uiWait' \in {"no", "recover"} /\ uiWait' = "recover"
    BY <1>4
  <2> QED
    BY <1>1, <2>1, <2>2, Zenon
<1> QED
  BY <1>1, <1>3, <1>4

\* A crash or an exit spawns a stop thread, without a running profile only
\* when its check was stale.
LEMMA MoveStopLocks ==
  ASSUME LockInv, NEW who \in {"core", "exit"}, StopLocks(who)
  PROVE  /\ UNCHANGED <<CoreVars, starter, running, uiWait, timeouts, coreQueue>>
         /\ who \in checked /\ checked' = checked \ {who}
         /\ raced \subseteq raced'
         /\ mu_stopping'
         /\ \/ mu_stopping /\ stopper' = stopper
            \/ /\ ~mu_stopping /\ stopper'.pc = "begin" /\ stopper'.waiter = who
               /\ stopper'.crash <=> who = "core"
               /\ running = NoId => "staleCheck" \in raced'
<1> DEFINE b == who = "core"
           r == [pc |-> "begin", crash |-> b, manual |-> FALSE, waiter |-> who, call |-> Nil]
<1>1. /\ UNCHANGED <<CoreVars, starter, running, uiWait, timeouts, coreQueue>>
      /\ who \in checked /\ checked' = checked \ {who}
      /\ mu_stopping' = TRUE
      /\ raced' = raced \cup {x \in {"staleCheck"} : ~mu_stopping /\ running = NoId}
      /\ stopper' = IF mu_stopping THEN stopper ELSE r
  BY Zenon DEF StopLocks, supVars, CoreVars
<1>2. r.pc = "begin" /\ r.waiter = who /\ (r.crash <=> b)
  <2> HIDE DEF b
  <2> QED
    OBVIOUS
<1> HIDE DEF r
<1>3. raced \subseteq raced' /\ (~mu_stopping /\ running = NoId => "staleCheck" \in raced')
  BY <1>1
<1>4. CASE mu_stopping
  BY <1>1, <1>3, <1>4, Zenon
<1>5. CASE ~mu_stopping
  <2>1. stopper' = r
    BY <1>1, <1>5
  <2> QED
    BY <1>1, <1>2, <1>3, <1>5, <2>1, Zenon
<1> QED
  BY <1>4, <1>5

\* The UI thread goes on after its stop thread is gone: a start is ready, a
\* recovery is posted.
LEMMA MoveUiContinues ==
  ASSUME LockInv, UiContinues
  PROVE  /\ UNCHANGED <<CoreVars, stopper, running, checked, raced, timeouts>>
         /\ mu_stopping' <=> mu_stopping
         /\ ~Waited("ui") /\ uiWait \in {"start", "recover"} /\ uiWait' = "no"
         /\ uiWait = "start" => starter'.pc = "ready" /\ starter.pc = "waitUi"
         /\ uiWait # "start" => starter' = starter
         /\ Pending => Pending'
         /\ uiWait = "recover" => Pending'
<1> DEFINE l == [op |-> "recover", id |-> suspendedProfileId]
<1>1. /\ UNCHANGED <<CoreVars, stopper, running, checked, raced, timeouts, mu_stopping>>
      /\ ~Waited("ui") /\ uiWait \in {"start", "recover"} /\ uiWait' = "no"
      /\ starter' = IF uiWait = "start" THEN [starter EXCEPT !.pc = "ready"] ELSE starter
      /\ coreQueue' = IF uiWait = "recover" THEN Append(coreQueue, l) ELSE coreQueue
  BY Zenon DEF UiContinues, supVars, CoreVars
<1>2. l \in Lambdas /\ l.op = "recover"
  BY DEF LockInv, Typed, Lambdas
<1> HIDE DEF l
<1>3. (Pending => Pending') /\ (uiWait = "recover" => Pending')
  <2>1. coreQueue \in Seq(Lambdas)
    BY DEF LockInv, Typed
  <2>2. CASE uiWait = "recover"
    BY <1>1, <1>2, <2>1, <2>2, PendingPosts
  <2>3. CASE uiWait # "recover"
    BY <1>1, <2>3 DEF Pending
  <2> QED
    BY <2>2, <2>3
<1>4. uiWait = "start" => starter'.pc = "ready" /\ starter.pc = "waitUi"
  <2> SUFFICES ASSUME uiWait = "start" PROVE starter'.pc = "ready" /\ starter.pc = "waitUi"
    OBVIOUS
  <2>1. starter' = [starter EXCEPT !.pc = "ready"] /\ starter \in Starters
    BY <1>1 DEF LockInv, Typed
  <2>2. starter'.pc = "ready"
    BY <2>1, StarterPc
  <2> QED
    BY <2>2 DEF LockInv, Locks
<1>5. uiWait # "start" => starter' = starter
  BY <1>1
<1> QED
  BY <1>1, <1>3, <1>4, <1>5, Zenon

\* Suspend, resume, exit, reset and the status timer leave the threads alone.
LEMMA MoveOthers ==
  ASSUME LockInv,
         handleSystemSuspend \/ handleSystemResume \/ FilterDied \/ PrepareExit
           \/ StopVPNProcess \/ KillReturned
  PROVE  /\ UNCHANGED <<CoreVars, starter, stopper, running, raced, timeouts>>
         /\ mu_stopping' <=> mu_stopping
         /\ "core" \in checked' => "core" \in checked
         /\ uiWait' = uiWait \/ (uiWait \in {"no", "kill"} /\ uiWait' \in {"no", "kill"})
         /\ Pending => Pending'
<1>1. CASE handleSystemSuspend \/ handleSystemResume \/ FilterDied \/ PrepareExit
  <2>1. UNCHANGED <<CoreVars, starter, stopper, running, raced, timeouts, mu_stopping, uiWait,
                    coreQueue>>
    BY <1>1, Zenon
       DEF handleSystemSuspend, handleSystemResume, FilterDied, PrepareExit, supVars, ownVars,
           threadVars, CoreVars
  <2>2. checked' = checked \/ checked' = checked \cup {w \in {"exit"} : running # NoId}
    BY <1>1, Zenon
       DEF handleSystemSuspend, handleSystemResume, FilterDied, PrepareExit, threadVars
  <2>3. "core" \in checked' => "core" \in checked
    BY <2>2
  <2>4. Pending => Pending'
    BY <2>1 DEF Pending
  <2> QED
    BY <2>1, <2>3, <2>4, Zenon
<1>2. CASE StopVPNProcess
  <2>1. /\ UNCHANGED <<CoreVars, starter, stopper, running, raced, timeouts, mu_stopping, checked>>
        /\ coreQueue' = Append(coreQueue, [op |-> "kill", id |-> NoId])
        /\ uiWait = "no" /\ uiWait' = "kill"
    BY <1>2, Zenon DEF StopVPNProcess, Event, UiFree, supVars, threadVars, CoreVars
  <2>2. [op |-> "kill", id |-> NoId] \in Lambdas
    BY DEF Lambdas
  <2>3. Pending => Pending'
    BY <2>1, <2>2, PendingPosts DEF LockInv, Typed
  <2>4. uiWait \in {"no", "kill"} /\ uiWait' \in {"no", "kill"}
    BY <2>1
  <2> QED
    BY <2>1, <2>3, <2>4, Zenon
<1>3. CASE KillReturned
  <2>1. /\ UNCHANGED <<CoreVars, starter, stopper, running, raced, timeouts, mu_stopping, checked,
                       coreQueue>>
        /\ uiWait = "kill" /\ uiWait' = "no"
    BY <1>3, Zenon DEF KillReturned, supVars, threadVars, CoreVars
  <2>2. uiWait \in {"no", "kill"} /\ uiWait' \in {"no", "kill"}
    BY <2>1
  <2>3. Pending => Pending'
    BY <2>1 DEF Pending
  <2> QED
    BY <2>1, <2>2, <2>3, Zenon
<1> QED
  BY <1>1, <1>2, <1>3

\* The thread of profile_start.
LEMMA MoveStarter ==
  ASSUME LockInv,
         StartNotSent \/ StartOk \/ StartFailed \/ FilterStarts \/ FilterStopAnswered
           \/ FilterOff \/ StarterEnds
  PROVE  /\ UNCHANGED <<CoreVars, stopper, uiWait, checked, raced, coreQueue>>
         /\ mu_stopping' <=> mu_stopping
         /\ timeouts \in Nat => timeouts' \in Nat /\ (timeouts' = 0 => timeouts = 0)
         /\ \/ /\ starter.pc \in {"ready", "filter", "end"} /\ starter'.pc \in {"end", "none"}
               /\ running' = running
            \/ /\ starter.pc = "rpc" /\ pc[starter.call] = "ok"
               /\ starter'.pc \in {"filter", "end"} /\ running' # NoId
            \/ /\ starter.pc = "rpc" /\ starter'.pc = "end" /\ running' = running
               /\ timeouts \in Nat /\ timeouts' = 0 => pc[starter.call] \in {"err", "lost"}
            \/ /\ starter.pc = "filterRpc" /\ starter'.pc = "filterOff" /\ running' = running
               /\ timeouts \in Nat /\ timeouts' = 0 => pc[starter.call] \in Finished
            \/ starter.pc = "filterOff" /\ starter'.pc = "end" /\ running' = NoId
<1>t. starter \in Starters /\ (starter.pc # "none" => starter.id # NoId)
  BY DEF LockInv, Typed, SameId
<1>u. UNCHANGED <<CoreVars, stopper, uiWait, checked, raced, coreQueue, mu_stopping>>
  BY DEF StartNotSent, StartOk, StartFailed, FilterStarts, FilterStopAnswered, FilterOff,
         StarterEnds, supVars, ownVars, CoreVars
<1>n. ASSUME timeouts' = timeouts \/ timeouts' = timeouts + 1
      PROVE  timeouts \in Nat => timeouts' \in Nat /\ (timeouts' = 0 => timeouts = 0)
  BY <1>n
<1>1. CASE StartNotSent \/ FilterStarts
  <2>1. /\ starter.pc \in {"ready", "filter"} /\ starter' = [starter EXCEPT !.pc = "end"]
        /\ running' = running /\ timeouts' = timeouts
    BY <1>1 DEF StartNotSent, FilterStarts, StarterAt, StarterGoes
  <2>2. starter'.pc = "end"
    BY <1>t, <2>1, StarterPc
  <2>3. starter.pc \in {"ready", "filter", "end"} /\ starter'.pc \in {"end", "none"}
    BY <2>1, <2>2
  <2> QED
    BY <1>u, <1>n, <2>1, <2>3, Zenon
<1>2. CASE StarterEnds
  <2>1. /\ starter.pc = "end" /\ starter' = NoStarter
        /\ running' = running /\ timeouts' = timeouts
    BY <1>2 DEF StarterEnds, StarterAt
  <2>2. starter.pc \in {"ready", "filter", "end"} /\ starter'.pc \in {"end", "none"}
    BY <2>1, NoThreads
  <2> QED
    BY <1>u, <1>n, <2>1, <2>2, Zenon
<1>3. CASE StartOk
  <2>1. /\ starter.pc = "rpc" /\ pc[starter.call] = "ok"
        /\ starter' = [starter EXCEPT !.pc = IF spmode_packet_filter THEN "filter" ELSE "end"]
        /\ running' = starter.id /\ timeouts' = timeouts
    BY <1>3, Zenon DEF StartOk, StarterAt, StarterGoes
  <2>2. ASSUME starter' = [starter EXCEPT !.pc = "filter"] PROVE starter'.pc = "filter"
    BY <1>t, <2>2, StarterPc
  <2>3. ASSUME starter' = [starter EXCEPT !.pc = "end"] PROVE starter'.pc = "end"
    BY <1>t, <2>3, StarterPc
  <2>4. starter' = [starter EXCEPT !.pc = "filter"] \/ starter' = [starter EXCEPT !.pc = "end"]
    BY <2>1
  <2>5. starter'.pc \in {"filter", "end"} /\ running' # NoId
    BY <1>t, <2>1, <2>2, <2>3, <2>4
  <2> QED
    BY <1>u, <1>n, <2>1, <2>5, Zenon
<1>4. CASE StartFailed
  <2>1. /\ starter.pc = "rpc" /\ starter' = [starter EXCEPT !.pc = "end"]
        /\ running' = running
        /\ \/ pc[starter.call] \in {"err", "lost"} /\ timeouts' = timeouts
           \/ timeouts' = timeouts + 1
    BY <1>4 DEF StartFailed, StarterAt, StarterGoes, TimesOut
  <2>2. starter'.pc = "end"
    BY <1>t, <2>1, StarterPc
  <2>3. timeouts \in Nat /\ timeouts' = 0 => pc[starter.call] \in {"err", "lost"}
    BY <2>1
  <2> QED
    BY <1>u, <1>n, <2>1, <2>2, <2>3, Zenon
<1>5. CASE FilterStopAnswered
  <2>1. /\ starter.pc = "filterRpc" /\ starter' = [starter EXCEPT !.pc = "filterOff"]
        /\ running' = running
        /\ \/ pc[starter.call] \in Finished /\ timeouts' = timeouts
           \/ timeouts' = timeouts + 1
    BY <1>5 DEF FilterStopAnswered, StarterAt, StarterGoes, TimesOut
  <2>2. starter'.pc = "filterOff"
    BY <1>t, <2>1, StarterPc
  <2>3. timeouts \in Nat /\ timeouts' = 0 => pc[starter.call] \in Finished
    BY <2>1
  <2> QED
    BY <1>u, <1>n, <2>1, <2>2, <2>3, Zenon
<1>6. CASE FilterOff
  <2>1. /\ starter.pc = "filterOff" /\ starter' = [starter EXCEPT !.pc = "end"]
        /\ running' = NoId /\ timeouts' = timeouts
    BY <1>6 DEF FilterOff, StarterAt, StarterGoes
  <2>2. starter'.pc = "end"
    BY <1>t, <2>1, StarterPc
  <2> QED
    BY <1>u, <1>n, <2>1, <2>2, Zenon
<1> QED
  BY <1>1, <1>2, <1>3, <1>4, <1>5, <1>6, Zenon

\* The thread of profile_stop.
LEMMA MoveStopper ==
  ASSUME LockInv, StopAnswered \/ StopFinishes
  PROVE  /\ UNCHANGED <<CoreVars, starter, uiWait, checked, raced, coreQueue>>
         /\ mu_stopping' <=> mu_stopping
         /\ timeouts \in Nat => timeouts' \in Nat /\ (timeouts' = 0 => timeouts = 0)
         /\ \/ /\ stopper.pc = "rpc" /\ stopper'.pc = "finish" /\ running' = running
               /\ stopper'.crash = stopper.crash /\ stopper'.waiter = stopper.waiter
               /\ timeouts \in Nat /\ timeouts' = 0 => pc[stopper.call] \in Finished
            \/ stopper.pc = "finish" /\ stopper'.pc = "none" /\ running' = NoId
<1>t. stopper \in Stoppers
  BY DEF LockInv, Typed
<1>u. UNCHANGED <<CoreVars, starter, uiWait, checked, raced, coreQueue, mu_stopping>>
  BY DEF StopAnswered, StopFinishes, supVars, ownVars, CoreVars
<1>n. ASSUME timeouts' = timeouts \/ timeouts' = timeouts + 1
      PROVE  timeouts \in Nat => timeouts' \in Nat /\ (timeouts' = 0 => timeouts = 0)
  BY <1>n
<1>1. CASE StopAnswered
  <2>1. /\ stopper.pc = "rpc" /\ stopper' = [stopper EXCEPT !.pc = "finish"]
        /\ running' = running
        /\ \/ pc[stopper.call] \in Finished /\ timeouts' = timeouts
           \/ timeouts' = timeouts + 1
    BY <1>1 DEF StopAnswered, TimesOut
  <2>2. /\ stopper'.pc = "finish" /\ stopper'.crash = stopper.crash
        /\ stopper'.waiter = stopper.waiter
    BY <1>t, <2>1, StopperPc
  <2>3. timeouts \in Nat /\ timeouts' = 0 => pc[stopper.call] \in Finished
    BY <2>1
  <2> QED
    BY <1>u, <1>n, <2>1, <2>2, <2>3, Zenon
<1>2. CASE StopFinishes
  <2>1. stopper.pc = "finish" /\ stopper' = NoStopper /\ running' = NoId /\ timeouts' = timeouts
    BY <1>2 DEF StopFinishes
  <2>2. stopper'.pc = "none"
    BY <2>1, NoThreads
  <2> QED
    BY <1>u, <1>n, <2>1, <2>2, Zenon
<1> QED
  BY <1>1, <1>2

-----------------------------------------------------------------------------
\* One call's handler goes on.
Only(c) == \A d \in Calls \ {c} : pc'[d] = pc[d]

\* The core dies, and with it its boxes and its calls.
Died ==
  /\ ~alive'
  /\ BoxInstance' = Nil
  /\ \A b \in StartCalls : box'[b] # "live"
  /\ \A d \in Calls : pc'[d] = IF pc[d] \in Active THEN "lost" ELSE pc[d]

\* A Start call goes on in a core that lives.
StartMoves(c) ==
  /\ alive /\ alive' /\ Only(c)
  /\ \/ /\ pc[c] = "start" /\ pc'[c] = "startFail" /\ BoxInstance # Nil
        /\ UNCHANGED <<box, BoxInstance>>
     \/ /\ pc[c] = "start" /\ pc'[c] \in {"startExtra", "startCreate"}
        /\ UNCHANGED <<box, BoxInstance>>
     \/ /\ pc[c] = "startExtra" /\ pc'[c] \in {"startCreate", "startFail"}
        /\ UNCHANGED <<box, BoxInstance>>
     \/ /\ pc[c] = "startCreate" /\ pc'[c] = "startDone"
        /\ BoxInstance' = c
        /\ \A b \in StartCalls : box'[b] = IF b = c THEN "live" ELSE box[b]
     \/ /\ pc[c] = "startCreate" /\ pc'[c] = "startFail"
        /\ BoxInstance' = Nil /\ UNCHANGED box
     \/ /\ pc[c] = "startDone" /\ pc'[c] = "ok"
        /\ UNCHANGED <<box, BoxInstance>>
     \/ /\ pc[c] = "startFail" /\ pc'[c] = "err"
        /\ BoxInstance' = Nil /\ UNCHANGED box

\* A Stop call goes on in a core that lives.
StopMoves(c) ==
  /\ alive /\ alive' /\ Only(c)
  /\ \/ /\ pc[c] = "stop" /\ pc'[c] = "ok" /\ BoxInstance = Nil
        /\ UNCHANGED <<box, BoxInstance>>
     \/ /\ pc[c] = "stop" /\ pc'[c] = "stopClose"
        /\ UNCHANGED <<box, BoxInstance>>
     \/ /\ pc[c] = "stopClose" /\ pc'[c] = "stopWait"
        /\ BoxInstance' = BoxInstance /\ BoxInstance # Nil /\ box'[BoxInstance] # "live"
        /\ \A b \in StartCalls : box'[b] = "live" => box[b] = "live"
     \/ /\ pc[c] = "stopWait" /\ pc'[c] = "stopExtra"
        /\ BoxInstance' = Nil /\ UNCHANGED box
     \/ /\ pc[c] = "stopExtra" /\ pc'[c] = "ok"
        /\ UNCHANGED <<box, BoxInstance>>

USE CallsAssumption DEF Calls, BoxStates

\* The core dies: its instance and boxes are gone and its handlers lost.
LEMMA DieMoves ==
  ASSUME Served, Die, timeouts' \in Nat
  PROVE  Died /\ Served'
<1>1. /\ ~alive'
      /\ BoxInstance' = Nil
      /\ box' = [b \in StartCalls |-> IF box[b] = "none" THEN "none" ELSE "closed"]
      /\ pc' = [d \in Calls |-> IF pc[d] \in Active THEN "lost" ELSE pc[d]]
  BY Zenon DEF Die
<1>2. Died
  BY <1>1 DEF Died
<1>3. pc' \in [Calls -> {"idle"} \cup Active \cup Finished]
  BY <1>1 DEF Served, Finished
<1>4. box' \in [StartCalls -> BoxStates]
  BY <1>1
<1> QED
  BY <1>1, <1>2, <1>3, <1>4 DEF Served

\* A handler that goes from one place to another.
LEMMA Gotos ==
  ASSUME Served, NEW c \in Calls, NEW l \in {"idle"} \cup Active \cup Finished, Goto(c, l)
  PROVE  /\ pc' \in [Calls -> {"idle"} \cup Active \cup Finished]
         /\ pc'[c] = l /\ Only(c)
  BY DEF Served, Goto, Only

\* The places of the handlers, listed.
LEMMA Places ==
  /\ Active = {"start", "startExtra", "startCreate", "startDone", "startFail", "stop",
               "stopClose", "stopWait", "stopExtra", "enable", "disable"}
  /\ Finished = {"ok", "err", "lost"}
  BY DEF Active, Finished, StartPcs, StopPcs, ProxyPcs

\* A step of the Start handler moves as StartMoves says, or the core dies.
LEMMA StartServed ==
  ASSUME Served, NEW c \in StartCalls, StartStep(c), timeouts' = timeouts
  PROVE  Served' /\ (Died \/ StartMoves(c))
<1>g. \A l \in {"startExtra", "startCreate", "startDone", "startFail", "ok", "err"} :
        Goto(c, l) => /\ pc' \in [Calls -> {"idle"} \cup Active \cup Finished]
                      /\ pc'[c] = l /\ Only(c)
  BY Gotos, Places
<1>1. CASE StartCheck(c)
  <2>1. /\ alive /\ alive' /\ pc[c] = "start" /\ UNCHANGED <<box, BoxInstance>>
        /\ \/ BoxInstance # Nil /\ Goto(c, "startFail")
           \/ Goto(c, "startExtra")
           \/ Goto(c, "startCreate")
    BY <1>1, Zenon DEF StartCheck, At, instanceVars
  <2>2. Served'
    BY <1>g, <2>1 DEF Served
  <2>3. CASE BoxInstance # Nil /\ Goto(c, "startFail")
    BY <1>g, <2>1, <2>2, <2>3 DEF StartMoves
  <2>4. CASE Goto(c, "startExtra")
    <3>1. pc'[c] \in {"startExtra", "startCreate"} /\ Only(c)
      BY <1>g, <2>4
    <3> QED
      BY <2>1, <2>2, <3>1, Zenon DEF StartMoves
  <2>5. CASE Goto(c, "startCreate")
    <3>1. pc'[c] \in {"startExtra", "startCreate"} /\ Only(c)
      BY <1>g, <2>5
    <3> QED
      BY <2>1, <2>2, <3>1, Zenon DEF StartMoves
  <2> QED
    BY <2>1, <2>3, <2>4, <2>5
<1>2. CASE StartExtraReject(c) \/ StartExtra(c)
  <2>1. /\ alive /\ alive' /\ pc[c] = "startExtra" /\ UNCHANGED <<box, BoxInstance>>
        /\ Goto(c, "startFail") \/ Goto(c, "startCreate")
    <3>1. CASE StartExtraReject(c)
      BY <3>1, Zenon DEF StartExtraReject, At, instanceVars
    <3>2. CASE StartExtra(c)
      BY <3>2, Zenon DEF StartExtra, At, instanceVars
    <3> QED
      BY <1>2, <3>1, <3>2
  <2>2. Served'
    BY <1>g, <2>1 DEF Served
  <2>3. pc'[c] \in {"startCreate", "startFail"} /\ Only(c)
    BY <1>g, <2>1
  <2> QED
    BY <2>1, <2>2, <2>3, Zenon DEF StartMoves
<1>3. CASE Create(c)
  <2>1. /\ alive /\ alive' /\ pc[c] = "startCreate"
        /\ \/ BoxInstance' = c /\ box' = [box EXCEPT ![c] = "live"] /\ Goto(c, "startDone")
           \/ BoxInstance' = Nil /\ UNCHANGED box /\ Goto(c, "startFail")
    BY <1>3, Zenon DEF Create, At
  <2>2. CASE BoxInstance' = c /\ box' = [box EXCEPT ![c] = "live"] /\ Goto(c, "startDone")
    <3>1. /\ \A b \in StartCalls : box'[b] = IF b = c THEN "live" ELSE box[b]
          /\ box' \in [StartCalls -> BoxStates]
      BY <2>2 DEF Served
    <3>2. Served'
      BY <1>g, <2>2, <3>1 DEF Served
    <3>3. pc'[c] = "startDone" /\ Only(c)
      BY <1>g, <2>2
    <3> QED
      BY <2>1, <2>2, <3>1, <3>2, <3>3, Zenon DEF StartMoves
  <2>3. CASE BoxInstance' = Nil /\ UNCHANGED box /\ Goto(c, "startFail")
    <3>2. Served'
      BY <1>g, <2>3 DEF Served
    <3>3. pc'[c] = "startFail" /\ Only(c)
      BY <1>g, <2>3
    <3> QED
      BY <2>1, <2>3, <3>2, <3>3, Zenon DEF StartMoves
  <2> QED
    BY <2>1, <2>2, <2>3
<1>4. CASE StartReturn(c)
  <2>1. \/ Die
        \/ /\ alive /\ alive' /\ pc[c] = "startDone" /\ UNCHANGED <<box, BoxInstance>>
           /\ Goto(c, "ok")
    BY <1>4, Zenon DEF StartReturn, At, instanceVars
  <2>2. CASE Die
    BY <2>2, DieMoves DEF Served
  <2>3. CASE /\ alive /\ alive' /\ pc[c] = "startDone" /\ UNCHANGED <<box, BoxInstance>>
             /\ Goto(c, "ok")
    <3>2. Served'
      BY <1>g, <2>3 DEF Served
    <3>3. pc'[c] = "ok" /\ Only(c)
      BY <1>g, <2>3
    <3> QED
      BY <2>3, <3>2, <3>3, Zenon DEF StartMoves
  <2> QED
    BY <2>1, <2>2, <2>3
<1>5. CASE StartFail(c)
  <2>1. /\ alive /\ alive' /\ pc[c] = "startFail" /\ BoxInstance' = Nil /\ UNCHANGED box
        /\ Goto(c, "err")
    BY <1>5, Zenon DEF StartFail, At
  <2>2. Served'
    BY <1>g, <2>1 DEF Served
  <2>3. pc'[c] = "err" /\ Only(c)
    BY <1>g, <2>1
  <2> QED
    BY <2>1, <2>2, <2>3, Zenon DEF StartMoves
<1> QED
  BY <1>1, <1>2, <1>3, <1>4, <1>5 DEF StartStep

\* A step of the Stop handler moves as StopMoves says, or the core dies.
LEMMA StopServed ==
  ASSUME Served, NEW c \in StopCalls, StopStep(c), timeouts' = timeouts
  PROVE  Served' /\ (Died \/ StopMoves(c))
<1>g. \A l \in {"stopClose", "stopWait", "stopExtra", "ok"} :
        Goto(c, l) => /\ pc' \in [Calls -> {"idle"} \cup Active \cup Finished]
                      /\ pc'[c] = l /\ Only(c)
  BY Gotos, Places
<1>1. CASE StopCheck(c)
  <2>1. /\ alive /\ alive' /\ pc[c] = "stop" /\ UNCHANGED <<box, BoxInstance>>
        /\ (BoxInstance = Nil /\ Goto(c, "ok")) \/ Goto(c, "stopClose")
    BY <1>1, Zenon DEF StopCheck, At, instanceVars
  <2>2. Served'
    BY <1>g, <2>1 DEF Served
  <2>3. Only(c) /\ ((BoxInstance = Nil /\ pc'[c] = "ok") \/ pc'[c] = "stopClose")
    BY <1>g, <2>1
  <2> QED
    BY <2>1, <2>2, <2>3, Zenon DEF StopMoves
<1>2. CASE StopClose(c)
  <2>1. \/ Die
        \/ /\ alive /\ alive' /\ pc[c] = "stopClose" /\ BoxInstance # Nil
           /\ box' = [box EXCEPT ![BoxInstance] = IF @ = "live" THEN "closing" ELSE @]
           /\ BoxInstance' = BoxInstance
           /\ Goto(c, "stopWait")
    BY <1>2, Zenon DEF StopClose, At
  <2>2. CASE Die
    BY <2>2, DieMoves DEF Served
  <2>3. CASE /\ alive /\ alive' /\ pc[c] = "stopClose" /\ BoxInstance # Nil
             /\ box' = [box EXCEPT ![BoxInstance] = IF @ = "live" THEN "closing" ELSE @]
             /\ BoxInstance' = BoxInstance
             /\ Goto(c, "stopWait")
    <3>1. /\ box'[BoxInstance] # "live"
          /\ \A b \in StartCalls : box'[b] = "live" => box[b] = "live"
          /\ box' \in [StartCalls -> BoxStates]
      BY <2>3 DEF Served
    <3>2. Served'
      BY <1>g, <2>3, <3>1 DEF Served
    <3>3. pc'[c] = "stopWait" /\ Only(c)
      BY <1>g, <2>3
    <3> QED
      BY <2>3, <3>1, <3>2, <3>3, Zenon DEF StopMoves
  <2> QED
    BY <2>1, <2>2, <2>3
<1>3. CASE StopWaited(c)
  <2>1. /\ alive /\ alive' /\ pc[c] = "stopWait" /\ BoxInstance' = Nil /\ UNCHANGED box
        /\ Goto(c, "stopExtra")
    BY <1>3, Zenon DEF StopWaited, At
  <2>2. Served'
    BY <1>g, <2>1 DEF Served
  <2>3. pc'[c] = "stopExtra" /\ Only(c)
    BY <1>g, <2>1
  <2> QED
    BY <2>1, <2>2, <2>3, Zenon DEF StopMoves
<1>4. CASE StopExtra(c)
  <2>1. \/ Die
        \/ /\ alive /\ alive' /\ pc[c] = "stopExtra" /\ UNCHANGED <<box, BoxInstance>>
           /\ Goto(c, "ok")
    BY <1>4, Zenon DEF StopExtra, At, instanceVars
  <2>2. CASE Die
    BY <2>2, DieMoves DEF Served
  <2>3. CASE /\ alive /\ alive' /\ pc[c] = "stopExtra" /\ UNCHANGED <<box, BoxInstance>>
             /\ Goto(c, "ok")
    <3>2. Served'
      BY <1>g, <2>3 DEF Served
    <3>3. pc'[c] = "ok" /\ Only(c)
      BY <1>g, <2>3
    <3> QED
      BY <2>3, <3>2, <3>3, Zenon DEF StopMoves
  <2> QED
    BY <2>1, <2>2, <2>3
<1> QED
  BY <1>1, <1>2, <1>3, <1>4 DEF StopStep

\* A thread calls the core.
Called(c, l) ==
  /\ alive /\ alive' /\ core_running /\ portOK
  /\ pc[c] = "idle" /\ pc'[c] = l /\ Only(c)

\* A call that reaches the core puts its handler at the start.
LEMMA InvokeMoves ==
  ASSUME Served, NEW c \in StartCalls \cup StopCalls, Reachable, Invoke(c)
  PROVE  /\ pc' \in [Calls -> {"idle"} \cup Active \cup Finished]
         /\ Called(c, IF c \in StartCalls THEN "start" ELSE "stop")
         /\ UNCHANGED <<box, BoxInstance>>
<1>1. /\ alive /\ alive' /\ pc[c] = "idle" /\ Goto(c, Entry(c))
      /\ UNCHANGED <<box, BoxInstance>>
  BY Zenon DEF Invoke, At, instanceVars
<1>2. Entry(c) = (IF c \in StartCalls THEN "start" ELSE "stop")
  BY DEF Entry
<1>3. (IF c \in StartCalls THEN "start" ELSE "stop") \in {"idle"} \cup Active \cup Finished
  BY Places
<1>4. /\ pc' \in [Calls -> {"idle"} \cup Active \cup Finished]
      /\ pc'[c] = (IF c \in StartCalls THEN "start" ELSE "stop") /\ Only(c)
  <2> DEFINE l == IF c \in StartCalls THEN "start" ELSE "stop"
  <2>1. Goto(c, l) /\ l \in {"idle"} \cup Active \cup Finished
    BY <1>1, <1>2, <1>3
  <2> HIDE DEF l
  <2>2. pc' \in [Calls -> {"idle"} \cup Active \cup Finished] /\ pc'[c] = l /\ Only(c)
    BY <2>1, Gotos
  <2> QED
    BY <2>2 DEF l
<1> QED
  BY <1>1, <1>4, Zenon DEF Called, Reachable

\* The start thread calls Start; no stop and no recovery is under way, or
\* raced remembers it.
LEMMA MoveStartSent ==
  ASSUME LockInv, Served, NEW c \in StartCalls, StartSent(c)
  PROVE  /\ Served'
         /\ UNCHANGED <<box, BoxInstance, procVars, thread, stopper, running, uiWait, checked,
                        coreQueue, timeouts>>
         /\ mu_stopping' <=> mu_stopping
         /\ Called(c, "start")
         /\ starter.pc = "ready" /\ starter'.pc = "rpc" /\ starter'.call = c
         /\ raced \subseteq raced'
         /\ raced' \subseteq {"coreDied"} => ~StopUnderWay /\ ~RecoveryPending
<1>1. /\ Reachable /\ Invoke(c)
      /\ UNCHANGED <<procVars, thread, stopper, running, uiWait, checked, coreQueue, timeouts,
                     mu_stopping>>
      /\ starter.pc = "ready" /\ starter' = [starter EXCEPT !.pc = "rpc", !.call = c]
      /\ raced' = raced \cup {r \in {"startDuringStop"} : StopUnderWay}
                        \cup {r \in {"startBeforeRecovery"} : RecoveryPending}
  BY Zenon DEF StartSent, StarterAt, supVars
<1>2. /\ pc' \in [Calls -> {"idle"} \cup Active \cup Finished]
      /\ Called(c, "start")
      /\ UNCHANGED <<box, BoxInstance>>
  BY <1>1, InvokeMoves
<1>3. starter'.pc = "rpc" /\ starter'.call = c
  BY <1>1, StarterCalls DEF LockInv, Typed
<1>4. Served'
  BY <1>1, <1>2 DEF Served
<1>5. /\ raced \subseteq raced'
      /\ raced' \subseteq {"coreDied"} => ~StopUnderWay /\ ~RecoveryPending
  BY <1>1
<1> QED
  BY <1>1, <1>2, <1>3, <1>4, <1>5, Zenon

\* The start thread calls Stop for a failed filter, or finds no core.
LEMMA MoveFilterFails ==
  ASSUME LockInv, Served, FilterFails
  PROVE  /\ Served'
         /\ UNCHANGED <<box, BoxInstance, procVars, thread, stopper, running, uiWait, checked,
                        coreQueue, timeouts, raced>>
         /\ mu_stopping' <=> mu_stopping
         /\ starter.pc = "filter"
         /\ \/ \E c \in StopCalls :
                 Called(c, "stop") /\ starter'.pc = "filterRpc" /\ starter'.call = c
            \/ /\ ~Reachable /\ starter'.pc = "filterOff"
               /\ pc' = pc /\ (alive' <=> alive)
<1>1. /\ UNCHANGED <<procVars, thread, stopper, running, uiWait, checked, coreQueue, timeouts,
                     mu_stopping, raced>>
      /\ starter.pc = "filter"
      /\ \/ /\ Reachable
            /\ \E c \in StopCalls :
                 Invoke(c) /\ starter' = [starter EXCEPT !.pc = "filterRpc", !.call = c]
         \/ /\ ~Reachable /\ starter' = [starter EXCEPT !.pc = "filterOff"]
            /\ UNCHANGED serverVars
  BY Zenon DEF FilterFails, StarterAt, StarterGoes, supVars
<1>s. starter \in Starters
  BY DEF LockInv, Typed
<1>2. CASE /\ Reachable
           /\ \E c \in StopCalls :
                Invoke(c) /\ starter' = [starter EXCEPT !.pc = "filterRpc", !.call = c]
  <2>1. PICK c \in StopCalls :
          Invoke(c) /\ starter' = [starter EXCEPT !.pc = "filterRpc", !.call = c]
    BY <1>2
  <2>2. /\ pc' \in [Calls -> {"idle"} \cup Active \cup Finished]
        /\ Called(c, "stop")
        /\ UNCHANGED <<box, BoxInstance>>
    <3>1. c \notin StartCalls
      OBVIOUS
    <3> QED
      BY <1>2, <2>1, <3>1, InvokeMoves
  <2>3. starter'.pc = "filterRpc" /\ starter'.call = c
    BY <1>s, <2>1, StarterCalls
  <2>4. Served'
    BY <1>1, <2>2 DEF Served
  <2> QED
    BY <1>1, <2>2, <2>3, <2>4, Zenon
<1>3. CASE /\ ~Reachable /\ starter' = [starter EXCEPT !.pc = "filterOff"]
           /\ UNCHANGED serverVars
  <2>1. starter'.pc = "filterOff"
    BY <1>s, <1>3, StarterPc
  <2>2. UNCHANGED <<pc, box, BoxInstance, alive>>
    BY <1>3, Zenon DEF serverVars
  <2>3. Served'
    BY <1>1, <2>2 DEF Served
  <2> QED
    BY <1>1, <1>3, <2>1, <2>2, <2>3, Zenon
<1> QED
  BY <1>1, <1>2, <1>3, Zenon

\* The stop thread calls Stop, unless it is of a crash or finds no core.
LEMMA MoveStopSent ==
  ASSUME LockInv, Served, StopSent
  PROVE  /\ Served'
         /\ UNCHANGED <<box, BoxInstance, procVars, thread, starter, running, uiWait, checked,
                        coreQueue, timeouts, raced>>
         /\ mu_stopping' <=> mu_stopping
         /\ stopper.pc = "begin"
         /\ stopper'.crash = stopper.crash /\ stopper'.waiter = stopper.waiter
         /\ \/ \E c \in StopCalls :
                 Called(c, "stop") /\ stopper'.pc = "rpc" /\ stopper'.call = c
            \/ /\ stopper.crash \/ ~Reachable
               /\ stopper'.pc = "finish"
               /\ pc' = pc /\ (alive' <=> alive)
<1>1. /\ UNCHANGED <<procVars, thread, starter, running, uiWait, checked, coreQueue, timeouts,
                     mu_stopping, raced>>
      /\ stopper.pc = "begin"
      /\ \/ /\ Reachable
            /\ \E c \in StopCalls :
                 Invoke(c) /\ stopper' = [stopper EXCEPT !.pc = "rpc", !.call = c]
         \/ /\ stopper.crash \/ ~Reachable
            /\ stopper' = [stopper EXCEPT !.pc = "finish"]
            /\ UNCHANGED serverVars
  BY Zenon DEF StopSent, supVars
<1>s. stopper \in Stoppers
  BY DEF LockInv, Typed
<1>2. CASE /\ Reachable
           /\ \E c \in StopCalls :
                Invoke(c) /\ stopper' = [stopper EXCEPT !.pc = "rpc", !.call = c]
  <2>1. PICK c \in StopCalls :
          Invoke(c) /\ stopper' = [stopper EXCEPT !.pc = "rpc", !.call = c]
    BY <1>2
  <2>2. /\ pc' \in [Calls -> {"idle"} \cup Active \cup Finished]
        /\ Called(c, "stop")
        /\ UNCHANGED <<box, BoxInstance>>
    <3>1. c \notin StartCalls
      OBVIOUS
    <3> QED
      BY <1>2, <2>1, <3>1, InvokeMoves
  <2>3. /\ stopper'.pc = "rpc" /\ stopper'.call = c
        /\ stopper'.crash = stopper.crash /\ stopper'.waiter = stopper.waiter
    BY <1>s, <2>1, StopperCalls
  <2>4. Served'
    BY <1>1, <2>2 DEF Served
  <2> QED
    BY <1>1, <2>2, <2>3, <2>4, Zenon
<1>3. CASE /\ stopper.crash \/ ~Reachable
           /\ stopper' = [stopper EXCEPT !.pc = "finish"]
           /\ UNCHANGED serverVars
  <2>1. /\ stopper'.pc = "finish"
        /\ stopper'.crash = stopper.crash /\ stopper'.waiter = stopper.waiter
    BY <1>s, <1>3, StopperPc
  <2>2. UNCHANGED <<pc, box, BoxInstance, alive>>
    BY <1>3, Zenon DEF serverVars
  <2>3. Served'
    BY <1>1, <2>2 DEF Served
  <2> QED
    BY <1>1, <1>3, <2>1, <2>2, <2>3, Zenon
<1> QED
  BY <1>1, <1>2, <1>3, Zenon

\* The threads, as the steps of the core and of its supervisor leave them.
ThreadsSame ==
  /\ UNCHANGED <<starter, stopper, running, uiWait, timeouts>>
  /\ mu_stopping' <=> mu_stopping

\* A handler's step leaves the threads of the GUI alone.
LEMMA MoveServe ==
  ASSUME Served, NEW c \in Calls, ServeCall(c)
  PROVE  /\ Served' /\ ThreadsSame
         /\ UNCHANGED <<procVars, thread, checked, coreQueue>>
         /\ raced \subseteq raced'
         /\ \/ Died /\ (alive => "coreDied" \in raced')
            \/ c \in StartCalls /\ StartMoves(c)
            \/ c \in StopCalls /\ StopMoves(c)
<1>1. /\ UNCHANGED <<procVars, thread, checked, coreQueue, starter, stopper, running, uiWait,
                     timeouts, mu_stopping>>
      /\ raced' = raced \cup {r \in {"coreDied"} : alive # alive'}
      /\ \/ c \in StartCalls /\ StartStep(c)
         \/ c \in StopCalls /\ StopStep(c)
  BY Zenon DEF ServeCall, supVars, threadVars
<1>2. ThreadsSame /\ raced \subseteq raced'
  <2>1. raced \subseteq raced'
    BY <1>1
  <2> QED
    BY <1>1, <2>1, Zenon DEF ThreadsSame
<1>3. Died => (alive => "coreDied" \in raced')
  <2> SUFFICES ASSUME Died, alive PROVE "coreDied" \in raced'
    OBVIOUS
  <2>1. alive # alive'
    BY Zenon DEF Died
  <2> QED
    BY <1>1, <2>1
<1>4. CASE c \in StartCalls /\ StartStep(c)
  <2>1. timeouts' = timeouts
    BY <1>1
  <2>2. Served' /\ (Died \/ StartMoves(c))
    BY <1>4, <2>1, StartServed
  <2> QED
    BY <1>1, <1>2, <1>3, <1>4, <2>2, Zenon
<1>5. CASE c \in StopCalls /\ StopStep(c)
  <2>1. timeouts' = timeouts
    BY <1>1
  <2>2. Served' /\ (Died \/ StopMoves(c))
    BY <1>5, <2>1, StopServed
  <2> QED
    BY <1>1, <1>2, <1>3, <1>5, <2>2, Zenon
<1> QED
  BY <1>1, <1>4, <1>5

\* So does the death of the core.
LEMMA MoveCoreDies ==
  ASSUME Served, CoreDies
  PROVE  /\ Served' /\ ThreadsSame
         /\ UNCHANGED <<procVars, thread, checked, coreQueue>>
         /\ raced \subseteq raced' /\ "coreDied" \in raced'
         /\ Died
<1>1. /\ UNCHANGED <<procVars, thread, checked, coreQueue, starter, stopper, running, uiWait,
                     timeouts, mu_stopping>>
      /\ raced' = raced \cup {"coreDied"}
      /\ Die
  BY Zenon DEF CoreDies, supVars, threadVars
<1>2. timeouts' \in Nat
  BY <1>1 DEF Served
<1>3. Served' /\ Died
  BY <1>1, <1>2, DieMoves
<1>4. raced \subseteq raced' /\ "coreDied" \in raced'
  BY <1>1
<1> QED
  BY <1>1, <1>3, <1>4, Zenon DEF ThreadsSame

\* What runs on behind a handler brings no box to life.
LEMMA MoveBackground ==
  ASSUME Served, Background
  PROVE  /\ Served' /\ ThreadsSame
         /\ UNCHANGED <<procVars, thread, checked, coreQueue, raced, pc, BoxInstance>>
         /\ alive' <=> alive
         /\ \A b \in StartCalls : box'[b] = "live" <=> box[b] = "live"
<1>1. UNCHANGED <<procVars, thread, checked, coreQueue, starter, stopper, running, uiWait,
                  timeouts, mu_stopping, raced>>
  BY Zenon DEF Background, ownVars, guiVars, threadVars
<1>2. PICK c \in StartCalls : AfterFunc(c) \/ BoxClosed(c) \/ ExtraExits(c)
  BY Zenon DEF Background
<1>3. UNCHANGED <<pc, BoxInstance, alive>>
  BY <1>2, Zenon DEF AfterFunc, BoxClosed, ExtraExits, instanceVars
<1>4. /\ box' \in [StartCalls -> BoxStates]
      /\ \A b \in StartCalls : box'[b] = "live" <=> box[b] = "live"
  <2>1. CASE AfterFunc(c) \/ ExtraExits(c)
    <3>1. box' = box
      BY <2>1, Zenon DEF AfterFunc, ExtraExits, instanceVars
    <3> QED
      BY <3>1 DEF Served
  <2>2. CASE BoxClosed(c)
    <3>1. box[c] = "closing" /\ box' = [box EXCEPT ![c] = "closed"]
      BY <2>2, Zenon DEF BoxClosed
    <3> QED
      BY <3>1 DEF Served
  <2> QED
    BY <1>2, <2>1, <2>2
<1>5. Served'
  BY <1>1, <1>3, <1>4 DEF Served
<1> QED
  BY <1>1, <1>3, <1>4, <1>5, Zenon DEF ThreadsSame

\* The supervisor's steps.
LEMMA MoveSupervisor ==
  ASSUME LockInv, Served, Process,
         Supervise \/ CoreComesUp \/ ExitNoticed \/ CleanedUp \/ KillGivesUp \/ RunLambda
  PROVE  /\ Served' /\ ThreadsSame /\ Process'
         /\ UNCHANGED <<pc, box, BoxInstance, raced>>
         /\ doomed => doomed' \/ ~alive
         /\ Pending => Pending' \/ doomed' \/ ~alive
         /\ "core" \in checked' => "core" \in checked \/ thread' = "cleanup"
         /\ thread = "cleanup" /\ thread' # "cleanup" => ~Waited("core") /\ "core" \notin checked'
<1>p. /\ alive => proc = "Running"
      /\ proc = "Running" => core_running
      /\ ~portOK => doomed
      /\ thread = "restart" => doomed
      /\ thread = "cleanup" => proc = "NotRunning"
      /\ ~alive => BoxInstance = Nil
      /\ ~alive => \A b \in StartCalls : box[b] # "live"
      /\ ~alive => \A c \in Calls : pc[c] \notin Active
  BY DEF Process
<1>q. coreQueue \in Seq(Lambdas)
  BY DEF LockInv, Typed
\* What is left to show of a step that does not touch the core or the threads.
<1>k. ASSUME /\ UNCHANGED <<pc, box, BoxInstance, timeouts>>
             /\ alive' => alive \/ proc = "Running"
             /\ ~alive' => ~alive
             /\ alive' => proc' = "Running"
             /\ proc' = "Running" => core_running'
             /\ ~portOK' => doomed'
             /\ thread' = "restart" => doomed'
             /\ thread' = "cleanup" => proc' = "NotRunning"
      PROVE  Served' /\ Process'
  <2>1. Served'
    BY <1>k DEF Served
  <2>2. Process'
    BY <1>k, <1>p DEF Process
  <2> QED
    BY <2>1, <2>2
<1>1. CASE BecomesRunning /\ UNCHANGED <<serverVars, guiVars>>
  <2>1. /\ UNCHANGED <<serverVars, guiVars, doomed, portOK, thread>>
        /\ proc = "Starting" /\ thread # "cleanup" /\ proc' = "Running" /\ core_running'
    BY <1>1, Zenon DEF BecomesRunning
  <2>2. UNCHANGED <<pc, box, BoxInstance, alive, timeouts, raced, checked, coreQueue>>
    BY <2>1, Zenon DEF serverVars, guiVars, threadVars
  <2>3. Served' /\ Process'
    BY <1>k, <1>p, <2>1, <2>2
  <2>4. ThreadsSame
    BY <2>1, Zenon DEF ThreadsSame, guiVars, threadVars
  <2>5. Pending => Pending'
    BY <2>2 DEF Pending
  <2> QED
    BY <2>1, <2>2, <2>3, <2>4, <2>5
<1>2. CASE FailsToStart /\ UNCHANGED <<serverVars, guiVars>>
  <2>1. /\ UNCHANGED <<serverVars, guiVars, doomed, portOK, thread>>
        /\ proc = "Starting" /\ thread # "cleanup" /\ proc' = "NotRunning"
    BY <1>2, Zenon DEF FailsToStart
  <2>2. UNCHANGED <<pc, box, BoxInstance, alive, timeouts, raced, checked, coreQueue>>
    BY <2>1, Zenon DEF serverVars, guiVars, threadVars
  <2>3. Served' /\ Process'
    BY <1>k, <1>p, <2>1, <2>2
  <2>4. ThreadsSame
    BY <2>1, Zenon DEF ThreadsSame, guiVars, threadVars
  <2>5. Pending => Pending'
    BY <2>2 DEF Pending
  <2> QED
    BY <2>1, <2>2, <2>3, <2>4, <2>5
<1>3. CASE TenSeconds /\ UNCHANGED <<serverVars, guiVars>>
  <2>1. UNCHANGED <<serverVars, guiVars, proc, core_running, doomed, portOK, thread>>
    BY <1>3, Zenon DEF TenSeconds, procVars
  <2>2. UNCHANGED <<pc, box, BoxInstance, alive, timeouts, raced, checked, coreQueue>>
    BY <2>1, Zenon DEF serverVars, guiVars, threadVars
  <2>3. Served' /\ Process'
    BY <1>k, <1>p, <2>1, <2>2
  <2>4. ThreadsSame
    BY <2>1, Zenon DEF ThreadsSame, guiVars, threadVars
  <2>5. Pending => Pending'
    BY <2>2 DEF Pending
  <2> QED
    BY <2>1, <2>2, <2>3, <2>4, <2>5
\* Restart and StartProcess.
<1>r. ASSUME Restart, thread = "idle"
      PROVE  /\ alive => doomed'
             /\ alive => proc' = "Running"
             /\ proc' = "Running" => core_running'
             /\ ~portOK' => doomed'
             /\ thread' = "restart" => doomed'
             /\ thread' # "cleanup"
             /\ doomed => doomed' \/ ~alive
  <2>1. CASE proc = "NotRunning" /\ StartProcess /\ thread' = thread
    <3>1. proc' = "Starting" /\ portOK' /\ thread' = "idle"
      BY <1>r, <2>1, Zenon DEF StartProcess
    <3> QED
      BY <1>p, <2>1, <3>1
  <2>2. CASE /\ doomed' = TRUE /\ thread' = "restart"
             /\ UNCHANGED <<proc, core_running>>
    BY <1>p, <2>2
  <2> QED
    BY <1>r, <2>1, <2>2, Zenon DEF Restart
<1>4. CASE RestartFires /\ UNCHANGED <<serverVars, guiVars>>
  <2>1. UNCHANGED <<serverVars, guiVars>> /\ Restart /\ thread = "idle"
    BY <1>4, Zenon DEF RestartFires
  <2>2. UNCHANGED <<pc, box, BoxInstance, alive, timeouts, raced, checked, coreQueue>>
    BY <2>1, Zenon DEF serverVars, guiVars, threadVars
  <2>6. /\ alive => proc' = "Running"
        /\ proc' = "Running" => core_running'
        /\ ~portOK' => doomed'
        /\ thread' = "restart" => doomed'
        /\ thread' # "cleanup"
        /\ doomed => doomed' \/ ~alive
    BY <2>1, <1>r
  <2>3. Served' /\ Process'
    BY <1>k, <2>2, <2>6
  <2>4. ThreadsSame
    BY <2>1, Zenon DEF ThreadsSame, guiVars, threadVars
  <2>5. Pending => Pending'
    BY <2>2 DEF Pending
  <2> QED
    BY <2>1, <2>2, <2>3, <2>4, <2>5, <2>6
<1>5. CASE RestartWaited /\ UNCHANGED <<serverVars, guiVars>>
  <2>1. /\ UNCHANGED <<serverVars, guiVars, core_running>>
        /\ thread = "restart" /\ thread' = "idle"
        /\ \/ proc = "NotRunning" /\ proc' = "Starting" /\ portOK'
           \/ proc # "NotRunning" /\ UNCHANGED <<proc, doomed>>
    BY <1>5, Zenon DEF RestartWaited, StartProcess
  <2>2. UNCHANGED <<pc, box, BoxInstance, alive, timeouts, raced, checked, coreQueue>>
    BY <2>1, Zenon DEF serverVars, guiVars, threadVars
  <2>3. Served' /\ Process' /\ (doomed => doomed' \/ ~alive)
    <3>1. /\ alive => proc' = "Running"
          /\ proc' = "Running" => core_running'
          /\ ~portOK' => doomed'
          /\ thread' # "restart" /\ thread' # "cleanup"
          /\ doomed => doomed' \/ ~alive
      BY <1>p, <2>1
    <3> QED
      BY <1>k, <2>2, <3>1
  <2>4. ThreadsSame
    BY <2>1, Zenon DEF ThreadsSame, guiVars, threadVars
  <2>5. Pending => Pending'
    BY <2>2 DEF Pending
  <2> QED
    BY <2>1, <2>2, <2>3, <2>4, <2>5
<1>6. CASE CoreComesUp
  <2>1. /\ UNCHANGED <<guiVars, proc, core_running, doomed, portOK, thread, pc, box, BoxInstance>>
        /\ proc = "Running" /\ ~alive /\ alive'
    BY <1>6, Zenon DEF CoreComesUp, CoreListens, Relaunch, instanceVars
  <2>2. UNCHANGED <<timeouts, raced, checked, coreQueue>>
    BY <2>1, Zenon DEF guiVars, threadVars
  <2>3. Served' /\ Process'
    BY <1>k, <1>p, <2>1, <2>2
  <2>4. ThreadsSame
    BY <2>1, Zenon DEF ThreadsSame, guiVars, threadVars
  <2>5. Pending => Pending'
    BY <2>2 DEF Pending
  <2> QED
    BY <2>1, <2>2, <2>3, <2>4, <2>5
<1>7. CASE ExitNoticed
  <2>1. /\ UNCHANGED <<serverVars, doomed, portOK, timeouts, raced, coreQueue, starter, stopper,
                       running, uiWait, mu_stopping>>
        /\ ~alive /\ thread # "cleanup" /\ proc' = "NotRunning"
        /\ thread' = "restart" => thread = "restart"
        /\ checked' = checked \cup {w \in {"core"} : thread' = "cleanup" /\ running # NoId}
    BY <1>7 DEF ExitNoticed, CoreExits
  <2>2. UNCHANGED <<pc, box, BoxInstance, alive>>
    BY <2>1, Zenon DEF serverVars
  <2>3. Served' /\ Process'
    BY <1>k, <1>p, <2>1, <2>2
  <2>4. ThreadsSame
    BY <2>1, Zenon DEF ThreadsSame
  <2>5. Pending => Pending'
    BY <2>1 DEF Pending
  <2>6. "core" \in checked' => "core" \in checked \/ thread' = "cleanup"
    BY <2>1
  <2> QED
    BY <2>1, <2>2, <2>3, <2>4, <2>5, <2>6
<1>8. CASE CleanedUp
  <2>1. /\ UNCHANGED <<serverVars, guiVars, proc, core_running, doomed, portOK>>
        /\ ~Waited("core") /\ "core" \notin checked /\ thread' = "idle"
    BY <1>8, Zenon DEF CleanedUp, CleanupDone, procVars
  <2>2. UNCHANGED <<pc, box, BoxInstance, alive, timeouts, raced, checked, coreQueue>>
    BY <2>1, Zenon DEF serverVars, guiVars, threadVars
  <2>3. Served' /\ Process'
    BY <1>k, <1>p, <2>1, <2>2
  <2>4. ThreadsSame
    BY <2>1, Zenon DEF ThreadsSame, guiVars, threadVars
  <2>5. Pending => Pending'
    BY <2>2 DEF Pending
  <2> QED
    BY <2>1, <2>2, <2>3, <2>4, <2>5
<1>9. CASE KillGivesUp
  <2>1. /\ UNCHANGED <<serverVars, guiVars, proc, core_running, doomed, portOK>>
        /\ thread = "kill" /\ thread' = "idle"
    BY <1>9, Zenon DEF KillGivesUp, KillTimesOut, procVars
  <2>2. UNCHANGED <<pc, box, BoxInstance, alive, timeouts, raced, checked, coreQueue>>
    BY <2>1, Zenon DEF serverVars, guiVars, threadVars
  <2>3. Served' /\ Process'
    BY <1>k, <1>p, <2>1, <2>2
  <2>4. ThreadsSame
    BY <2>1, Zenon DEF ThreadsSame, guiVars, threadVars
  <2>5. Pending => Pending'
    BY <2>2 DEF Pending
  <2> QED
    BY <2>1, <2>2, <2>3, <2>4, <2>5
<1>10. CASE RunLambda
  <2>1. /\ coreQueue # <<>> /\ coreQueue' = Tail(coreQueue)
        /\ UNCHANGED <<serverVars, threadVars, uiWait, raced, timeouts>>
        /\ \/ Head(coreQueue).op = "request" /\ Request(Head(coreQueue).id)
           \/ Head(coreQueue).op = "recover" /\ Recover(Head(coreQueue).id)
           \/ Head(coreQueue).op = "kill" /\ Kill
    BY <1>10, Zenon DEF RunLambda
  <2>2. UNCHANGED <<pc, box, BoxInstance, alive, checked>>
    BY <2>1, Zenon DEF serverVars, threadVars
  <2>4. ThreadsSame
    BY <2>1, Zenon DEF ThreadsSame, threadVars
  <2>5. Head(coreQueue).op # "recover" => (Pending => Pending')
    <3>1. [op |-> "request", id |-> NoId] \in Lambdas
      BY DEF Lambdas
    <3> QED
      BY <1>q, <2>1, <3>1, PendingPosts
  <2>6. /\ alive' => proc' = "Running"
        /\ proc' = "Running" => core_running'
        /\ ~portOK' => doomed'
        /\ thread' = "restart" => doomed'
        /\ thread' # "cleanup"
        /\ doomed => doomed' \/ ~alive
        /\ Head(coreQueue).op = "recover" => doomed' \/ ~alive
    <3>1. CASE Head(coreQueue).op = "request" /\ Request(Head(coreQueue).id)
      <4>1. UNCHANGED <<proc, core_running, portOK, doomed, thread>> /\ thread = "idle"
        BY <3>1, Zenon DEF Request, procVars
      <4> QED
        BY <1>p, <2>2, <3>1, <4>1
    <3>2. CASE Head(coreQueue).op = "recover" /\ Recover(Head(coreQueue).id)
      <4>1. Restart /\ thread = "idle"
        BY <3>2, Zenon DEF Recover
      <4> QED
        BY <1>r, <2>2, <4>1
    <3>3. CASE Head(coreQueue).op = "kill" /\ Kill
      <4>1. /\ UNCHANGED <<proc, core_running, portOK>>
            /\ doomed => doomed'
            /\ thread = "idle" /\ thread' \in {"idle", "kill"}
        BY <3>3 DEF Kill
      <4> QED
        BY <1>p, <2>2, <3>3, <4>1
    <3> QED
      BY <2>1, <3>1, <3>2, <3>3
  <2>3. Served' /\ Process'
    BY <1>k, <2>1, <2>2, <2>6
  <2>7. Pending => Pending' \/ doomed' \/ ~alive
    BY <2>5, <2>6, Zenon
  <2>8. raced' = raced /\ checked' = checked
    BY <2>1, <2>2
  <2>9. thread = "idle"
    BY <2>1, Zenon DEF Request, Recover, Kill
  <2> QED
    BY <2>2, <2>3, <2>4, <2>6, <2>7, <2>8, <2>9
<1> QED
  BY <1>1, <1>2, <1>3, <1>4, <1>5, <1>6, <1>7, <1>8, <1>9, <1>10, Zenon DEF Supervise

\* A thread's step does not touch the core.
LEMMA CoreSame ==
  ASSUME Served, Process, UNCHANGED CoreVars, timeouts' \in Nat
  PROVE  /\ Served' /\ Process'
         /\ UNCHANGED <<pc, box, BoxInstance, thread>>
         /\ (alive' <=> alive) /\ (doomed' <=> doomed)
<1>1. UNCHANGED <<pc, box, BoxInstance, thread, alive, doomed, proc, core_running, portOK>>
  BY Zenon DEF CoreVars, serverVars, procVars
<1>2. Served'
  BY <1>1 DEF Served
<1>3. Process'
  BY <1>1 DEF Process
<1> QED
  BY <1>1, <1>2, <1>3, Zenon

\* Without timeouts and races now, there were none before.
LEMMA CleanBefore ==
  ASSUME raced \subseteq raced', timeouts' = 0 => timeouts = 0
  PROVE  /\ Clean' => Clean /\ timeouts' = 0 /\ raced' \subseteq {"coreDied"}
         /\ timeouts' = 0 /\ raced' = {} => timeouts = 0 /\ raced = {} /\ Clean'
  BY DEF Clean

\* A start by the user: its thread waits, and calls nothing yet.
LEMMA CoreUserStart ==
  ASSUME LockInv, LockInv', CoreInv, NEW id \in Profiles, UserStart(id)
  PROVE  CoreInv'
<1>i. /\ Served /\ Blocked /\ Process
      /\ Clean => InFlight
      /\ Clean /\ ~doomed => Instance
      /\ timeouts = 0 /\ raced = {} => Shown
  BY Zenon DEF CoreInv
<1>m. /\ UNCHANGED <<CoreVars, stopper, running, uiWait, checked, raced, timeouts>>
      /\ mu_stopping' <=> mu_stopping
      /\ Pending => Pending'
      /\ \/ starter' = starter
         \/ starter.pc = "none" /\ starter'.pc = "waitUi" /\ ~mu_stopping
  BY <1>i, MoveUserStart
<1>c. /\ Served' /\ Process'
      /\ UNCHANGED <<pc, box, BoxInstance, thread>>
      /\ (alive' <=> alive) /\ (doomed' <=> doomed)
  BY <1>i, <1>m, CoreSame DEF Served
<1>d. /\ Clean' => Clean /\ timeouts' = 0 /\ raced' \subseteq {"coreDied"}
      /\ timeouts' = 0 /\ raced' = {} => timeouts = 0 /\ raced = {} /\ Clean'
  BY <1>i, <1>m, CleanBefore DEF Served
<1>1. Blocked'
  BY <1>i, <1>m, <1>c DEF Blocked, Process, LockInv, Locks, Waited
<1>2. ASSUME Clean' PROVE InFlight'
  BY <1>i, <1>m, <1>c, <1>d, <1>2 DEF InFlight, StartCalled, FilterCalled, StopCalled
<1>3. ASSUME Clean', ~doomed' PROVE Instance'
  BY <1>i, <1>m, <1>c, <1>d, <1>3
     DEF Instance, StartCalled, FilterCalled, StopCalled, RecoveryPending,
         Pending
<1>4. ASSUME timeouts' = 0, raced' = {} PROVE Shown'
  BY <1>i, <1>m, <1>c, <1>d, <1>4 DEF InFlight, Shown, StartCalled, LockInv, Locks, StartPcs
<1> QED
  BY <1>c, <1>1, <1>2, <1>3, <1>4, Zenon DEF CoreInv

\* A start by a message of the supervisor: the same.
LEMMA CoreCoreStarted ==
  ASSUME LockInv, LockInv', CoreInv, CoreStarted
  PROVE  CoreInv'
<1>i. /\ Served /\ Blocked /\ Process
      /\ Clean => InFlight
      /\ Clean /\ ~doomed => Instance
      /\ timeouts = 0 /\ raced = {} => Shown
  BY Zenon DEF CoreInv
<1>m. /\ UNCHANGED <<CoreVars, stopper, running, uiWait, checked, raced, timeouts>>
      /\ mu_stopping' <=> mu_stopping
      /\ Pending => Pending'
      /\ \/ starter' = starter
         \/ starter.pc = "none" /\ starter'.pc = "waitUi" /\ ~mu_stopping
  BY <1>i, MoveCoreStarted
<1>c. /\ Served' /\ Process'
      /\ UNCHANGED <<pc, box, BoxInstance, thread>>
      /\ (alive' <=> alive) /\ (doomed' <=> doomed)
  BY <1>i, <1>m, CoreSame DEF Served
<1>d. /\ Clean' => Clean /\ timeouts' = 0 /\ raced' \subseteq {"coreDied"}
      /\ timeouts' = 0 /\ raced' = {} => timeouts = 0 /\ raced = {} /\ Clean'
  BY <1>i, <1>m, CleanBefore DEF Served
<1>1. Blocked'
  BY <1>i, <1>m, <1>c DEF Blocked, Process, LockInv, Locks, Waited
<1>2. ASSUME Clean' PROVE InFlight'
  BY <1>i, <1>m, <1>c, <1>d, <1>2 DEF InFlight, StartCalled, FilterCalled, StopCalled
<1>3. ASSUME Clean', ~doomed' PROVE Instance'
  BY <1>i, <1>m, <1>c, <1>d, <1>3
     DEF Instance, StartCalled, FilterCalled, StopCalled, RecoveryPending,
         Pending
<1>4. ASSUME timeouts' = 0, raced' = {} PROVE Shown'
  BY <1>i, <1>m, <1>c, <1>d, <1>4 DEF InFlight, Shown, StartCalled, LockInv, Locks, StartPcs
<1> QED
  BY <1>c, <1>1, <1>2, <1>3, <1>4, Zenon DEF CoreInv

\* A stop by the user: the instance is still shown until the stop finishes.
LEMMA CoreUserStop ==
  ASSUME LockInv, LockInv', CoreInv, UserStop
  PROVE  CoreInv'
<1>i. /\ Served /\ Blocked /\ Process
      /\ Clean => InFlight
      /\ Clean /\ ~doomed => Instance
      /\ timeouts = 0 /\ raced = {} => Shown
  BY Zenon DEF CoreInv
<1>m. /\ UNCHANGED <<CoreVars, starter, running, uiWait, checked, raced, timeouts, coreQueue>>
      /\ \/ stopper' = stopper /\ (mu_stopping' <=> mu_stopping)
         \/ /\ running # NoId /\ ~mu_stopping /\ mu_stopping'
            /\ stopper'.pc = "begin" /\ ~stopper'.crash
  BY <1>i, MoveUserStop
<1>c. /\ Served' /\ Process'
      /\ UNCHANGED <<pc, box, BoxInstance, thread>>
      /\ (alive' <=> alive) /\ (doomed' <=> doomed)
  BY <1>i, <1>m, CoreSame DEF Served
<1>d. /\ Clean' => Clean /\ timeouts' = 0 /\ raced' \subseteq {"coreDied"}
      /\ timeouts' = 0 /\ raced' = {} => timeouts = 0 /\ raced = {} /\ Clean'
  BY <1>i, <1>m, CleanBefore DEF Served
<1>1. Blocked'
  BY <1>i, <1>m, <1>c DEF Blocked, Process, LockInv, Locks, Waited
<1>2. ASSUME Clean' PROVE InFlight'
  BY <1>i, <1>m, <1>c, <1>d, <1>2
     DEF InFlight, StartCalled, FilterCalled, StopCalled, LockInv, Locks
<1>3. ASSUME Clean', ~doomed' PROVE Instance'
  BY <1>i, <1>m, <1>c, <1>d, <1>3
     DEF Instance, StartCalled, FilterCalled, StopCalled, RecoveryPending,
         Pending
<1>4. ASSUME timeouts' = 0, raced' = {} PROVE Shown'
  BY <1>i, <1>m, <1>c, <1>d, <1>4 DEF InFlight, Shown, StartCalled, LockInv, Locks, StartPcs
<1> QED
  BY <1>c, <1>1, <1>2, <1>3, <1>4, Zenon DEF CoreInv

\* The stop before a start: afterwards there is no running profile or a
\* stop thread is at work (mainwindow_rpc.cpp:880-891).
LEMMA CoreUiTask ==
  ASSUME LockInv, LockInv', CoreInv, UiTask
  PROVE  CoreInv'
<1>i. /\ Served /\ Blocked /\ Process
      /\ Clean => InFlight
      /\ Clean /\ ~doomed => Instance
      /\ timeouts = 0 /\ raced = {} => Shown
  BY Zenon DEF CoreInv
<1>m. /\ UNCHANGED <<CoreVars, starter, running, checked, raced, timeouts, coreQueue>>
      /\ uiWait = "no"
      /\ \/ uiWait' = "no" /\ stopper' = stopper /\ ~mu_stopping'
         \/ /\ uiWait' \in {"no", "start"}
            /\ uiWait' = "start" => starter.pc = "waitUi"
            /\ \/ /\ running = NoId \/ mu_stopping
                  /\ stopper' = stopper /\ (mu_stopping' <=> mu_stopping)
               \/ /\ running # NoId /\ ~mu_stopping /\ mu_stopping'
                  /\ stopper'.pc = "begin" /\ ~stopper'.crash
  BY <1>i, MoveUiTask
<1>c. /\ Served' /\ Process'
      /\ UNCHANGED <<pc, box, BoxInstance, thread>>
      /\ (alive' <=> alive) /\ (doomed' <=> doomed)
  BY <1>i, <1>m, CoreSame DEF Served
<1>d. /\ Clean' => Clean /\ timeouts' = 0 /\ raced' \subseteq {"coreDied"}
      /\ timeouts' = 0 /\ raced' = {} => timeouts = 0 /\ raced = {} /\ Clean'
  BY <1>i, <1>m, CleanBefore DEF Served
<1>1. Blocked'
  BY <1>i, <1>m, <1>c DEF Blocked, Process, LockInv, Locks, Waited
<1>2. ASSUME Clean' PROVE InFlight'
  BY <1>i, <1>m, <1>c, <1>d, <1>2
     DEF InFlight, StartCalled, FilterCalled, StopCalled, LockInv, Locks
<1>3. ASSUME Clean', ~doomed' PROVE Instance'
  BY <1>i, <1>m, <1>c, <1>d, <1>3
     DEF Instance, StartCalled, FilterCalled, StopCalled, RecoveryPending,
         Pending
<1>4. ASSUME timeouts' = 0, raced' = {} PROVE Shown'
  BY <1>i, <1>m, <1>c, <1>d, <1>4 DEF InFlight, Shown, StartCalled, LockInv, Locks, StartPcs
<1> QED
  BY <1>c, <1>1, <1>2, <1>3, <1>4, Zenon DEF CoreInv

\* The stop of a resume leaves the instance to the recovery that follows.
LEMMA CoreResumeTimer ==
  ASSUME LockInv, LockInv', CoreInv, ResumeTimer
  PROVE  CoreInv'
<1>i. /\ Served /\ Blocked /\ Process
      /\ Clean => InFlight
      /\ Clean /\ ~doomed => Instance
      /\ timeouts = 0 /\ raced = {} => Shown
  BY Zenon DEF CoreInv
<1>m. /\ UNCHANGED <<CoreVars, starter, running, checked, raced, timeouts, coreQueue>>
      /\ uiWait = "no"
      /\ \/ uiWait' \in {"no", "recover"} /\ stopper' = stopper
            /\ (mu_stopping' <=> mu_stopping)
         \/ /\ running # NoId /\ ~mu_stopping /\ mu_stopping' /\ uiWait' = "recover"
            /\ stopper'.pc = "begin" /\ stopper'.crash /\ stopper'.waiter = "ui"
  BY <1>i, MoveResumeTimer
<1>c. /\ Served' /\ Process'
      /\ UNCHANGED <<pc, box, BoxInstance, thread>>
      /\ (alive' <=> alive) /\ (doomed' <=> doomed)
  BY <1>i, <1>m, CoreSame DEF Served
<1>d. /\ Clean' => Clean /\ timeouts' = 0 /\ raced' \subseteq {"coreDied"}
      /\ timeouts' = 0 /\ raced' = {} => timeouts = 0 /\ raced = {} /\ Clean'
  BY <1>i, <1>m, CleanBefore DEF Served
<1>1. Blocked'
  BY <1>i, <1>m, <1>c DEF Blocked, Process, LockInv, Locks, Waited
<1>2. ASSUME Clean' PROVE InFlight'
  BY <1>i, <1>m, <1>c, <1>d, <1>2
     DEF InFlight, StartCalled, FilterCalled, StopCalled, LockInv, Locks
<1>3. ASSUME Clean', ~doomed' PROVE Instance'
  BY <1>i, <1>m, <1>c, <1>d, <1>3
     DEF Instance, StartCalled, FilterCalled, StopCalled, RecoveryPending,
         Pending
<1>4. ASSUME timeouts' = 0, raced' = {} PROVE Shown'
  BY <1>i, <1>m, <1>c, <1>d, <1>4 DEF InFlight, Shown, StartCalled, LockInv, Locks, StartPcs
<1> QED
  BY <1>c, <1>1, <1>2, <1>3, <1>4, Zenon DEF CoreInv

\* The stop of a crash or an exit.
LEMMA CoreStopLocks ==
  ASSUME LockInv, LockInv', CoreInv, NEW who \in {"core", "exit"}, StopLocks(who)
  PROVE  CoreInv'
<1>i. /\ Served /\ Blocked /\ Process
      /\ Clean => InFlight
      /\ Clean /\ ~doomed => Instance
      /\ timeouts = 0 /\ raced = {} => Shown
  BY Zenon DEF CoreInv
<1>m. /\ UNCHANGED <<CoreVars, starter, running, uiWait, timeouts, coreQueue>>
      /\ who \in checked /\ checked' = checked \ {who}
      /\ raced \subseteq raced'
      /\ mu_stopping'
      /\ \/ mu_stopping /\ stopper' = stopper
         \/ /\ ~mu_stopping /\ stopper'.pc = "begin" /\ stopper'.waiter = who
            /\ stopper'.crash <=> who = "core"
            /\ running = NoId => "staleCheck" \in raced'
  BY <1>i, MoveStopLocks
<1>c. /\ Served' /\ Process'
      /\ UNCHANGED <<pc, box, BoxInstance, thread>>
      /\ (alive' <=> alive) /\ (doomed' <=> doomed)
  BY <1>i, <1>m, CoreSame DEF Served
<1>d. /\ Clean' => Clean /\ timeouts' = 0 /\ raced' \subseteq {"coreDied"}
      /\ timeouts' = 0 /\ raced' = {} => timeouts = 0 /\ raced = {} /\ Clean'
  BY <1>i, <1>m, CleanBefore DEF Served
<1>1. Blocked'
  BY <1>i, <1>m, <1>c DEF Blocked, Process, LockInv, Locks, Waited
<1>2. ASSUME Clean' PROVE InFlight'
  BY <1>i, <1>m, <1>c, <1>d, <1>2
     DEF InFlight, StartCalled, FilterCalled, StopCalled, LockInv, Locks
<1>3. ASSUME Clean', ~doomed' PROVE Instance'
  BY <1>i, <1>m, <1>c, <1>d, <1>3
     DEF Instance, StartCalled, FilterCalled, StopCalled, RecoveryPending,
         Pending
<1>4. ASSUME timeouts' = 0, raced' = {} PROVE Shown'
  BY <1>i, <1>m, <1>c, <1>d, <1>4 DEF InFlight, Shown, StartCalled, LockInv, Locks, StartPcs
<1> QED
  BY <1>c, <1>1, <1>2, <1>3, <1>4, Zenon DEF CoreInv

\* A start is ready only when the stop before it is over, and the recovery
\* of a resume is pending from here on.
LEMMA CoreUiContinues ==
  ASSUME LockInv, LockInv', CoreInv, UiContinues
  PROVE  CoreInv'
<1>i. /\ Served /\ Blocked /\ Process
      /\ Clean => InFlight
      /\ Clean /\ ~doomed => Instance
      /\ timeouts = 0 /\ raced = {} => Shown
  BY Zenon DEF CoreInv
<1>m. /\ UNCHANGED <<CoreVars, stopper, running, checked, raced, timeouts>>
      /\ mu_stopping' <=> mu_stopping
      /\ ~Waited("ui") /\ uiWait \in {"start", "recover"} /\ uiWait' = "no"
      /\ uiWait = "start" => starter'.pc = "ready" /\ starter.pc = "waitUi"
      /\ uiWait # "start" => starter' = starter
      /\ Pending => Pending'
      /\ uiWait = "recover" => Pending'
  BY <1>i, MoveUiContinues
<1>c. /\ Served' /\ Process'
      /\ UNCHANGED <<pc, box, BoxInstance, thread>>
      /\ (alive' <=> alive) /\ (doomed' <=> doomed)
  BY <1>i, <1>m, CoreSame DEF Served
<1>d. /\ Clean' => Clean /\ timeouts' = 0 /\ raced' \subseteq {"coreDied"}
      /\ timeouts' = 0 /\ raced' = {} => timeouts = 0 /\ raced = {} /\ Clean'
  BY <1>i, <1>m, CleanBefore DEF Served
<1>1. Blocked'
  BY <1>i, <1>m, <1>c DEF Blocked, Process, LockInv, Locks, Waited
<1>2. ASSUME Clean' PROVE InFlight'
  BY <1>i, <1>m, <1>c, <1>d, <1>2 DEF InFlight, StartCalled, FilterCalled, StopCalled
<1>3. ASSUME Clean', ~doomed' PROVE Instance'
  BY <1>i, <1>m, <1>c, <1>d, <1>3
     DEF Instance, StartCalled, FilterCalled, StopCalled, RecoveryPending,
         Pending
<1>4. ASSUME timeouts' = 0, raced' = {} PROVE Shown'
  BY <1>i, <1>m, <1>c, <1>d, <1>4 DEF InFlight, Shown, StartCalled, LockInv, Locks, StartPcs
<1> QED
  BY <1>c, <1>1, <1>2, <1>3, <1>4, Zenon DEF CoreInv

\* Suspend, resume, exit, reset and the status timer.
LEMMA CoreOthers ==
  ASSUME LockInv, LockInv', CoreInv, handleSystemSuspend \/ handleSystemResume \/ FilterDied \/ PrepareExit
           \/ StopVPNProcess \/ KillReturned
  PROVE  CoreInv'
<1>i. /\ Served /\ Blocked /\ Process
      /\ Clean => InFlight
      /\ Clean /\ ~doomed => Instance
      /\ timeouts = 0 /\ raced = {} => Shown
  BY Zenon DEF CoreInv
<1>m. /\ UNCHANGED <<CoreVars, starter, stopper, running, raced, timeouts>>
      /\ mu_stopping' <=> mu_stopping
      /\ "core" \in checked' => "core" \in checked
      /\ uiWait' = uiWait \/ (uiWait \in {"no", "kill"} /\ uiWait' \in {"no", "kill"})
      /\ Pending => Pending'
  BY <1>i, MoveOthers
<1>c. /\ Served' /\ Process'
      /\ UNCHANGED <<pc, box, BoxInstance, thread>>
      /\ (alive' <=> alive) /\ (doomed' <=> doomed)
  BY <1>i, <1>m, CoreSame DEF Served
<1>d. /\ Clean' => Clean /\ timeouts' = 0 /\ raced' \subseteq {"coreDied"}
      /\ timeouts' = 0 /\ raced' = {} => timeouts = 0 /\ raced = {} /\ Clean'
  BY <1>i, <1>m, CleanBefore DEF Served
<1>1. Blocked'
  BY <1>i, <1>m, <1>c DEF Blocked, Process, LockInv, Locks, Waited
<1>2. ASSUME Clean' PROVE InFlight'
  BY <1>i, <1>m, <1>c, <1>d, <1>2 DEF InFlight, StartCalled, FilterCalled, StopCalled
<1>3. ASSUME Clean', ~doomed' PROVE Instance'
  BY <1>i, <1>m, <1>c, <1>d, <1>3
     DEF Instance, StartCalled, FilterCalled, StopCalled, RecoveryPending,
         Pending
<1>4. ASSUME timeouts' = 0, raced' = {} PROVE Shown'
  BY <1>i, <1>m, <1>c, <1>d, <1>4 DEF InFlight, Shown, StartCalled, LockInv, Locks, StartPcs
<1> QED
  BY <1>c, <1>1, <1>2, <1>3, <1>4, Zenon DEF CoreInv

\* The start thread: a Start that succeeded has made the instance it shows,
\* one that failed has left none (mainwindow_rpc.cpp:673-713).
LEMMA CoreStarter ==
  ASSUME LockInv, LockInv', CoreInv, StartNotSent \/ StartOk \/ StartFailed \/ FilterStarts \/ FilterStopAnswered
           \/ FilterOff \/ StarterEnds
  PROVE  CoreInv'
<1>i. /\ Served /\ Blocked /\ Process
      /\ Clean => InFlight
      /\ Clean /\ ~doomed => Instance
      /\ timeouts = 0 /\ raced = {} => Shown
  BY Zenon DEF CoreInv
<1>m. /\ UNCHANGED <<CoreVars, stopper, uiWait, checked, raced, coreQueue>>
      /\ mu_stopping' <=> mu_stopping
      /\ timeouts \in Nat => timeouts' \in Nat /\ (timeouts' = 0 => timeouts = 0)
      /\ \/ /\ starter.pc \in {"ready", "filter", "end"} /\ starter'.pc \in {"end", "none"}
            /\ running' = running
         \/ /\ starter.pc = "rpc" /\ pc[starter.call] = "ok"
            /\ starter'.pc \in {"filter", "end"} /\ running' # NoId
         \/ /\ starter.pc = "rpc" /\ starter'.pc = "end" /\ running' = running
            /\ timeouts \in Nat /\ timeouts' = 0 => pc[starter.call] \in {"err", "lost"}
         \/ /\ starter.pc = "filterRpc" /\ starter'.pc = "filterOff" /\ running' = running
            /\ timeouts \in Nat /\ timeouts' = 0 => pc[starter.call] \in Finished
         \/ starter.pc = "filterOff" /\ starter'.pc = "end" /\ running' = NoId
  BY <1>i, MoveStarter
<1>c. /\ Served' /\ Process'
      /\ UNCHANGED <<pc, box, BoxInstance, thread>>
      /\ (alive' <=> alive) /\ (doomed' <=> doomed)
  BY <1>i, <1>m, CoreSame DEF Served
<1>d. /\ Clean' => Clean /\ timeouts' = 0 /\ raced' \subseteq {"coreDied"}
      /\ timeouts' = 0 /\ raced' = {} => timeouts = 0 /\ raced = {} /\ Clean'
  BY <1>i, <1>m, CleanBefore DEF Served
<1>1. Blocked'
  BY <1>i, <1>m, <1>c DEF Blocked, Process, LockInv, Locks, Waited
<1>2. ASSUME Clean' PROVE InFlight'
  BY <1>i, <1>m, <1>c, <1>d, <1>2, Places
     DEF InFlight, StartCalled, FilterCalled, StopCalled, Served, StartPcs,
         StopPcs
<1>3. ASSUME Clean', ~doomed' PROVE Instance'
  BY <1>i, <1>m, <1>c, <1>d, <1>3, Places
     DEF InFlight, Instance, StartCalled, FilterCalled, StopCalled,
         RecoveryPending, Pending, Served, StartPcs, StopPcs
<1>4. ASSUME timeouts' = 0, raced' = {} PROVE Shown'
  BY <1>i, <1>m, <1>c, <1>d, <1>4 DEF InFlight, Shown, StartCalled, LockInv, Locks, StartPcs
<1> QED
  BY <1>c, <1>1, <1>2, <1>3, <1>4, Zenon DEF CoreInv

\* The stop thread: a Stop that was answered has left no instance when
\* running is cleared (mainwindow_rpc.cpp:1081-1088).
LEMMA CoreStopper ==
  ASSUME LockInv, LockInv', CoreInv, StopAnswered \/ StopFinishes
  PROVE  CoreInv'
<1>i. /\ Served /\ Blocked /\ Process
      /\ Clean => InFlight
      /\ Clean /\ ~doomed => Instance
      /\ timeouts = 0 /\ raced = {} => Shown
  BY Zenon DEF CoreInv
<1>m. /\ UNCHANGED <<CoreVars, starter, uiWait, checked, raced, coreQueue>>
      /\ mu_stopping' <=> mu_stopping
      /\ timeouts \in Nat => timeouts' \in Nat /\ (timeouts' = 0 => timeouts = 0)
      /\ \/ /\ stopper.pc = "rpc" /\ stopper'.pc = "finish" /\ running' = running
            /\ stopper'.crash = stopper.crash /\ stopper'.waiter = stopper.waiter
            /\ timeouts \in Nat /\ timeouts' = 0 => pc[stopper.call] \in Finished
         \/ stopper.pc = "finish" /\ stopper'.pc = "none" /\ running' = NoId
  BY <1>i, MoveStopper
<1>c. /\ Served' /\ Process'
      /\ UNCHANGED <<pc, box, BoxInstance, thread>>
      /\ (alive' <=> alive) /\ (doomed' <=> doomed)
  BY <1>i, <1>m, CoreSame DEF Served
<1>d. /\ Clean' => Clean /\ timeouts' = 0 /\ raced' \subseteq {"coreDied"}
      /\ timeouts' = 0 /\ raced' = {} => timeouts = 0 /\ raced = {} /\ Clean'
  BY <1>i, <1>m, CleanBefore DEF Served
<1>1. Blocked'
  BY <1>i, <1>m, <1>c DEF Blocked, Process, LockInv, Locks, Waited
<1>2. ASSUME Clean' PROVE InFlight'
  BY <1>i, <1>m, <1>c, <1>d, <1>2, Places
     DEF InFlight, StartCalled, FilterCalled, StopCalled, Served, StartPcs,
         StopPcs
<1>3. ASSUME Clean', ~doomed' PROVE Instance'
  BY <1>i, <1>m, <1>c, <1>d, <1>3, Places
     DEF InFlight, Instance, Process, Blocked, StartCalled, FilterCalled,
         StopCalled, RecoveryPending, Pending, Served, StartPcs, StopPcs
<1>4. ASSUME timeouts' = 0, raced' = {} PROVE Shown'
  BY <1>i, <1>m, <1>c, <1>d, <1>4 DEF InFlight, Shown, StartCalled, LockInv, Locks, StartPcs
<1> QED
  BY <1>c, <1>1, <1>2, <1>3, <1>4, Zenon DEF CoreInv

\* A Start is called with no instance in the core and no other call under
\* way: the locks, the stop before the start and the recovery see to it.
LEMMA CoreStartSent ==
  ASSUME LockInv, LockInv', CoreInv, NEW c \in StartCalls, StartSent(c)
  PROVE  CoreInv'
<1>i. /\ Served /\ Blocked /\ Process
      /\ Clean => InFlight
      /\ Clean /\ ~doomed => Instance
      /\ timeouts = 0 /\ raced = {} => Shown
  BY Zenon DEF CoreInv
<1>m. /\ Served'
      /\ UNCHANGED <<box, BoxInstance, procVars, thread, stopper, running, uiWait, checked,
                     coreQueue, timeouts>>
      /\ mu_stopping' <=> mu_stopping
      /\ Called(c, "start")
      /\ starter.pc = "ready" /\ starter'.pc = "rpc" /\ starter'.call = c
      /\ raced \subseteq raced'
      /\ raced' \subseteq {"coreDied"} => ~StopUnderWay /\ ~RecoveryPending
  BY <1>i, MoveStartSent
<1>s. ASSUME Clean' PROVE stopper.pc = "none" /\ running = NoId /\ ~RecoveryPending
  <2>1. ~StopUnderWay /\ ~RecoveryPending
    BY <1>m, <1>s DEF Clean
  <2>2. alive /\ proc = "Running"
    BY <1>i, <1>m DEF Called, Process
  <2>3. thread # "cleanup"
    BY <1>i, <2>2 DEF Process
  <2>4. uiWait # "recover"
    BY <2>1 DEF RecoveryPending
  <2>5. stopper.pc = "none"
    BY <1>i, <2>1, <2>3, <2>4 DEF Blocked, StopUnderWay
  <2> QED
    BY <1>i, <1>m, <2>1, <2>5 DEF Blocked
<1>d. /\ Clean' => Clean /\ timeouts' = 0 /\ raced' \subseteq {"coreDied"}
      /\ timeouts' = 0 /\ raced' = {} => timeouts = 0 /\ raced = {} /\ Clean'
  BY <1>i, <1>m, CleanBefore DEF Served
<1>1. Blocked'
  BY <1>i, <1>m DEF Blocked, Waited
<1>p. Process'
  BY <1>i, <1>m DEF Process, Called, Only, procVars, Reachable
<1>2. ASSUME Clean' PROVE InFlight'
  <2>1. InFlight /\ stopper'.pc = "none" /\ running' = NoId
    BY <1>i, <1>m, <1>d, <1>s, <1>2
  <2>2. /\ starter.pc = "ready" /\ starter'.pc = "rpc" /\ starter'.call = c
        /\ pc[c] = "idle" /\ pc'[c] = "start" /\ \A d \in Calls \ {c} : pc'[d] = pc[d]
    BY <1>m DEF Called, Only
  <2>3. \A d \in StartCalls : pc'[d] \in Active => d = c
    BY <2>1, <2>2 DEF InFlight, StartCalled
  <2>4. \A d \in StopCalls : pc'[d] \notin Active
    BY <1>s, <1>2, <2>1, <2>2 DEF InFlight, FilterCalled, StopCalled
  <2> QED
    BY <2>1, <2>2, <2>3, <2>4 DEF InFlight, StartCalled, StartPcs
<1>3. ASSUME Clean', ~doomed' PROVE Instance'
  <2>1. InFlight /\ Instance /\ BoxInstance' = BoxInstance /\ box' = box
    BY <1>i, <1>m, <1>d, <1>3 DEF procVars
  <2>2. /\ starter.pc = "ready" /\ starter'.pc = "rpc" /\ starter'.call = c
        /\ pc[c] = "idle" /\ pc'[c] = "start" /\ \A d \in Calls \ {c} : pc'[d] = pc[d]
        /\ stopper' = stopper
    BY <1>m DEF Called, Only
  <2>3. stopper.pc = "none" /\ running = NoId /\ ~RecoveryPending
    BY <1>s, <1>3
  <2>4. BoxInstance = Nil
    BY <2>1, <2>2, <2>3 DEF Instance, StartCalled
  <2> QED
    BY <2>1, <2>2, <2>3, <2>4 DEF Instance, StartCalled
<1>4. ASSUME timeouts' = 0, raced' = {} PROVE Shown'
  BY <1>i, <1>m, <1>d, <1>4 DEF Shown, StartCalled, Called
<1> QED
  BY <1>m, <1>p, <1>1, <1>2, <1>3, <1>4, Zenon DEF CoreInv

\* The Stop after a failed filter.
LEMMA CoreFilterFails ==
  ASSUME LockInv, LockInv', CoreInv, FilterFails
  PROVE  CoreInv'
<1>i. /\ Served /\ Blocked /\ Process
      /\ Clean => InFlight
      /\ Clean /\ ~doomed => Instance
      /\ timeouts = 0 /\ raced = {} => Shown
  BY Zenon DEF CoreInv
<1>m. /\ Served'
      /\ UNCHANGED <<box, BoxInstance, procVars, thread, stopper, running, uiWait, checked,
                     coreQueue, timeouts, raced>>
      /\ mu_stopping' <=> mu_stopping
      /\ starter.pc = "filter"
      /\ \/ \E c \in StopCalls :
              Called(c, "stop") /\ starter'.pc = "filterRpc" /\ starter'.call = c
         \/ /\ ~Reachable /\ starter'.pc = "filterOff"
            /\ pc' = pc /\ (alive' <=> alive)
  BY <1>i, MoveFilterFails
<1>d. /\ Clean' => Clean /\ timeouts' = 0 /\ raced' \subseteq {"coreDied"}
      /\ timeouts' = 0 /\ raced' = {} => timeouts = 0 /\ raced = {} /\ Clean'
  BY <1>i, <1>m, CleanBefore DEF Served
<1>1. Blocked'
  BY <1>i, <1>m DEF Blocked, Waited
<1>p. Process'
  BY <1>i, <1>m DEF Process, Called, Only, procVars, Reachable
<1>2. ASSUME Clean' PROVE InFlight'
  BY <1>i, <1>m, <1>d, <1>2, Places
     DEF InFlight, StartCalled, FilterCalled, StopCalled, Called, Only,
         StartPcs, StopPcs
<1>3. ASSUME Clean', ~doomed' PROVE Instance'
  BY <1>i, <1>m, <1>d, <1>3
     DEF Instance, Process, StartCalled, FilterCalled, StopCalled,
         RecoveryPending, Pending, Called, Only, procVars, Reachable
<1>4. ASSUME timeouts' = 0, raced' = {} PROVE Shown'
  BY <1>i, <1>m, <1>d, <1>4 DEF Shown, StartCalled
<1> QED
  BY <1>m, <1>p, <1>1, <1>2, <1>3, <1>4, Zenon DEF CoreInv

\* The Stop of a stop thread, or none when the core is not there.
LEMMA CoreStopSent ==
  ASSUME LockInv, LockInv', CoreInv, StopSent
  PROVE  CoreInv'
<1>i. /\ Served /\ Blocked /\ Process
      /\ Clean => InFlight
      /\ Clean /\ ~doomed => Instance
      /\ timeouts = 0 /\ raced = {} => Shown
  BY Zenon DEF CoreInv
<1>m. /\ Served'
      /\ UNCHANGED <<box, BoxInstance, procVars, thread, starter, running, uiWait, checked,
                     coreQueue, timeouts, raced>>
      /\ mu_stopping' <=> mu_stopping
      /\ stopper.pc = "begin"
      /\ stopper'.crash = stopper.crash /\ stopper'.waiter = stopper.waiter
      /\ \/ \E c \in StopCalls :
              Called(c, "stop") /\ stopper'.pc = "rpc" /\ stopper'.call = c
         \/ /\ stopper.crash \/ ~Reachable
            /\ stopper'.pc = "finish"
            /\ pc' = pc /\ (alive' <=> alive)
  BY <1>i, MoveStopSent
<1>d. /\ Clean' => Clean /\ timeouts' = 0 /\ raced' \subseteq {"coreDied"}
      /\ timeouts' = 0 /\ raced' = {} => timeouts = 0 /\ raced = {} /\ Clean'
  BY <1>i, <1>m, CleanBefore DEF Served
<1>1. Blocked'
  BY <1>i, <1>m DEF Blocked, Waited
<1>p. Process'
  BY <1>i, <1>m DEF Process, Called, Only, procVars, Reachable
<1>2. ASSUME Clean' PROVE InFlight'
  BY <1>i, <1>m, <1>d, <1>2, Places
     DEF InFlight, StartCalled, FilterCalled, StopCalled, Called, Only,
         StartPcs, StopPcs
<1>3. ASSUME Clean', ~doomed' PROVE Instance'
  BY <1>i, <1>m, <1>d, <1>3
     DEF InFlight, Instance, Process, StartCalled, FilterCalled, StopCalled,
         RecoveryPending, Pending, Called, Only, procVars, Reachable
<1>4. ASSUME timeouts' = 0, raced' = {} PROVE Shown'
  BY <1>i, <1>m, <1>d, <1>4 DEF InFlight, Shown, StartCalled
<1> QED
  BY <1>m, <1>p, <1>1, <1>2, <1>3, <1>4, Zenon DEF CoreInv

\* A handler's step: Start fills the empty instance, Stop empties it after
\* its box is closed (server.go:69-89).
LEMMA CoreServe ==
  ASSUME LockInv, LockInv', CoreInv, NEW c \in Calls, ServeCall(c)
  PROVE  CoreInv'
<1>i. /\ Served /\ Blocked /\ Process
      /\ Clean => InFlight
      /\ Clean /\ ~doomed => Instance
      /\ timeouts = 0 /\ raced = {} => Shown
  BY Zenon DEF CoreInv
<1>m. /\ Served' /\ ThreadsSame
      /\ UNCHANGED <<procVars, thread, checked, coreQueue>>
      /\ raced \subseteq raced'
      /\ \/ Died /\ (alive => "coreDied" \in raced')
         \/ c \in StartCalls /\ StartMoves(c)
         \/ c \in StopCalls /\ StopMoves(c)
  BY <1>i, MoveServe
<1>d. /\ Clean' => Clean /\ timeouts' = 0 /\ raced' \subseteq {"coreDied"}
      /\ timeouts' = 0 /\ raced' = {} => timeouts = 0 /\ raced = {} /\ Clean'
  BY <1>i, <1>m, CleanBefore DEF Served, ThreadsSame
<1>1. Blocked'
  BY <1>i, <1>m DEF Blocked, Waited, ThreadsSame
<1>p. Process'
  <2>0. UNCHANGED <<proc, core_running, portOK, doomed, thread>>
    BY <1>m DEF procVars
  <2>1. CASE Died
    <3>1. /\ ~alive' /\ BoxInstance' = Nil
          /\ \A b \in StartCalls : box'[b] # "live"
          /\ \A d \in Calls : pc'[d] \notin Active
      BY <2>1, Places DEF Died
    <3> QED
      BY <1>i, <2>0, <3>1 DEF Process
  <2>2. CASE alive /\ alive'
    BY <1>i, <2>0, <2>2 DEF Process
  <2> QED
    BY <1>m, <2>1, <2>2 DEF StartMoves, StopMoves
<1>2. ASSUME Clean' PROVE InFlight'
  BY <1>i, <1>m, <1>d, <1>2, Places
     DEF InFlight, StartCalled, FilterCalled, StopCalled, ThreadsSame, Died,
         StartMoves, StopMoves, Only, StartPcs, StopPcs
<1>3. ASSUME Clean', ~doomed' PROVE Instance'
  BY <1>i, <1>m, <1>d, <1>3, Places
     DEF InFlight, Instance, StartCalled, FilterCalled, StopCalled,
         RecoveryPending, Pending, ThreadsSame, Died, StartMoves, StopMoves,
         Only, procVars, StartPcs, StopPcs
<1>4. ASSUME timeouts' = 0, raced' = {} PROVE Shown'
  <2>1. InFlight /\ Shown /\ UNCHANGED <<starter, stopper, running>>
    BY <1>i, <1>m, <1>d, <1>4 DEF ThreadsSame
  <2>2. CASE Died /\ ~alive
    <3>1. BoxInstance = Nil /\ pc' = pc
      BY <1>i, <1>m, <2>2, Places DEF Process, Died, Served
    <3> QED
      BY <2>1, <2>2, <3>1 DEF Shown, StartCalled, Died
  <2>3. CASE c \in StartCalls /\ StartMoves(c)
    <3>1. starter.pc = "rpc" /\ starter.call = c /\ running = NoId
      BY <2>1, <2>3, Places DEF InFlight, StartMoves, StartCalled
    <3>2. pc'[c] \in {"startDone", "ok"} => BoxInstance' # Nil
      BY <2>1, <2>3, <3>1 DEF StartMoves, Shown, StartCalled
    <3> QED
      BY <2>1, <3>1, <3>2 DEF Shown, StartCalled
  <2>4. CASE c \in StopCalls /\ StopMoves(c)
    <3>1. FilterCalled(c) \/ StopCalled(c)
      BY <2>1, <2>4, Places DEF InFlight, StopMoves
    <3>2. starter.pc # "rpc"
      BY <2>1, <3>1 DEF InFlight, FilterCalled, StopCalled
    <3> QED
      BY <2>1, <3>1, <3>2 DEF Shown, StartCalled, FilterCalled, StopCalled
  <2> QED
    BY <1>m, <1>4, <2>2, <2>3, <2>4
<1> QED
  BY <1>m, <1>p, <1>1, <1>2, <1>3, <1>4, Zenon DEF CoreInv

\* The core dies with all it ran.
LEMMA CoreCoreDies ==
  ASSUME LockInv, LockInv', CoreInv, CoreDies
  PROVE  CoreInv'
<1>i. /\ Served /\ Blocked /\ Process
      /\ Clean => InFlight
      /\ Clean /\ ~doomed => Instance
      /\ timeouts = 0 /\ raced = {} => Shown
  BY Zenon DEF CoreInv
<1>m. /\ Served' /\ ThreadsSame
      /\ UNCHANGED <<procVars, thread, checked, coreQueue>>
      /\ raced \subseteq raced' /\ "coreDied" \in raced'
      /\ Died
  BY <1>i, MoveCoreDies
<1>d. /\ Clean' => Clean /\ timeouts' = 0 /\ raced' \subseteq {"coreDied"}
      /\ timeouts' = 0 /\ raced' = {} => timeouts = 0 /\ raced = {} /\ Clean'
  BY <1>i, <1>m, CleanBefore DEF Served, ThreadsSame
<1>1. Blocked'
  BY <1>i, <1>m DEF Blocked, Process, LockInv, Locks, Waited, ThreadsSame, Died, procVars
<1>p. Process'
  <2>0. UNCHANGED <<proc, core_running, portOK, doomed, thread>>
    BY <1>m DEF procVars
  <2>1. /\ ~alive' /\ BoxInstance' = Nil
        /\ \A b \in StartCalls : box'[b] # "live"
        /\ \A d \in Calls : pc'[d] \notin Active
    BY <1>m, Places DEF Died
  <2> QED
    BY <1>i, <2>0, <2>1 DEF Process
<1>2. ASSUME Clean' PROVE InFlight'
  BY <1>i, <1>m, <1>d, <1>2, Places
     DEF InFlight, StartCalled, ThreadsSame, Died, StartPcs, StopPcs
<1>3. ASSUME Clean', ~doomed' PROVE Instance'
  BY <1>i, <1>m, <1>d, <1>3 DEF Instance, StartCalled, ThreadsSame, Died
<1>4. ASSUME timeouts' = 0, raced' = {} PROVE Shown'
  BY <1>i, <1>m, <1>d, <1>4 DEF Shown, StartCalled, ThreadsSame
<1> QED
  BY <1>m, <1>p, <1>1, <1>2, <1>3, <1>4, Zenon DEF CoreInv

\* What runs on behind a handler.
LEMMA CoreBackground ==
  ASSUME LockInv, LockInv', CoreInv, Background
  PROVE  CoreInv'
<1>i. /\ Served /\ Blocked /\ Process
      /\ Clean => InFlight
      /\ Clean /\ ~doomed => Instance
      /\ timeouts = 0 /\ raced = {} => Shown
  BY Zenon DEF CoreInv
<1>m. /\ Served' /\ ThreadsSame
      /\ UNCHANGED <<procVars, thread, checked, coreQueue, raced, pc, BoxInstance>>
      /\ alive' <=> alive
      /\ \A b \in StartCalls : box'[b] = "live" <=> box[b] = "live"
  BY <1>i, MoveBackground
<1>d. /\ Clean' => Clean /\ timeouts' = 0 /\ raced' \subseteq {"coreDied"}
      /\ timeouts' = 0 /\ raced' = {} => timeouts = 0 /\ raced = {} /\ Clean'
  BY <1>i, <1>m, CleanBefore DEF Served, ThreadsSame
<1>1. Blocked'
  BY <1>i, <1>m DEF Blocked, Process, LockInv, Locks, Waited, ThreadsSame, procVars
<1>p. Process'
  BY <1>i, <1>m DEF Process, ThreadsSame, procVars
<1>2. ASSUME Clean' PROVE InFlight'
  BY <1>i, <1>m, <1>d, <1>2 DEF InFlight, StartCalled, FilterCalled, StopCalled, ThreadsSame
<1>3. ASSUME Clean', ~doomed' PROVE Instance'
  BY <1>i, <1>m, <1>d, <1>3
     DEF Instance, StartCalled, FilterCalled, StopCalled, RecoveryPending,
         Pending, Served, ThreadsSame, procVars
<1>4. ASSUME timeouts' = 0, raced' = {} PROVE Shown'
  BY <1>i, <1>m, <1>d, <1>4 DEF Shown, StartCalled, ThreadsSame
<1> QED
  BY <1>m, <1>p, <1>1, <1>2, <1>3, <1>4, Zenon DEF CoreInv

\* The supervisor brings the core down before it takes up a recovery.
LEMMA CoreSupervisor ==
  ASSUME LockInv, LockInv', CoreInv, Supervise \/ CoreComesUp \/ ExitNoticed \/ CleanedUp \/ KillGivesUp \/ RunLambda
  PROVE  CoreInv'
<1>i. /\ Served /\ Blocked /\ Process
      /\ Clean => InFlight
      /\ Clean /\ ~doomed => Instance
      /\ timeouts = 0 /\ raced = {} => Shown
  BY Zenon DEF CoreInv
<1>m. /\ Served' /\ ThreadsSame /\ Process'
      /\ UNCHANGED <<pc, box, BoxInstance, raced>>
      /\ doomed => doomed' \/ ~alive
      /\ Pending => Pending' \/ doomed' \/ ~alive
      /\ "core" \in checked' => "core" \in checked \/ thread' = "cleanup"
      /\ thread = "cleanup" /\ thread' # "cleanup" => ~Waited("core") /\ "core" \notin checked'
  BY <1>i, MoveSupervisor
<1>d. /\ Clean' => Clean /\ timeouts' = 0 /\ raced' \subseteq {"coreDied"}
      /\ timeouts' = 0 /\ raced' = {} => timeouts = 0 /\ raced = {} /\ Clean'
  BY <1>i, <1>m, CleanBefore DEF Served, ThreadsSame
<1>1. Blocked'
  BY <1>i, <1>m DEF Blocked, Process, LockInv, Locks, Waited, ThreadsSame
<1>2. ASSUME Clean' PROVE InFlight'
  BY <1>i, <1>m, <1>d, <1>2 DEF InFlight, StartCalled, FilterCalled, StopCalled, ThreadsSame
<1>3. ASSUME Clean', ~doomed' PROVE Instance'
  BY <1>i, <1>m, <1>d, <1>3
     DEF Instance, Process, StartCalled, FilterCalled, StopCalled,
         RecoveryPending, Pending, ThreadsSame
<1>4. ASSUME timeouts' = 0, raced' = {} PROVE Shown'
  BY <1>i, <1>m, <1>d, <1>4 DEF Shown, StartCalled, ThreadsSame
<1> QED
  BY <1>m, <1>1, <1>2, <1>3, <1>4, Zenon DEF CoreInv

\* The initial state.
LEMMA CoreInit == GuiInit => CoreInv
<1> SUFFICES ASSUME GuiInit PROVE CoreInv
  OBVIOUS
<1>1. /\ pc = [c \in Calls |-> "idle"] /\ BoxInstance = Nil
      /\ box = [c \in StartCalls |-> "none"] /\ timeouts = 0
      /\ starter = NoStarter /\ stopper = NoStopper /\ running = NoId /\ uiWait = "no"
      /\ checked = {} /\ proc = "Starting" /\ thread = "idle"
      /\ ~alive /\ portOK
  BY Zenon DEF GuiInit, SupInit
<1>2. Served
  BY <1>1 DEF Served
<1>3. Blocked
  BY <1>1, NoThreads DEF Blocked
<1>4. Process
  <2>1. /\ \A b \in StartCalls : box[b] # "live"
        /\ \A c \in Calls : pc[c] \notin Active
    BY <1>1, Places
  <2> QED
    BY <1>1, <2>1 DEF Process
<1>5. InFlight
  BY <1>1, NoThreads, Places DEF InFlight
<1>6. Instance
  BY <1>1, NoThreads DEF Instance, StartCalled, FilterCalled, StopCalled
<1>7. Shown
  BY <1>1, NoThreads DEF Shown, StartCalled
<1> QED
  BY <1>2, <1>3, <1>4, <1>5, <1>6, <1>7 DEF CoreInv

\* Every step keeps the invariant.
LEMMA CoreStep ==
  ASSUME LockInv, LockInv', CoreInv, [Next]_vars
  PROVE  CoreInv'
<1>1. CASE UNCHANGED vars
  <2>1. UNCHANGED <<pc, box, BoxInstance, alive, proc, core_running, portOK, doomed, thread,
                    starter, stopper, running, uiWait, checked, raced, timeouts, coreQueue,
                    mu_stopping>>
    BY <1>1, Zenon DEF vars, supVars, guiVars, threadVars, serverVars, procVars
  <2>2. Served' /\ Blocked' /\ Process'
    BY <2>1 DEF CoreInv, Served, Blocked, Process
  <2>3. Clean' => Clean /\ InFlight'
    BY <2>1 DEF CoreInv, Clean, InFlight, StartCalled, FilterCalled, StopCalled
  <2>4. Clean' /\ ~doomed' => Instance'
    BY <2>1, <2>3
       DEF CoreInv, Instance, StartCalled, FilterCalled, StopCalled, RecoveryPending
  <2>5. timeouts' = 0 /\ raced' = {} => Shown'
    BY <2>1 DEF CoreInv, Shown, StartCalled
  <2> QED
    BY <2>2, <2>3, <2>4, <2>5, Zenon DEF CoreInv
<1>2. CASE Next
  <2>1. CASE \/ \E id \in Profiles : UserStart(id)
             \/ UserStop \/ handleSystemSuspend \/ handleSystemResume \/ FilterDied
             \/ StopVPNProcess \/ PrepareExit
    BY <2>1, CoreUserStart, CoreUserStop, CoreOthers, Zenon
  <2>2. CASE UiStep
    BY <2>2, CoreUiTask, CoreCoreStarted, CoreResumeTimer, CoreUiContinues,
       CoreOthers, Zenon
       DEF UiStep
  <2>3. CASE StarterStep
    BY <2>3, CoreStarter, CoreStartSent, CoreFilterFails, Zenon DEF StarterStep
  <2>4. CASE StopperStep
    BY <2>4, CoreStopper, CoreStopSent, Zenon DEF StopperStep
  <2>5. CASE StopLocks("core") \/ StopLocks("exit")
    BY <2>5, CoreStopLocks
  <2>6. CASE Supervise \/ CoreComesUp \/ ExitNoticed \/ CleanedUp \/ KillGivesUp \/ RunLambda
    BY <2>6, CoreSupervisor, Zenon
  <2>7. CASE CoreDies \/ Background \/ \E c \in Calls : ServeCall(c)
    BY <2>7, CoreCoreDies, CoreBackground, CoreServe, Zenon
  <2> QED
    BY <1>2, <2>1, <2>2, <2>3, <2>4, <2>5, <2>6, <2>7, Zenon DEF Next, CoreThreadStep
<1> QED
  BY <1>1, <1>2

\* The invariant holds in every reachable state.
LEMMA CoreInvariant == Spec => []CoreInv
<1>1. GuiInit => CoreInv
  BY CoreInit
<1>2. LockInv /\ LockInv' /\ CoreInv /\ [Next]_vars => CoreInv'
  BY CoreStep
<1> QED
  BY <1>1, <1>2, LockInvariant, PTL DEF Spec

(***************************************************************************)
(* No box is orphaned in a core that lives on, unless an RPC timed out or  *)
(* a Start overtook a Stop or a recovery.                                  *)
(***************************************************************************)
THEOREM NothingOrphaned == Spec => []NoOrphan
<1>1. CoreInv => NoOrphan
  BY Zenon DEF CoreInv, Instance, Clean, NoOrphan
<1> QED
  BY <1>1, CoreInvariant, PTL

(***************************************************************************)
(* At rest, the core runs no profile the GUI does not know of.             *)
(***************************************************************************)
THEOREM NothingHidden == Spec => []NoHiddenInstance
<1>1. CoreInv => NoHiddenInstance
  <2> SUFFICES ASSUME CoreInv, Quiescent, Clean, BoxInstance # Nil, running = NoId
               PROVE  FALSE
    BY DEF NoHiddenInstance, Clean
  <2>1. /\ ~doomed /\ coreQueue = <<>> /\ uiWait = "no" /\ starter.pc = "none"
    BY DEF Quiescent
  <2>2. Instance
    BY <2>1, Zenon DEF CoreInv
  <2>3. ~RecoveryPending
    BY <2>1 DEF RecoveryPending
  <2> QED
    BY <2>1, <2>2, <2>3 DEF Instance, StartCalled
<1> QED
  BY <1>1, CoreInvariant, PTL

(***************************************************************************)
(* At rest, and while the core never died, the profile the GUI shows runs. *)
(***************************************************************************)
THEOREM ShownRuns == Spec => []ShownIsReal
<1>1. CoreInv => ShownIsReal
  <2> SUFFICES ASSUME CoreInv, Quiescent, timeouts = 0, raced = {}, running # NoId
               PROVE  BoxInstance # Nil
    BY Zenon DEF ShownIsReal
  <2>1. starter.pc = "none" /\ stopper.pc = "none"
    BY DEF Quiescent
  <2>2. Shown
    BY Zenon DEF CoreInv
  <2> QED
    BY <2>1, <2>2 DEF Shown
<1> QED
  BY <1>1, CoreInvariant, PTL
=============================================================================
