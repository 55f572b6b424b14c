----------------------------- MODULE OneInstance -----------------------------
(***************************************************************************)
(* What the core promises a client that makes one call at a time: one      *)
(* sing-box instance at most, never launched twice, and a client that is   *)
(* told neither too early nor too late.  SerialCore implements it.         *)
(***************************************************************************)
CONSTANT Instances

VARIABLES
  running,   \* the instances that run
  used,      \* those that were ever launched
  shown      \* the client has been told that one runs

vars == <<running, used, shown>>

Init == running = {} /\ used = {} /\ shown = FALSE

\* Nothing runs and the client knows it.
Launch(b) ==
  /\ running = {} /\ ~shown /\ b \notin used
  /\ running' = {b}
  /\ used' = used \cup {b}
  /\ UNCHANGED shown

Announce == running # {} /\ ~shown /\ shown' = TRUE /\ UNCHANGED <<running, used>>

\* Only what the client was told of is taken down.
Retire == running # {} /\ shown /\ running' = {} /\ UNCHANGED <<used, shown>>

Acknowledge == running = {} /\ shown /\ shown' = FALSE /\ UNCHANGED <<running, used>>

\* The core dies.
Crash == running' = {} /\ shown' = FALSE /\ UNCHANGED used

Next == (\E b \in Instances : Launch(b)) \/ Announce \/ Retire \/ Acknowledge \/ Crash

Spec == Init /\ [][Next]_vars
=============================================================================
