---------------------------- MODULE MCAutoTester ----------------------------
(* AutoTester with model values for the threads.  A liveness property is
   among those checked, so that they are not declared symmetric. *)
EXTENDS AutoTester
=============================================================================
