---------------------------- MODULE MCSupervisor ----------------------------
(* Supervisor with small bounds.  A liveness property is among those checked, so
   that the profiles, though interchangeable, are not declared symmetric. *)
EXTENDS Supervisor
=============================================================================
