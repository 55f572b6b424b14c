---------------------------- MODULE MCSerialCore ----------------------------
(* SerialCore with model values for the calls.  A liveness property is among
   those checked, so that interchangeable calls are not declared symmetric. *)
EXTENDS SerialCore
=============================================================================
