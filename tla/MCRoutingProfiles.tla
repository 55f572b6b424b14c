--------------------------- MODULE MCRoutingProfiles ---------------------------
(* RoutingProfiles for TLC; objects and ids are numbers, NoObj is a model value. *)
EXTENDS RoutingProfiles
================================================================================
