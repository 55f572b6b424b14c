SPECIFICATION Spec
CONSTANTS
  RpcOutcomes = {"ok", "refused", "late", "failed"}
  MaxClicks = 6
  MaxCrashes = 2
INVARIANTS PacketFilterAlone SavedFilterAlone 
CHECK_DEADLOCK FALSE
