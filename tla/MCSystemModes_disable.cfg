SPECIFICATION Spec
CONSTANTS
  RpcOutcomes = {"ok"}
  MaxClicks = 4
  MaxCrashes = 1
PROPERTY DisableResets
CHECK_DEADLOCK FALSE
