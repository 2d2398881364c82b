SPECIFICATION Spec
CONSTANTS
  Apps = {a1}
  Recv = recv
  AppOps <- Upgrades
  Stanzas <- Enabling
  StartsWithVideo = FALSE
INVARIANTS StopVideoStops
CHECK_DEADLOCK FALSE
