SPECIFICATION Spec
CONSTANTS
  Apps = {a1, a2}
  Recv = recv
  AppOps <- AllOps
  Stanzas <- AllStates
  StartsWithVideo = FALSE
INVARIANTS TypeOK NoOrphanFrame NoSendAfterClose SenderFollowsFlags GatedUntilAcknowledged
SYMMETRY AppSymmetry
CHECK_DEADLOCK FALSE
