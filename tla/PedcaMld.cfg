SPECIFICATION Spec
CONSTANTS
  VO = VO
  VI = VI
  BE = BE
  l0 = l0
  l1 = l1
  None = None
  Links = {l0, l1}
  ACs = {VO}
  UhrLinks = {l0, l1}
  IsSta = TRUE
  DistributePedca = TRUE
  PreferredLink = l0
  QsrcThreshold = 2
  PsrcThreshold = 2
  FrameRetryLimit = 2
  CwMin <- MCCwMin
  CwMax <- MCCwMax
  Aifsn <- MCAifsn
  TxopLimit <- MCTxopLimit
  Prio <- MCPrio
  PifsRecoveryOn = TRUE
  BackoffOnNoTx = FALSE
  ProactiveOn = FALSE
  SwitchOn = FALSE
  MaxQueue = 2
  MaxTrigger = 2
INVARIANTS
  PendingCtsIsDue
  AfterCtsFollowsCts
  InFlightIsQueued
  NoLostWakeup
