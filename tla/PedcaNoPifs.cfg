SPECIFICATION Spec
CONSTANTS
  VO = VO
  VI = VI
  BE = BE
  l0 = l0
  l1 = l1
  None = None
  Links = {l0}
  ACs = {VO, VI}
  UhrLinks = {l0}
  IsSta = TRUE
  DistributePedca = FALSE
  PreferredLink = l0
  QsrcThreshold = 2
  PsrcThreshold = 2
  FrameRetryLimit = 2
  CwMin <- MCCwMin
  CwMax <- MCCwMax
  Aifsn <- MCAifsn
  TxopLimit <- MCTxopLimit
  Prio <- MCPrio
  PifsRecoveryOn = FALSE
  BackoffOnNoTx = TRUE
  ProactiveOn = FALSE
  SwitchOn = FALSE
  MaxQueue = 1
  MaxTrigger = 3
INVARIANTS
  NoLostWakeup
PROPERTIES
  ImplementsRounds
