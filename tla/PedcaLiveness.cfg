SPECIFICATION LiveSpec
CONSTANTS
  VO = VO
  VI = VI
  BE = BE
  l0 = l0
  l1 = l1
  None = None
  Links = {l0}
  ACs = {VO, BE}
  UhrLinks = {l0}
  IsSta = TRUE
  DistributePedca = FALSE
  PreferredLink = l0
  QsrcThreshold = 1
  PsrcThreshold = 2
  FrameRetryLimit = 2
  CwMin <- MCCwMin
  CwMax <- MCCwMax
  Aifsn <- MCAifsn
  TxopLimit <- MCTxopLimit
  Prio <- MCPrio
  PifsRecoveryOn = TRUE
  BackoffOnNoTx = FALSE
  ProactiveOn = FALSE
  SwitchOn = FALSE
  MaxQueue = 1
  MaxTrigger = 3
PROPERTIES
  RoundTerminates
  ChannelIsReleased
  BacklogIsServed
