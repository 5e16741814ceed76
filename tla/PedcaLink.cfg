SPECIFICATION Spec
CONSTANTS
  VO = VO
  VI = VI
  BE = BE
  l0 = l0
  l1 = l1
  None = None
  Links = {l0}
  ACs = {VO, BE}
  UhrLinks = {l0}
  IsSta = TRUE
  DistributePedca = FALSE
  PreferredLink = l0
  QsrcThreshold = 2
  PsrcThreshold = 2
  FrameRetryLimit = 2
  CwMin <- MCCwMin
  CwMax <- MCCwMax
  Aifsn <- MCAifsnOfOne
  TxopLimit <- MCTxopLimit
  Prio <- MCPrio
  PifsRecoveryOn = TRUE
  BackoffOnNoTx = FALSE
  ProactiveOn = TRUE
  SwitchOn = TRUE
  MaxQueue = 1
  MaxTrigger = 3
INVARIANTS
  TypeOK
  PsrcBudget
  NoCtsInTxop
  GrantedIffHolder
  OpenTxopIsKnown
  CwCoversRetries
PROPERTIES
  RoundEndsClean
  ImplementsRounds
