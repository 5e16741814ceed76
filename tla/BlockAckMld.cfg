SPECIFICATION Spec
CONSTANTS
  SeqSpace = 8
  WinSize = 2
  NumMpdus = 3
  Links = {1, 2}
  AnyLink = 0
  RetryLimit = 2
  StartSeq = 6
  MaxAmpdu = 2
  MaxRepeats = 1
  MaxInflights = 1
  UseRts = FALSE
  ExplicitBar = FALSE
INVARIANTS
  OutstandingInWindow
  InFlightIsTracked
  BlockAckIsTrue
PROPERTY
  DeliveryInOrder
CHECK_DEADLOCK FALSE
