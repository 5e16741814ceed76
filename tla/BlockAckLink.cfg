SPECIFICATION FairSpec
CONSTANTS
  SeqSpace = 10
  WinSize = 2
  NumMpdus = 4
  Links = {1}
  AnyLink = 0
  RetryLimit = 0
  StartSeq = 8
  MaxAmpdu = 2
  MaxRepeats = 0
  MaxInflights = 1
  UseRts = TRUE
  ExplicitBar = TRUE
INVARIANTS
  TypeOK
  BufferInWindow
  NoStrandedMpdu
  PsduStillQueued
  AckedIsDelivered
PROPERTIES
  QueueDrains
CHECK_DEADLOCK FALSE
