SPECIFICATION FairSpec
CONSTANTS
  RetryLimit = 2
  MaxRequests = 2
  Inactivity = TRUE
INVARIANTS
  TypeOK
  HandshakeIsWatched
PROPERTIES
  HandshakeEnds
  BlockedIsUnblocked
  EstablishedOnBothSides
CHECK_DEADLOCK FALSE
