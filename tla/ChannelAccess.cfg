SPECIFICATION Spec
CONSTANTS
  NumEdcafs = 2
  Aifsn <- MCAifsn
  Sifs = 1
  Slot = 2
  EifsNoDifs = 2
  TxTime = 1
  AckDelay = 4
  MaxBackoff = 2
  MaxFrames = 1
  BusyTimes = {2}
INVARIANTS
  TypeOK
  CountdownIsExact
  OneHolder
  NoLostRequest
