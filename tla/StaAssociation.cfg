SPECIFICATION FairSpec
CONSTANTS
  Aps = {a1, a2}
  NoAp = NoAp
  MaxAid = 2
  MaxQueue = 1
INVARIANTS
  TypeOK
  RequestHasBssid
  SidesAgree
PROPERTY KeepsTrying
