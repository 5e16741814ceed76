SPECIFICATION Spec
CONSTANTS
  Aps = {a1, a2}
  NoAp = NoAp
  MaxAid = 2
  MaxQueue = 1
INVARIANT AidsAgree
