SPECIFICATION FairSpec
CONSTANTS
  one = one
  oneString = oneString
  two = two
  three = three
  flag = flag
  Invalid = Invalid
  Ids = {one, oneString, two, three, flag}
  KeyOf <- MCKeyOf
  ca = ca
  cb = cb
  ChallengeIds = {ca, cb}
  MaxActive = 2
  TTL = 1
  MaxIssued = 3
  MaxClock = 2
  MaxInflight = 2
  MaxRequests = 4
INVARIANTS
  OneVerdict
  ClosedKeepsNothing
  AdmissionAccounted
PROPERTIES
  RequestsProceed
