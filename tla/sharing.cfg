CONSTANTS
  ann = ann
  bob = bob
  carl = carl
  milk = milk
  tea = tea
  w1 = w1
  w2 = w2
  w3 = w3
  Accounts = {ann, bob, carl}
  Names = {milk, tea}
  NULL = NULL
  Text = Text
  Workers = {w1, w2}
  RequestSet <- SharingRequests
  Containing <- Parts
  InitialStore <- SharedStore
  MaxConnections = 2
  MaxInt = 7
  MaxLists = 2
  MaxItems = 2
  MaxPantry = 0
  Failures = TRUE
SPECIFICATION Spec
SYMMETRY Perms
INVARIANTS
  Disclosed
  NoOrphans
  RingsNeedRemoval
  TypeOK
PROPERTIES
  Authorised
  AllOrNothing
  SharesKeepRight
CHECK_DEADLOCK FALSE
