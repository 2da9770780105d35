CONSTANTS
  ann = ann
  bob = bob
  carl = carl
  milk = milk
  tea = tea
  w1 = w1
  w2 = w2
  w3 = w3
  Accounts = {ann, bob, carl}
  Names = {milk, tea}
  NULL = NULL
  Text = Text
  Workers = {w1, w2}
  RequestSet <- PantryRequests
  Containing <- Parts
  InitialStore <- PantryStore
  MaxConnections = 2
  MaxInt = 7
  MaxLists = 2
  MaxItems = 2
  MaxPantry = 0
  Failures = TRUE
SPECIFICATION Spec
SYMMETRY Perms
INVARIANTS
  NoOrphans
PROPERTIES
  Authorised
CHECK_DEADLOCK FALSE
