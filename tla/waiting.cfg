CONSTANTS
  ann = ann
  bob = bob
  carl = carl
  milk = milk
  tea = tea
  w1 = w1
  w2 = w2
  w3 = w3
  Accounts = {ann, bob, carl}
  Names = {milk, tea}
  NULL = NULL
  Text = Text
  Workers = {w1, w2, w3}
  RequestSet <- WaitingRequests
  Containing <- Parts
  InitialStore <- RestockedStore
  MaxConnections = 2
  MaxInt = 7
  MaxLists = 1
  MaxItems = 1
  MaxPantry = 1
  Failures = FALSE
SPECIFICATION FairSpec
PROPERTIES
  Answered
