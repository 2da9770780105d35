CONSTANTS
  ann = ann
  bob = bob
  carl = carl
  tea = tea
  teapot = teapot
  h1 = h1
  s1 = s1
  s2 = s2
  Accounts = {ann, bob, carl}
  Names = {tea, teapot}
  NULL = NULL
  Text = Text
  Containing <- Parts
  Alike <- Everybody
  InitialStore <- SharedLists2
  Failures = TRUE
  MaxInt = 7
  Callers = {h1, s1, s2}
  Ids <- SomeIds
  Me = ann
  Links <- BothLists
  HomeSlots = {h1}
  ShareSlots = {s1, s2}
  NewNames <- AName
  MaxClicks = 3
  OthersRequests <- BobsRequests
  MaxOthers = 1
SPECIFICATION Spec
SYMMETRY Perms
INVARIANTS
  TypeOK
  SideBarIsTrue
  CommitIsShown
PROPERTIES
  OnlyMarked
CHECK_DEADLOCK FALSE
