CONSTANTS
  ann = ann
  bob = bob
  tea = tea
  teapot = teapot
  p1 = p1
  p2 = p2
  p3 = p3
  shell = shell
  Accounts = {ann, bob}
  Blank = Blank
  Names = {Blank, tea, teapot}
  NULL = NULL
  Text = Text
  Containing <- Parts
  Alike <- Everybody
  InitialStore <- TwoLists
  Failures = FALSE
  MaxInt = 7
  Callers = {p1, p2, p3, shell}
  Ids <- SomeIds
  Me = ann
  Links <- BothLists
  Slots = {p1, p2, p3}
  TypedNames <- ANames
  TypedAmounts <- NoAmounts
  TypedNumbers <- ANumber
  MaxClicks = 3
  User = bob
  Shell = shell
  Commands <- ShellCommands
  MaxCommands = 1
SPECIFICATION Spec
SYMMETRY Perms
INVARIANTS
  TypeOK
  AtRestItIsTrue
PROPERTIES
  OnlyChosen
  UntypedFieldsAreStored
CHECK_DEADLOCK FALSE
