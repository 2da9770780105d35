CONSTANTS
  ann = ann
  a_n = a_n
  red = red
  blue = blue
  w1 = w1
  w2 = w2
  Workers = {w1, w2}
  Names = {ann, a_n}
  Passwords = {red, blue}
  Like <- Patterns
  RequestSet <- AccountRequests
  MaxConnections = 2
  Failures = TRUE
  MaxAccounts = 4
  MaxRegistrations = 2
  MaxRecoveries = 2
SPECIFICATION Spec
SYMMETRY Perms
INVARIANTS
  TypeOK
  OneAccountPerName
PROPERTIES
  InvitationsBecomeAccounts
  RecoveriesBecomePasswords
  PasswordsChangeByRecovery
CHECK_DEADLOCK FALSE
