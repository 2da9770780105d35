CONSTANTS
  ann = ann
  a_n = a_n
  red = red
  blue = blue
  w1 = w1
  w2 = w2
  Workers = {w1, w2}
  Names = {ann, a_n}
  Passwords = {red, blue}
  Like <- Patterns
  RequestSet <- RegistrationRequests
  MaxConnections = 2
  Failures = FALSE
  MaxAccounts = 4
  MaxRegistrations = 1
  MaxRecoveries = 0
SPECIFICATION Spec
INVARIANTS
  AccountsAreInvited
CHECK_DEADLOCK FALSE
