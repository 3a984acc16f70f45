SPECIFICATION SessionSpec
CONSTANTS
  Keys = {k1, k2, k3}
  value_of_MAX_SESSION_ALIVE = 2
  MaxAge = 4
  AutoLogin = FALSE
INVARIANT TablesMatch
INVARIANT PromiseKept
PROPERTY NeverRevived
