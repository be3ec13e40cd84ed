SPECIFICATION Spec
CONSTANTS
  Account <- MCAccount
  User <- MCUser
  CurrencyOf <- MCCurrencyOf
  SystemAccount <- MCSystemAccount
  MaxInt = 3
  c1 = c1  c2 = c2  c3 = c3  c4 = c4
  k1 = k1  k2 = k2  k3 = k3  k4 = k4
  Call = {c1, c2, c3, c4}
  Key = {k1, k2, k3, k4}
  Workload <- Extremes
PROPERTIES
  NoDeeperOverdraft
CHECK_DEADLOCK FALSE
