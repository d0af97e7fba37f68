SPECIFICATION FairBrokerSpec
CONSTANTS
  Sockets = {k1, k2, k3}
  ClosingMayBreak = TRUE
  MaxBrokerFaults = 3
  None = None
INVARIANT UnhealthyIsRepaired
CHECK_DEADLOCK FALSE
