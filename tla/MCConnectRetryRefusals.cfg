SPECIFICATION Spec
CONSTANTS
  Hosts = {h1}
  Workers = 1
  ConnectRetries = 1
  MaxRefusals = 2
INVARIANTS LoginRefusedOnce
CHECK_DEADLOCK FALSE
