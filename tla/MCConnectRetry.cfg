SPECIFICATION FairSpec
CONSTANTS
  Hosts = {h1, h2}
  Workers = 2
  ConnectRetries = 2
  MaxRefusals = 2
INVARIANTS TypeOK CommandsInOneAttempt FailedHostsMatchResults
PROPERTIES NoRetryAfterRefusal KeepsContract WillRetryIsKept Returns
CHECK_DEADLOCK FALSE
