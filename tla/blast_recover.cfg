SPECIFICATION Spec
CONSTANTS
  Recipients = {r1}
  Ids = {1, 2}
  Accounts = {a1}
  Workers = {w0, w1}
  RetryWorker = w0
  Clients = {c1}
  Recovery = recovery
  NoMessage = none
  BatchSize = 2
  MaxPerAccount = 2
  PageSize = 1
  MaxRetries = 0
  MaxDeliveries = 2
  MaxCrashes = 1
  Media = {FALSE}
  Ops = {"start", "recover"}
  Faults = {"send", "limit", "offline"}
PROPERTY Processed
CHECK_DEADLOCK FALSE
