SPECIFICATION Spec
CONSTANTS
  Recipients = {r1}
  Ids = {1, 2}
  Accounts = {a1}
  Workers = {w0, w1}
  RetryWorker = w0
  Clients = {c1}
  Recovery = recovery
  NoMessage = none
  BatchSize = 2
  MaxPerAccount = 2
  PageSize = 2
  MaxRetries = 1
  MaxDeliveries = 2
  MaxCrashes = 1
  Media = {FALSE}
  Ops = {"start", "pause", "recover"}
  Faults = {"late", "limit"}
INVARIANT TypeOK
INVARIANT OneHolder
PROPERTY GateShut
CHECK_DEADLOCK FALSE
