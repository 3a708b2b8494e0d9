SPECIFICATION Spec
CONSTANTS
  Recipients = {r1, r2}
  Ids = {1, 2}
  Accounts = {a1}
  Workers = {w0, w1}
  RetryWorker = w0
  Clients = {c1}
  Recovery = recovery
  NoMessage = none
  BatchSize = 1
  MaxPerAccount = 1
  PageSize = 2
  MaxRetries = 1
  MaxDeliveries = 3
  MaxCrashes = 1
  Media = {TRUE, FALSE}
  Ops = {"start", "delete"}
  Faults = {"send", "late"}
INVARIANT NoGhost
INVARIANT CompletedIsSettled
 
PROPERTY CompletionReached
CHECK_DEADLOCK FALSE
