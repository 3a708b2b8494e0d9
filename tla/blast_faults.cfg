SPECIFICATION Spec
CONSTANTS
  Recipients = {r1}
  Ids = {1}
  Accounts = {a1}
  Workers = {w0}
  RetryWorker = w0
  Clients = {c1}
  Recovery = recovery
  NoMessage = none
  BatchSize = 2
  MaxPerAccount = 2
  PageSize = 2
  MaxRetries = 1
  MaxDeliveries = 2
  MaxCrashes = 1
  Media = {TRUE, FALSE}
  Ops = {"start", "pause", "reset", "add", "delete", "edit", "recover"}
  Faults = {"send", "limit", "crash", "db", "redis", "media", "cancel", "offline"}
INVARIANT SentWasDelivered
CHECK_DEADLOCK FALSE
