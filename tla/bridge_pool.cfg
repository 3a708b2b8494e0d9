SPECIFICATION FairSpec
CONSTANTS
  Sessions = {s1}
  Callers = {c1, c2}
  Pids = {p1, p2}
  MaxProcesses = 2
  MaxCalls = 2
  None = None
INVARIANT TypeOK
INVARIANT OwnAnswer
 
 
