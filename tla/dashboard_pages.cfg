SPECIFICATION FormsSpec
CONSTANTS
  Pages <- MCPages
  MaxOps = 2
  MaxFlying = 2
  MaxFails = 1
INVARIANTS FormsTypeOK FreshAtRest WholeRecord
PROPERTIES    ComesToRest
