SPECIFICATION LiveSpec
CONSTANTS
  User = {u1}
  Plan <- Unlimited
  BackupUsage = {1}
  Chunk = {1}
  MaxBytes = 2
  MaxRestarts = 0
  MaxFaults = 0
  MaxEdits = 0
  MaxDay = 1
INVARIANTS
  NoDoubleCount
