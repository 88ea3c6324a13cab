SPECIFICATION LiveSpec
VIEW RequestView
CONSTANTS
  User = {u1}
  Plan <- Unlimited
  BackupUsage = {0}
  Chunk = {1}
  MaxBytes = 2
  MaxRestarts = 1
  MaxFaults = 1
  MaxEdits = 1
  MaxDay = 1
INVARIANTS
  ExactWhenQuiet
  OvershootBounded
  UndershootBounded
CONSTRAINT TwoMishaps
