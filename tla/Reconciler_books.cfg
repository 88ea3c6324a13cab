SPECIFICATION Spec
CONSTANTS
  User = {u1}
  Plan <- Unlimited
  BackupUsage = {0}
  Chunk = {1}
  MaxBytes = 2
  MaxRestarts = 1
  MaxFaults = 1
  MaxEdits = 2
  MaxDay = 1
INVARIANTS
  TypeOK
  AccountInv
  NeverOverbilled
  NeverForgotten
  ExactUnlessDisturbed
  DailyReconciles
PROPERTIES
  ImplementsMeter
